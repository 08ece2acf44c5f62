---------------------------- MODULE SpotTradesProofs ----------------------------
(***************************************************************************)
(* Proofs about SpotTrades, for any number of trades and tickers, any size, *)
(* limits and amount of trouble.                                           *)
(*                                                                         *)
(* BuyInv is inductive.  It relates the list that the driving task took at  *)
(* the start of its tick to the trades as scans leave them (ListMeans),     *)
(* says that whatever memory or disk would still buy was not bought         *)
(* (NotBought), and how far the counter of the day is behind (DayMeans).    *)
(* RecordInv adds what an order under way will make of its trade, for every  *)
(* trade that was not marked as sold for more than was sold (cut).          *)
(***************************************************************************)
EXTENDS SpotTrades, FiniteSetTheorems, TLAPS

USE SpotAssumption

Buying  == {"buyBal", "buySend", "buyFailed", "buyLanded", "buyTold"}
Selling == {"sellBal", "sellFresh", "sellSend", "sellFailed", "sellLanded", "sellTold"}

\* What a trade, memory and the file say of each other.
NewMeans == \A i \in Trades : /\ i > nt => tr[i].st = "none" /\ bought[i] = 0 /\ (clean => have[i] = 0)
                              /\ tr[i].st = "open" => tr[i].vol > 0
LiveMeans == \A t \in Tickers : live[t] # 0 =>
               /\ live[t] \in 1..nt /\ Coin(live[t]) = t /\ tr[live[t]].st \in {"pending", "open"}
FileMeans == \A t \in Tickers : file[t].id # 0 =>
               /\ file[t].id \in 1..nt /\ Coin(file[t].id) = t /\ file[t].st \in {"pending", "open"}
               /\ file[t].st = "open" => file[t].vol > 0
TradesMean == NewMeans /\ LiveMeans /\ FileMeans

\* The list of the task: one trade of a market, the live one unless a scan has
\* finished it since; the new one it may have opened is not bought.
ListMeans ==
  /\ \A i, j \in h.left : Coin(i) = Coin(j) => i = j
  /\ \A i \in h.left :
       \/ tr[i].st \in {"pending", "open"} /\ live[Coin(i)] = i
       \/ /\ Over(i)
          /\ live[Coin(i)] # 0 => tr[live[Coin(i)]].st = "pending"
  /\ pc \in {"off", "idle"} => h.left = {}
  /\ pc \in Waiting => h.id \in h.left
  /\ pc \in Buying => tr[h.id].st = "pending"
  /\ pc \in Selling => tr[h.id].st = "open" /\ h.want \in 1..tr[h.id].vol
  /\ pc \in {"sellSend", "sellLanded", "sellTold"} => h.qty \in 1..h.want
  /\ pc \in {"buyLanded", "sellLanded"} => \E o \in ords : o.by = "sent"

\* A trade that may still be bought was not.
NotBought ==
  clean => \A i \in Trades :
    /\ bought[i] <= 1
    /\ Settled(i) /\ tr[i].st = "pending" => bought[i] = 0
    /\ Settled(i) /\ file[Coin(i)].id = i /\ file[Coin(i)].st = "pending" => bought[i] = 0

\* The counter of the day is behind by the order whose answer is awaited.
DayMeans ==
  clean /\ ~late =>
    /\ today <= MaxBuys
    /\ newday => today = 0 /\ pc # "buySend"
    /\ ~newday => today <= buys + (IF pc = "buyLanded" THEN 1 ELSE 0)
    /\ pc = "buySend" => buys < MaxBuys

\* An order that is being told.
OrdersMean ==
  clean /\ h.id \notin cut =>
    /\ pc \in {"buyLanded", "buyTold"} => have[h.id] = Size
    /\ pc \in {"sellLanded", "sellTold"} => have[h.id] = tr[h.id].vol - h.qty

BuyInv == TypeOK /\ IsFiniteSet(ords) /\ TradesMean /\ ListMeans /\ NotBought /\ DayMeans

RecordInv == OrdersMean /\ MemoryTrue /\ FileTrue

----------------------------------------------------------------------------
(* The type invariant, variable group by variable group.                    *)

ExchangeTypes == coin \in [Tickers -> Nat] /\ ords \subseteq Order
MemoryTypes   == /\ tr \in [Trades -> Trade] /\ nt \in 0..MaxTrades
                 /\ live \in [Tickers -> 0..MaxTrades]
FileTypes     == file \in [Tickers -> Entry]
BalanceTypes  == cache \in [Tickers -> Nat] /\ aged \in BOOLEAN
RiskTypes     == /\ buys \in Nat /\ halted \in BOOLEAN /\ newday \in BOOLEAN
                 /\ cool \in [Tickers -> {"no", "hot", "warm"}]
ControlTypes  == /\ brk \in {"calm", "tripping", "telling", "cooling"}
                 /\ enabled \in BOOLEAN /\ stopping \in BOOLEAN /\ thin \subseteq Tickers
Jobs          == [left: SUBSET Trades, id: 0..MaxTrades, can: BOOLEAN, want: 0..Size, qty: 0..Size]
TaskTypes     == /\ pc \in {"off", "idle", "next"} \cup Waiting /\ h \in Jobs
                 /\ pc \in Waiting => h.id # 0
HistoryTypes  == /\ have \in [Trades -> Nat] /\ bought \in [Trades -> Nat]
                 /\ today \in Nat /\ late \in BOOLEAN /\ clean \in BOOLEAN /\ cut \subseteq Trades
BudgetTypes   == trouble \in 0..MaxTrouble /\ crashes \in 0..MaxCrashes /\ turns \in 0..MaxTurns

LEMMA TypesOK ==
  TypeOK <=> /\ ExchangeTypes /\ MemoryTypes /\ FileTypes /\ dirty \in BOOLEAN /\ BalanceTypes
             /\ RiskTypes /\ ControlTypes /\ TaskTypes /\ HistoryTypes /\ BudgetTypes
BY DEF TypeOK, ExchangeTypes, MemoryTypes, FileTypes, BalanceTypes, RiskTypes, ControlTypes, TaskTypes,
       HistoryTypes, BudgetTypes, Jobs

LEMMA TypesOKNext ==
  TypeOK' <=> /\ ExchangeTypes' /\ MemoryTypes' /\ FileTypes' /\ dirty' \in BOOLEAN /\ BalanceTypes'
              /\ RiskTypes' /\ ControlTypes' /\ TaskTypes' /\ HistoryTypes' /\ BudgetTypes'
BY DEF TypeOK, ExchangeTypes, MemoryTypes, FileTypes, BalanceTypes, RiskTypes, ControlTypes, TaskTypes,
       HistoryTypes, BudgetTypes, Jobs

\* What an action leaves alone keeps its type.
LEMMA TypesKept ==
  /\ UNCHANGED exchange => (ExchangeTypes => ExchangeTypes')
  /\ UNCHANGED memory => (MemoryTypes => MemoryTypes')
  /\ UNCHANGED file => (FileTypes => FileTypes')
  /\ UNCHANGED balances => (BalanceTypes => BalanceTypes')
  /\ UNCHANGED risk => (RiskTypes => RiskTypes')
  /\ UNCHANGED control => (ControlTypes => ControlTypes')
  /\ UNCHANGED task => (TaskTypes => TaskTypes')
  /\ UNCHANGED history => (HistoryTypes => HistoryTypes')
  /\ UNCHANGED budget => (BudgetTypes => BudgetTypes')
BY DEF exchange, memory, balances, risk, control, task, history, budget, ExchangeTypes, MemoryTypes, FileTypes,
       BalanceTypes, RiskTypes, ControlTypes, TaskTypes, HistoryTypes, BudgetTypes

LEMMA BudgetNext ==
  ASSUME BudgetTypes, Trouble \/ Calm, UNCHANGED <<crashes, turns>> \/ (UNCHANGED crashes /\ Turn)
  PROVE  BudgetTypes'
BY DEF BudgetTypes, Trouble, Calm, Turn

LEMMA SpotFirst == Init => BuyInv /\ RecordInv
<1> SUFFICES ASSUME Init PROVE BuyInv /\ RecordInv
  OBVIOUS
<1> USE DEF Init
<1>1. [st |-> "none", vol |-> 0, pend |-> FALSE] \in Trade /\ Absent \in Entry /\ NoJob \in Jobs
  BY DEF Trade, Entry, Absent, NoJob, Jobs, Statuses
<1>2. TypeOK
  <2>1. ExchangeTypes /\ MemoryTypes /\ FileTypes
    BY <1>1 DEF ExchangeTypes, MemoryTypes, FileTypes
  <2>2. dirty \in BOOLEAN /\ BalanceTypes /\ RiskTypes /\ ControlTypes
    BY DEF BalanceTypes, RiskTypes, ControlTypes
  <2>3. TaskTypes /\ BudgetTypes
    BY <1>1 DEF TaskTypes, BudgetTypes, Waiting, Landed
  <2>4. HistoryTypes
    BY DEF HistoryTypes
  <2> QED
    BY <2>1, <2>2, <2>3, <2>4, TypesOK
<1>3. \A i \in Trades : tr[i].st = "none" /\ have[i] = 0 /\ bought[i] = 0
  OBVIOUS
<1>4. (\A t \in Tickers : live[t] = 0 /\ file[t].id = 0) /\ h.left = {}
  BY DEF Absent, NoJob
<1>5. TradesMean
  BY <1>3, <1>4 DEF TradesMean, NewMeans, LiveMeans, FileMeans
<1>6. ListMeans
  BY <1>4 DEF ListMeans, Waiting, Landed, Buying, Selling
<1>7. NotBought /\ DayMeans /\ OrdersMean
  BY <1>3 DEF NotBought, DayMeans, OrdersMean
<1>8. MemoryTrue /\ FileTrue
  <2>1. \A i \in Trades : Coin(i) \in Tickers /\ i # 0
    BY DEF Coin, Trades
  <2> QED
    BY <1>3, <1>4, <2>1 DEF MemoryTrue, FileTrue
<1> QED
  BY <1>2, <1>5, <1>6, <1>7, <1>8, FS_EmptySet DEF BuyInv, RecordInv

----------------------------------------------------------------------------
(* Steps beside the task.                                                   *)

SentStays == (\E o \in ords : o.by = "sent") => \E o \in ords' : o.by = "sent"

\* A step that changes nothing of the trades.
LEMMA BesideKeeps ==
  ASSUME BuyInv, TypeOK', IsFiniteSet(ords'), SentStays, DayMeans',
         UNCHANGED <<memory, file, task>>, bought' = bought, cut' = cut,
         (have' = have /\ clean' = clean) \/ ~clean'
  PROVE  BuyInv' /\ (RecordInv => RecordInv')
<1>1. UNCHANGED <<tr, nt, live, file, pc, h, bought, cut>>
  BY DEF memory, task
<1>2. TradesMean'
  BY <1>1 DEF BuyInv, TradesMean, NewMeans, LiveMeans, FileMeans
<1>3. ListMeans'
  BY <1>1 DEF BuyInv, ListMeans, SentStays, Over
<1>4. NotBought'
  BY <1>1 DEF BuyInv, NotBought, Settled
<1>5. ASSUME RecordInv PROVE RecordInv'
  <2>1. CASE ~clean'
    BY <2>1 DEF RecordInv, OrdersMean, MemoryTrue, FileTrue
  <2>2. CASE have' = have /\ clean' = clean
    <3>1. OrdersMean'
      BY <1>1, <1>5, <2>2 DEF RecordInv, OrdersMean
    <3>2. MemoryTrue'
      BY <1>1, <1>5, <2>2 DEF RecordInv, MemoryTrue, Settled, Up
    <3>3. FileTrue'
      BY <1>1, <1>5, <2>2 DEF RecordInv, FileTrue, Settled
    <3> QED
      BY <3>1, <3>2, <3>3 DEF RecordInv
  <2> QED
    BY <2>1, <2>2
<1> QED
  BY <1>2, <1>3, <1>4, <1>5 DEF BuyInv

LEMMA RefreshTypes ==
  ASSUME ExchangeTypes, BalanceTypes, RiskTypes, Refresh \/ (cache' = coin' /\ aged' = FALSE /\ cool' = Refreshed(cool)),
         coin' \in [Tickers -> Nat]
  PROVE  BalanceTypes' /\ cool' \in [Tickers -> {"no", "hot", "warm"}]
<1>1. Refreshed(cool) \in [Tickers -> {"no", "hot", "warm"}]
  BY DEF Refreshed, RiskTypes
<1>2. CASE cache' = coin /\ aged' = FALSE /\ cool' = Refreshed(cool)
  BY <1>1, <1>2 DEF BalanceTypes, ExchangeTypes
<1>3. CASE cache' = coin' /\ aged' = FALSE /\ cool' = Refreshed(cool)
  BY <1>1, <1>3 DEF BalanceTypes
<1>4. CASE UNCHANGED <<cache, aged, cool>>
  BY <1>4 DEF BalanceTypes, RiskTypes
<1> QED
  BY <1>2, <1>3, <1>4 DEF Refresh

\* Orders that end or are lost sight of stay orders.
LEMMA EndedOrders ==
  ASSUME ExchangeTypes, IsFiniteSet(ords), NEW o \in ords, ords' = Ended(o)
  PROVE  ords' \subseteq Order /\ IsFiniteSet(ords') /\ SentStays
<1>1. [o EXCEPT !.ended = TRUE] \in Order /\ [o EXCEPT !.ended = TRUE].by = o.by
  BY DEF ExchangeTypes, Order
<1>2. IsFiniteSet(ords \ {o}) /\ IsFiniteSet((ords \ {o}) \cup {[o EXCEPT !.ended = TRUE]})
  BY FS_RemoveElement, FS_AddElement, FS_Difference
<1>3. CASE o.by = "loose"
  BY <1>2, <1>3 DEF Ended, SentStays, ExchangeTypes
<1>4. CASE o.by # "loose"
  BY <1>1, <1>2, <1>4 DEF Ended, SentStays, ExchangeTypes
<1> QED
  BY <1>3, <1>4

\* The image of a finite set is finite and no larger.
LEMMA ImageOf ==
  ASSUME NEW S, IsFiniteSet(S), NEW g, DOMAIN g = S, g = [x \in S |-> g[x]]
  PROVE  /\ IsFiniteSet({g[x] : x \in S}) /\ Cardinality({g[x] : x \in S}) <= Cardinality(S)
<1> DEFINE T == {g[x] : x \in S}
<1>1. g \in Surjection(S, T)
  BY DEF Surjection
<1> HIDE DEF T
<1>2. IsFiniteSet(T) /\ Cardinality(T) <= Cardinality(S)
  BY <1>1, FS_Surjection
<1> QED
  BY <1>2 DEF T

LEMMA LoosenOrders ==
  ASSUME NEW S, S \subseteq Order, IsFiniteSet(S), NEW by \in {"sent", "tracked"}
  PROVE  /\ Loosen(S, by) \subseteq Order /\ IsFiniteSet(Loosen(S, by))
         /\ \A o \in S : o.by # by => o \in Loosen(S, by)
<1> DEFINE f(o) == IF o.by = by THEN [o EXCEPT !.by = "loose"] ELSE o
<1>1. Loosened(S, by) \subseteq S /\ IsFiniteSet(Loosened(S, by))
  BY FS_Subset DEF Loosened
<1>2. \A o \in Order : f(o) \in Order
  BY DEF Order
<1>3. Loosen(S, by) = {f(o) : o \in Loosened(S, by)}
  BY DEF Loosen
<1>4. IsFiniteSet(Loosen(S, by))
  <2> DEFINE g == [o \in Loosened(S, by) |-> f(o)]
  <2>1. Loosen(S, by) = {g[o] : o \in Loosened(S, by)}
    BY <1>3
  <2>2. DOMAIN g = Loosened(S, by) /\ g = [o \in Loosened(S, by) |-> g[o]]
    OBVIOUS
  <2> HIDE DEF g
  <2> QED
    BY <1>1, <2>1, <2>2, ImageOf
<1>5. \A o \in S : o.by # by => o \in Loosen(S, by)
  BY DEF Loosen, Loosened
<1> QED
  BY <1>1, <1>2, <1>3, <1>4, <1>5

LEMMA UndoneTypes ==
  ASSUME ExchangeTypes, HistoryTypes, NEW o \in ords, Undone(o)
  PROVE  have' \in [Trades -> Nat] /\ coin' \in [Tickers -> Nat] /\ clean' = FALSE
<1>1. o \in Order /\ o.qty \in Nat /\ o.id \in Trades
  BY DEF ExchangeTypes, Order
<1>2. \A n \in Nat : n - Lower(n, o.qty) \in Nat /\ n + o.qty \in Nat
  BY <1>1 DEF Lower
<1> QED
  BY <1>1, <1>2 DEF Undone, ExchangeTypes, HistoryTypes

\* A number that no order has.
LEMMA FreeNumber ==
  ASSUME ords \subseteq Order, IsFiniteSet(ords)
  PROVE  \E k \in 0..Cardinality(ords) : \A o \in ords : o.n # k
<1> DEFINE N == {o.n : o \in ords}
           g == [o \in ords |-> o.n]
<1>1. IsFiniteSet(N) /\ Cardinality(N) <= Cardinality(ords)
  <2>1. N = {g[o] : o \in ords} /\ DOMAIN g = ords /\ g = [o \in ords |-> g[o]]
    OBVIOUS
  <2> HIDE DEF N, g
  <2> QED
    BY <2>1, ImageOf
<1>2. Cardinality(ords) \in Nat /\ Cardinality(N) \in Nat
  BY <1>1, FS_CardinalityType
<1>3. SUFFICES ASSUME 0..Cardinality(ords) \subseteq N PROVE FALSE
  OBVIOUS
<1> HIDE DEF N
<1>4. Cardinality(0..Cardinality(ords)) = Cardinality(ords) + 1
  BY <1>2, FS_Interval
<1>5. Cardinality(0..Cardinality(ords)) <= Cardinality(N)
  BY <1>1, <1>3, FS_Subset
<1> QED
  BY <1>1, <1>2, <1>4, <1>5

LEMMA Accepted ==
  ASSUME ords \subseteq Order, IsFiniteSet(ords), NEW i \in Trades, NEW side \in {"bid", "ask"}, NEW qty \in 1..Size,
         Accept(i, side, qty)
  PROVE  ords' \subseteq Order /\ IsFiniteSet(ords') /\ \E o \in ords' : o.by = "sent"
<1> DEFINE n == CHOOSE k \in 0..Cardinality(ords) : \A o \in ords : o.n # k
           x == [n |-> n, id |-> i, side |-> side, qty |-> qty, ended |-> FALSE, by |-> "sent"]
<1>1. n \in 0..Cardinality(ords) /\ Cardinality(ords) \in Nat
  BY FreeNumber, FS_CardinalityType
<1>2. ords' = ords \cup {x}
  BY DEF Accept
<1> HIDE DEF n
<1>3. x \in Order /\ x.by = "sent"
  BY <1>1 DEF Order
<1> HIDE DEF x
<1> QED
  BY <1>2, <1>3, FS_AddElement

\* The order whose answer has come.
LEMMA AnsweredOrder ==
  ASSUME ords \subseteq Order, IsFiniteSet(ords), \E o \in ords : o.by = "sent",
         ords' = (ords \ {Mine}) \cup {[Mine EXCEPT !.by = "tracked"]}
  PROVE  ords' \subseteq Order /\ IsFiniteSet(ords')
<1>1. Mine \in ords
  BY DEF Mine
<1>2. [Mine EXCEPT !.by = "tracked"] \in Order
  BY <1>1 DEF Order
<1> QED
  BY <1>1, <1>2, FS_RemoveElement, FS_AddElement

SafeNext == BuyInv' /\ (RecordInv => RecordInv')

LEMMA InvTypes ==
  ASSUME BuyInv
  PROVE  /\ ExchangeTypes /\ MemoryTypes /\ FileTypes /\ dirty \in BOOLEAN /\ BalanceTypes
         /\ RiskTypes /\ ControlTypes /\ TaskTypes /\ HistoryTypes /\ BudgetTypes /\ IsFiniteSet(ords)
BY TypesOK DEF BuyInv

\* The clock of the day.
LEMMA DaySteps ==
  ASSUME BuyInv, NextDay \/ UpdateEquity
  PROVE  SafeNext
<1>1. UNCHANGED <<exchange, memory, file, dirty, balances, task>> /\ UNCHANGED <<have, bought, clean, cool, cut>>
  BY DEF NextDay, UpdateEquity, history
<1>2. ords' = ords /\ coin' = coin /\ pc' = pc /\ dirty' = dirty
  BY <1>1 DEF exchange, task
<1>3. TypeOK'
  <2>1. CASE NextDay
    <3>1. RiskTypes'
      BY <2>1, InvTypes DEF NextDay, RiskTypes
    <3>2. BudgetTypes'
      BY <2>1, InvTypes, BudgetNext DEF NextDay, Calm
    <3>3. HistoryTypes'
      <4>1. late' \in BOOLEAN
        BY <2>1 DEF NextDay
      <4> QED
        BY <1>1, <2>1, <4>1, InvTypes DEF NextDay, HistoryTypes
    <3>4. ControlTypes'
      BY <2>1, InvTypes, TypesKept DEF NextDay
    <3> QED
      BY <1>1, <1>2, <3>1, <3>2, <3>3, <3>4, InvTypes, TypesKept, TypesOKNext
  <2>2. CASE UpdateEquity
    <3>1. RiskTypes'
      <4>1. buys' \in Nat /\ newday' = FALSE /\ cool' = cool
        BY <2>2, InvTypes DEF UpdateEquity, BuysNow, RiskTypes
      <4>2. halted' \in BOOLEAN
        BY <2>2 DEF UpdateEquity, HaltNow
      <4> QED
        BY <4>1, <4>2, InvTypes DEF RiskTypes
    <3>2. BudgetTypes'
      BY <2>2, InvTypes, BudgetNext DEF UpdateEquity, Calm
    <3>3. HistoryTypes' /\ ControlTypes'
      BY <2>2, InvTypes, TypesKept DEF UpdateEquity
    <3> QED
      BY <1>1, <1>2, <3>1, <3>2, <3>3, InvTypes, TypesKept, TypesOKNext
  <2> QED
    BY <2>1, <2>2
<1>4. DayMeans'
  <2>1. CASE NextDay
    <3>1. today' = 0 /\ newday' /\ (~late' => pc' # "buySend")
      <4>1. today' = 0 /\ newday' = TRUE /\ late' = (pc = "buySend")
        BY <2>1 DEF NextDay
      <4> QED
        BY <1>2, <4>1, Zenon
    <3>2. 0 <= MaxBuys
      OBVIOUS
    <3> QED
      BY <3>1, <3>2 DEF DayMeans
  <2>2. CASE UpdateEquity
    BY <1>1, <1>2, <2>2, InvTypes DEF UpdateEquity, BuysNow, BuyInv, DayMeans, history, RiskTypes
  <2> QED
    BY <2>1, <2>2
<1> QED
  BY <1>1, <1>2, <1>3, <1>4, BesideKeeps, InvTypes DEF SentStays, SafeNext

\* Steps of the clock, the exchange, the breaker, the gate and persons.
LEMMA BesideSteps ==
  ASSUME BuyInv,
         \/ Age \/ RefreshTick \/ Trip \/ TripClears \/ Cools \/ TripTimeout \/ ApplyGate \/ SigTerm
         \/ \E t \in Tickers : CooldownEnds(t) \/ PriceFalls(t) \/ PriceRises(t)
         \/ \E o \in ords : Execute(o) \/ SyncEnded(o) \/ SyncTimeout(o) \/ SyncGiveUp(o) \/ TripCancels(o)
  PROVE  SafeNext
<1> USE InvTypes
<1>1. /\ UNCHANGED <<memory, file, dirty, task, bought, today, late, cut, buys, halted, newday>>
      /\ (have' = have /\ clean' = clean) \/ ~clean'
  BY DEF Age, RefreshTick, Trip, TripClears, Cools, TripTimeout, ApplyGate, SigTerm, CooldownEnds, PriceFalls, PriceRises,
         Execute, SyncEnded, SyncTimeout, SyncGiveUp, TripCancels, Undone, risk, history, control
<1> DEFINE Kept == /\ ExchangeTypes' /\ IsFiniteSet(ords') /\ SentStays
                   /\ have' \in [Trades -> Nat] /\ clean' \in BOOLEAN
<1>2. Kept
  <2>1. CASE UNCHANGED exchange /\ UNCHANGED history
    BY <2>1 DEF exchange, history, SentStays, ExchangeTypes, HistoryTypes
  <2>2. CASE TripClears
    <3>1. ords' = Loosen(ords, "tracked") /\ UNCHANGED <<coin, history>>
      BY <2>2 DEF TripClears
    <3>2. ords' \subseteq Order /\ IsFiniteSet(ords') /\ \A o \in ords : o.by # "tracked" => o \in ords'
      BY <3>1, LoosenOrders DEF ExchangeTypes
    <3> QED
      BY <3>1, <3>2 DEF history, SentStays, ExchangeTypes, HistoryTypes
  <2>3. ASSUME NEW o \in ords, Execute(o) PROVE Kept
    <3>1. ords' \subseteq Order /\ IsFiniteSet(ords') /\ SentStays
      BY <2>3, EndedOrders DEF Execute
    <3>2. o.qty \in Nat
      BY DEF ExchangeTypes, Order
    <3>3. coin' = coin \/ coin' = [coin EXCEPT ![Coin(o.id)] = @ + o.qty]
      BY <2>3 DEF Execute
    <3>4. coin' \in [Tickers -> Nat]
      BY <3>2, <3>3 DEF ExchangeTypes
    <3> QED
      BY <2>3, <3>1, <3>4 DEF Execute, history, ExchangeTypes, HistoryTypes
  <2>4. ASSUME NEW o \in ords, TripCancels(o) PROVE Kept
    <3>1. ords' \subseteq Order /\ IsFiniteSet(ords') /\ SentStays
      BY <2>4, EndedOrders DEF TripCancels
    <3> QED
      BY <2>4, <3>1, UndoneTypes DEF TripCancels, ExchangeTypes
  <2>5. ASSUME NEW o \in ords, SyncEnded(o) \/ SyncTimeout(o) PROVE Kept
    <3>1. ords' = ords \ {o} /\ o.by = "tracked"
      BY <2>5 DEF SyncEnded, SyncTimeout
    <3>2. ords' \subseteq Order /\ IsFiniteSet(ords') /\ SentStays
      BY <3>1, FS_RemoveElement DEF ExchangeTypes, SentStays
    <3>3. CASE SyncEnded(o)
      BY <3>2, <3>3 DEF SyncEnded, history, ExchangeTypes, HistoryTypes
    <3>4. CASE SyncTimeout(o)
      BY <3>2, <3>4, UndoneTypes DEF SyncTimeout, ExchangeTypes
    <3> QED
      BY <2>5, <3>3, <3>4
  <2>6. ASSUME NEW o \in ords, SyncGiveUp(o) PROVE Kept
    <3> DEFINE x == [o EXCEPT !.by = "loose"]
    <3>1. x \in Order
      BY DEF ExchangeTypes, Order
    <3>2. ords' = ords \ {o} \/ ords' = (ords \ {o}) \cup {x}
      BY <2>6 DEF SyncGiveUp
    <3>3. o.by = "tracked"
      BY <2>6 DEF SyncGiveUp
    <3> HIDE DEF x
    <3>4. ords' \subseteq Order /\ SentStays
      BY <3>1, <3>2, <3>3 DEF ExchangeTypes, SentStays
    <3>5. IsFiniteSet(ords \ {o})
      BY FS_Difference
    <3>6. IsFiniteSet(ords')
      <4>1. IsFiniteSet((ords \ {o}) \cup {x})
        BY <3>5, FS_AddElement, Zenon
      <4> QED
        BY <3>2, <3>5, <4>1
    <3> QED
      BY <2>6, <3>4, <3>6 DEF SyncGiveUp, history, ExchangeTypes, HistoryTypes
  <2> HIDE DEF Kept
  <2> QED
    BY <2>1, <2>2, <2>3, <2>4, <2>5, <2>6 DEF exchange, history, Age, RefreshTick, Trip, Cools, TripTimeout, ApplyGate, SigTerm, CooldownEnds,
         PriceFalls, PriceRises
<1>3. BalanceTypes' /\ cool' \in [Tickers -> {"no", "hot", "warm"}]
  <2>1. CASE UNCHANGED <<balances, cool>>
    BY <2>1, TypesKept DEF RiskTypes
  <2>2. CASE Age \/ \E t \in Tickers : CooldownEnds(t)
    BY <2>2 DEF Age, CooldownEnds, BalanceTypes, RiskTypes, balances, risk
  <2>3. CASE Refresh \/ (cache' = coin' /\ aged' = FALSE /\ cool' = Refreshed(cool))
    BY <1>2, <2>3, RefreshTypes DEF ExchangeTypes
  <2> QED
    BY <2>1, <2>2, <2>3 DEF RefreshTick, Trip, TripClears, Cools, TripTimeout, ApplyGate, SigTerm, PriceFalls, PriceRises,
         Execute, SyncEnded, SyncTimeout, SyncGiveUp, TripCancels, risk
<1>4. RiskTypes'
  BY <1>1, <1>3 DEF RiskTypes
<1>5. ControlTypes'
  <2>1. CASE UNCHANGED control
    BY <2>1, TypesKept
  <2>2. CASE Trip \/ TripClears \/ Cools \/ TripTimeout
    BY <2>2 DEF Trip, TripClears, Cools, TripTimeout, Breaker, ControlTypes
  <2>3. CASE ApplyGate
    BY <2>3 DEF ApplyGate, ControlTypes
  <2>4. CASE SigTerm
    BY <2>4 DEF SigTerm, ControlTypes
  <2>5. CASE \E t \in Tickers : PriceFalls(t) \/ PriceRises(t)
    BY <2>5 DEF PriceFalls, PriceRises, ControlTypes
  <2> QED
    BY <2>1, <2>2, <2>3, <2>4, <2>5 DEF Age, RefreshTick, CooldownEnds, Execute, SyncEnded, SyncTimeout, SyncGiveUp, TripCancels
<1>6. BudgetTypes'
  <2>1. CASE UNCHANGED budget
    BY <2>1, TypesKept
  <2>2. CASE (Trouble \/ Calm) /\ (UNCHANGED <<crashes, turns>> \/ (UNCHANGED crashes /\ Turn))
    BY <2>2, BudgetNext
  <2> QED
    BY <2>1, <2>2 DEF Age, RefreshTick, Refresh, Trip, TripClears, Cools, TripTimeout, ApplyGate, SigTerm, CooldownEnds,
                      PriceFalls, PriceRises, Execute, SyncEnded, SyncTimeout, SyncGiveUp, TripCancels, Calm
<1>7. HistoryTypes' /\ MemoryTypes' /\ FileTypes' /\ TaskTypes' /\ dirty' \in BOOLEAN
  BY <1>1, <1>2, TypesKept DEF HistoryTypes
<1>8. TypeOK'
  BY <1>2, <1>3, <1>4, <1>5, <1>6, <1>7, TypesOKNext
<1>9. DayMeans'
  BY <1>1 DEF BuyInv, DayMeans, task
<1> QED
  BY <1>1, <1>2, <1>8, <1>9, BesideKeeps DEF SafeNext

----------------------------------------------------------------------------
(* What a save writes.                                                      *)

LEMMA CoinOf == \A i \in Trades : Coin(i) \in Tickers /\ i \in Nat \ {0}
BY DEF Coin, Trades

LEMMA SavedMeans ==
  ASSUME MemoryTypes', NewMeans', LiveMeans', file' = Saved(tr', live')
  PROVE  /\ FileTypes' /\ FileMeans'
         /\ \A i \in Trades : file'[Coin(i)].id = i =>
              live'[Coin(i)] = i /\ file'[Coin(i)].st = tr'[i].st /\ file'[Coin(i)].vol = tr'[i].vol
         /\ \A i \in Trades : live'[Coin(i)] = i => file'[Coin(i)].id = i
<1>1. ASSUME NEW t \in Tickers, live'[t] # 0
      PROVE  /\ live'[t] \in Trades /\ live'[t] \in 1..nt' /\ Coin(live'[t]) = t
             /\ tr'[live'[t]].st \in {"pending", "open"} /\ tr'[live'[t]] \in Trade
  <2>1. live'[t] \in 1..nt' /\ Coin(live'[t]) = t /\ tr'[live'[t]].st \in {"pending", "open"}
    BY <1>1 DEF LiveMeans
  <2>2. nt' \in 0..MaxTrades /\ tr' \in [Trades -> Trade]
    BY DEF MemoryTypes
  <2>3. live'[t] \in Trades
    BY <2>1, <2>2 DEF Trades
  <2> QED
    BY <2>1, <2>2, <2>3
<1>2. ASSUME NEW t \in Tickers
      PROVE  /\ live'[t] = 0 => file'[t] = Absent
             /\ live'[t] # 0 =>
                  file'[t] = [id |-> live'[t], st |-> tr'[live'[t]].st, vol |-> tr'[live'[t]].vol,
                              pend |-> tr'[live'[t]].pend]
  BY <1>1 DEF Saved
<1>3. ASSUME NEW t \in Tickers
      PROVE  /\ file'[t] \in Entry
             /\ live'[t] = 0 => file'[t].id = 0
             /\ live'[t] # 0 => /\ file'[t].id = live'[t] /\ file'[t].st = tr'[live'[t]].st
                                /\ file'[t].vol = tr'[live'[t]].vol
  <2>1. CASE live'[t] = 0
    <3>1. Absent \in Entry /\ Absent.id = 0
      BY DEF Absent, Entry, Statuses
    <3> QED
      BY <1>2, <2>1, <3>1, Zenon
  <2>2. CASE live'[t] # 0
    <3> DEFINE x == tr'[live'[t]]
               e == [id |-> live'[t], st |-> x.st, vol |-> x.vol, pend |-> x.pend]
    <3>1. x \in Trade /\ live'[t] \in 0..MaxTrades
      BY <1>1, <2>2 DEF MemoryTypes
    <3>2. file'[t] = e
      BY <1>2, <2>2, Zenon
    <3> HIDE DEF x
    <3>3. e \in Entry /\ e.id = live'[t] /\ e.st = x.st /\ e.vol = x.vol
      BY <3>1 DEF Entry, Trade
    <3> HIDE DEF e
    <3> QED
      BY <2>2, <3>2, <3>3, Zenon DEF x
  <2> QED
    BY <2>1, <2>2
<1>4. FileTypes'
  <2>1. file' = [t \in Tickers |-> file'[t]]
    BY DEF Saved
  <2> QED
    BY <1>3, <2>1 DEF FileTypes
<1>5. FileMeans'
  <2> SUFFICES ASSUME NEW t \in Tickers, file'[t].id # 0
      PROVE  /\ file'[t].id \in 1..nt' /\ Coin(file'[t].id) = t /\ file'[t].st \in {"pending", "open"}
             /\ file'[t].st = "open" => file'[t].vol > 0
    BY DEF FileMeans
  <2>1. live'[t] # 0
    BY <1>3
  <2> QED
    BY <1>1, <1>3, <2>1 DEF NewMeans
<1>6. ASSUME NEW i \in Trades
      PROVE  /\ file'[Coin(i)].id = i =>
                  live'[Coin(i)] = i /\ file'[Coin(i)].st = tr'[i].st /\ file'[Coin(i)].vol = tr'[i].vol
             /\ live'[Coin(i)] = i => file'[Coin(i)].id = i
  <2>1. Coin(i) \in Tickers /\ i # 0
    BY CoinOf
  <2> QED
    BY <1>3, <2>1
<1> QED
  BY <1>4, <1>5, <1>6

\* MemoryTrue while the process is down as well.
MemoryHolds ==
  clean => \A i \in Trades \ cut : Settled(i) =>
    have[i] = IF live[Coin(i)] = i /\ tr[i].st = "open" THEN tr[i].vol ELSE 0

\* A file that says what memory says is as true.
LEMMA SavedTrue ==
  ASSUME MemoryTypes', NewMeans', LiveMeans', file' = Saved(tr', live'), MemoryHolds'
  PROVE  FileTrue'
<1> SUFFICES ASSUME clean', NEW i \in Trades, i \notin cut', Settled(i)'
    PROVE  have'[i] = IF file'[Coin(i)].id = i /\ file'[Coin(i)].st = "open" THEN file'[Coin(i)].vol ELSE 0
  BY DEF FileTrue
<1>1. have'[i] = IF live'[Coin(i)] = i /\ tr'[i].st = "open" THEN tr'[i].vol ELSE 0
  BY DEF MemoryHolds
<1> QED
  BY <1>1, SavedMeans

----------------------------------------------------------------------------
(* Steps of the task that change no trade.                                  *)

\* What a step keeps of the trades and of what was bought.
TradesKept == /\ MemoryTypes' /\ FileTypes' /\ TaskTypes' /\ TradesMean' /\ ListMeans' /\ NotBought'
              /\ RecordInv => RecordInv'

LEMMA KeptTypes ==
  ASSUME BuyInv, TradesKept, ExchangeTypes', IsFiniteSet(ords'), dirty' \in BOOLEAN, BalanceTypes', RiskTypes',
         ControlTypes', HistoryTypes', BudgetTypes', DayMeans'
  PROVE  SafeNext
BY TypesOKNext DEF TradesKept, SafeNext, BuyInv

LEMMA TaskMoves ==
  ASSUME BuyInv, UNCHANGED <<memory, file, have, bought, clean, cut>>, pc \notin Landed, pc' \notin Landed, Up, Up',
         TaskTypes', ListMeans'
  PROVE  TradesKept
<1>1. UNCHANGED <<tr, nt, live, file, have, bought, clean, cut>>
  BY DEF memory
<1>2. \A i \in Trades : Settled(i) /\ Settled(i)'
  BY DEF Settled
<1>3. MemoryTypes' /\ FileTypes'
  BY InvTypes, TypesKept
<1>4. TradesMean'
  BY <1>1 DEF BuyInv, TradesMean, NewMeans, LiveMeans, FileMeans
<1>5. NotBought'
  BY <1>1, <1>2 DEF BuyInv, NotBought
<1>6. ASSUME RecordInv PROVE RecordInv'
  <2>1. OrdersMean'
    BY DEF OrdersMean, Landed
  <2>2. MemoryTrue' /\ FileTrue'
    BY <1>1, <1>2, <1>6 DEF RecordInv, MemoryTrue, FileTrue
  <2> QED
    BY <2>1, <2>2 DEF RecordInv
<1> QED
  BY <1>3, <1>4, <1>5, <1>6 DEF TradesKept

LEMMA OnwardMoves ==
  ASSUME TaskTypes, NEW i \in Trades, Onward(i)
  PROVE  TaskTypes' /\ pc' = "next" /\ h'.left = h.left \ {i}
<1>1. h \in Jobs
  BY DEF TaskTypes
<1>2. h'.left = h.left \ {i} /\ h' \in Jobs
  <2>1. PICK l : l = h.left \ {i}
    OBVIOUS
  <2>2. l \in SUBSET Trades /\ 0 \in 0..MaxTrades /\ 0 \in 0..Size
    BY <1>1, <2>1 DEF Jobs
  <2>3. h' = [h EXCEPT !.left = l, !.id = 0, !.want = 0, !.qty = 0]
    BY <2>1 DEF Onward
  <2> QED
    BY <1>1, <2>1, <2>2, <2>3 DEF Jobs
<1>3. pc' = "next"
  BY DEF Onward
<1> QED
  BY <1>2, <1>3 DEF TaskTypes, Waiting, Landed

LEMMA AtMoves ==
  ASSUME TaskTypes, NEW i \in Trades, NEW p \in Waiting, NEW want \in 0..Size, NEW qty \in 0..Size, At(p, i, want, qty)
  PROVE  TaskTypes' /\ pc' = p /\ h'.left = h.left /\ h'.id = i /\ h'.want = want /\ h'.qty = qty
<1>1. h \in Jobs
  BY DEF TaskTypes
<1>2. i \in 0..MaxTrades /\ i # 0
  BY DEF Trades
<1>3. h' \in Jobs /\ h'.left = h.left /\ h'.id = i /\ h'.want = want /\ h'.qty = qty
  BY <1>1, <1>2 DEF At, Jobs
<1>4. pc' = p
  BY DEF At
<1> QED
  BY <1>2, <1>3, <1>4 DEF TaskTypes

\* The task goes on to the next trade.
LEMMA OnwardKeeps ==
  ASSUME BuyInv, UNCHANGED <<memory, file, have, bought, clean, cut>>, pc \notin Landed, Up, NEW i \in Trades, Onward(i)
  PROVE  TradesKept
<1>1. TaskTypes' /\ pc' = "next" /\ h'.left = h.left \ {i}
  BY OnwardMoves, InvTypes
<1>2. ListMeans'
  BY <1>1 DEF memory, BuyInv, ListMeans, Over, Waiting, Landed, Buying, Selling
<1>3. Up' /\ pc' \notin Landed
  BY <1>1 DEF Up, Landed
<1> QED
  BY <1>1, <1>2, <1>3, TaskMoves

\* The task waits for an order of the trade it looks at, or before it.
LEMMA AtKeeps ==
  ASSUME BuyInv, UNCHANGED <<memory, file, have, bought, clean, cut>>, pc \notin Landed, Up, NEW i \in h.left,
         NEW p \in Waiting \ Landed, NEW want \in 0..Size, NEW qty \in 0..Size, At(p, i, want, qty),
         p \in Buying => tr[i].st = "pending",
         p \in Selling => tr[i].st = "open" /\ want \in 1..tr[i].vol,
         p = "sellSend" => qty \in 1..want
  PROVE  TradesKept
<1>1. i \in Trades
  BY InvTypes DEF TaskTypes, Jobs
<1>2. TaskTypes' /\ pc' = p /\ h'.left = h.left /\ h'.id = i /\ h'.want = want /\ h'.qty = qty
  BY <1>1, AtMoves, InvTypes
<1>3. UNCHANGED <<tr, nt, live>>
  BY DEF memory
<1>4. Up' /\ pc' \notin Landed
  BY <1>2 DEF Up, Landed, Waiting
<1>5. ListMeans'
  <2>1. pc' \notin {"off", "idle", "sellLanded", "sellTold", "buyLanded"}
    BY <1>2 DEF Waiting, Landed
  <2>2. (\A i1, j \in h'.left : Coin(i1) = Coin(j) => i1 = j) /\ h'.id \in h'.left
    BY <1>2 DEF BuyInv, ListMeans
  <2>3. \A j \in h'.left :
       \/ tr'[j].st \in {"pending", "open"} /\ live'[Coin(j)] = j
       \/ Over(j)' /\ (live'[Coin(j)] # 0 => tr'[live'[Coin(j)]].st = "pending")
    BY <1>2, <1>3 DEF BuyInv, ListMeans, Over
  <2>4. /\ pc' \in Buying => tr'[h'.id].st = "pending"
        /\ pc' \in Selling => tr'[h'.id].st = "open" /\ h'.want \in 1..tr'[h'.id].vol
        /\ pc' = "sellSend" => h'.qty \in 1..h'.want
    BY <1>2, <1>3
  <2> QED
    BY <2>1, <2>2, <2>3, <2>4 DEF ListMeans
<1> QED
  BY <1>2, <1>4, <1>5, TaskMoves

----------------------------------------------------------------------------
(* The list of the task.                                                    *)

\* The day, while the counter stays and nothing is bought or sent.
LEMMA DayStays ==
  ASSUME BuyInv, UNCHANGED <<buys, newday, today, late, clean>>, pc # "buyLanded", pc' # "buySend"
  PROVE  DayMeans'
BY InvTypes DEF BuyInv, DayMeans, RiskTypes, HistoryTypes

LEMMA ListSteps ==
  ASSUME BuyInv, OnTick \/ DriveEnd
  PROVE  SafeNext
<1>1. /\ UNCHANGED <<exchange, memory, file, dirty, balances, risk, control, history, budget>>
      /\ pc \in {"idle", "next"} /\ pc' \in {"idle", "next"} /\ Up /\ Up'
  BY DEF OnTick, DriveEnd, Up
<1>2. h' \in Jobs
  <2>1. NoJob \in Jobs
    BY DEF NoJob, Jobs
  <2>2. CASE OnTick
    <3>1. {live[t] : t \in Tickers} \ {0} \subseteq Trades
      BY InvTypes DEF MemoryTypes, Trades
    <3>2. (brk # "cooling") \in BOOLEAN
      OBVIOUS
    <3> QED
      BY <2>1, <2>2, <3>1, <3>2 DEF OnTick, Jobs
  <2> QED
    BY <2>1, <2>2 DEF DriveEnd
<1>3. TaskTypes' /\ pc \notin Landed /\ pc' \notin Landed /\ pc' \notin Waiting
  BY <1>1, <1>2 DEF TaskTypes, Waiting, Landed
<1>4. ListMeans'
  <2>1. CASE OnTick
    <3>1. h'.left = {live[t] : t \in Tickers} \ {0}
      <4>1. NoJob \in Jobs
        BY DEF NoJob, Jobs
      <4> QED
        BY <2>1, <4>1 DEF OnTick, Jobs
    <3>2. \A i \in h'.left : \E t \in Tickers : i = live[t] /\ Coin(i) = t /\ tr[i].st \in {"pending", "open"}
      BY <3>1 DEF BuyInv, TradesMean, LiveMeans
    <3>3. UNCHANGED <<tr, live>>
      BY <1>1 DEF memory
    <3>4. pc' = "next"
      BY <2>1 DEF OnTick
    <3> QED
      BY <1>3, <3>2, <3>3, <3>4 DEF ListMeans, Buying, Selling
  <2>2. CASE DriveEnd
    BY <1>3, <2>2 DEF DriveEnd, NoJob, ListMeans, Buying, Selling
  <2> QED
    BY <2>1, <2>2
<1>5. TradesKept
  BY <1>1, <1>3, <1>4, TaskMoves DEF history
<1>6. DayMeans'
  BY <1>1, DayStays DEF risk, history
<1> QED
  BY <1>1, <1>5, <1>6, KeptTypes, InvTypes, TypesKept DEF exchange

----------------------------------------------------------------------------
(* Exits, up to the order.                                                  *)

LEMMA DayRolled ==
  ASSUME BuyInv, RollDay, UNCHANGED <<today, late, clean>>, pc # "buyLanded", pc' # "buyLanded",
         pc' = "buySend" => BuysNow < MaxBuys
  PROVE  DayMeans' /\ buys' \in Nat /\ newday' = FALSE /\ halted' \in BOOLEAN
<1>1. buys' \in Nat /\ buys' = BuysNow /\ newday' = FALSE
  BY InvTypes DEF RollDay, BuysNow, RiskTypes
<1>2. halted' \in BOOLEAN
  BY DEF RollDay, HaltNow
<1>3. clean /\ ~late => today <= MaxBuys /\ today <= BuysNow
  BY InvTypes DEF BuyInv, DayMeans, BuysNow, RiskTypes, HistoryTypes
<1> QED
  BY <1>1, <1>2, <1>3 DEF DayMeans

LEMMA VolumeOf == ASSUME BuyInv, NEW i \in h.left, tr[i].st = "open" PROVE i \in Trades /\ tr[i].vol \in 1..Size
<1>1. i \in Trades
  BY InvTypes DEF TaskTypes, Jobs
<1>2. tr[i] \in Trade /\ tr[i].vol > 0
  BY <1>1, InvTypes DEF MemoryTypes, BuyInv, TradesMean, NewMeans
<1> QED
  BY <1>1, <1>2 DEF Trade

\* What an exit may change before its order is sent.
ExitMoves == TradesKept /\ DayMeans' /\ buys' \in Nat /\ newday' \in BOOLEAN /\ halted' \in BOOLEAN

LEMMA SellSizes ==
  ASSUME BuyInv, UNCHANGED <<memory, file, history>>, pc \notin Landed, Up, NEW i \in h.left,
         tr[i].st = "open", NEW want \in 1..tr[i].vol, NEW c \in [Tickers -> Nat], SellSized(i, want, c)
  PROVE  ExitMoves
<1>1. i \in Trades /\ tr[i].vol \in 1..Size /\ want \in 0..Size /\ want \in Nat /\ want > 0
  BY VolumeOf
<1>2. c[Coin(i)] \in Nat
  BY <1>1, CoinOf
<1>3. RollDay /\ UNCHANGED <<have, bought, today, late, clean, cut>> /\ pc # "buyLanded"
  BY DEF SellSized, history, Landed
<1>4. CASE c[Coin(i)] > 0 /\ Coin(i) \notin thin
  <2> DEFINE q == Lower(want, c[Coin(i)])
  <2>1. q \in 1..want /\ q \in 0..Size
    <3>1. c[Coin(i)] \in Nat /\ c[Coin(i)] > 0 /\ want \in Nat /\ want > 0
      BY <1>1, <1>2, <1>4
    <3>2. q \in 1..want
      BY <3>1 DEF Lower
    <3> QED
      BY <1>1, <3>2
  <2>2. At("sellSend", i, want, q)
    BY <1>4 DEF SellSized
  <2> HIDE DEF q
  <2>3. "sellSend" \in Waiting \ Landed /\ "sellSend" \notin Buying
    BY DEF Waiting, Landed, Buying
  <2>4. TradesKept
    BY <1>1, <1>3, <2>1, <2>2, <2>3, AtKeeps
  <2>5. pc' = "sellSend"
    BY <2>2 DEF At
  <2> QED
    BY <1>3, <2>4, <2>5, DayRolled DEF ExitMoves
<1>5. CASE ~(c[Coin(i)] > 0 /\ Coin(i) \notin thin)
  <2>1. Onward(i)
    BY <1>5 DEF SellSized
  <2>2. TradesKept /\ pc' = "next"
    BY <1>1, <1>3, <2>1, OnwardKeeps DEF Onward
  <2> QED
    BY <1>3, <2>2, DayRolled DEF ExitMoves
<1> QED
  BY <1>4, <1>5

LEMMA SellWaits ==
  ASSUME BuyInv, UNCHANGED <<memory, file, history, buys, halted, newday>>, pc \notin Landed, Up, NEW i \in h.left,
         tr[i].st = "open", NEW want \in 1..tr[i].vol, NEW p \in {"sellBal", "sellFresh"}, At(p, i, want, 0)
  PROVE  ExitMoves
<1>1. want \in 0..Size /\ 0 \in 0..Size
  BY VolumeOf
<1>2. UNCHANGED <<have, bought, today, late, clean, cut>> /\ pc # "buyLanded" /\ pc' # "buySend"
  BY DEF history, Landed, At
<1>3. p \in Waiting \ Landed /\ p \notin Buying /\ p # "sellSend"
  BY DEF Waiting, Landed, Buying
<1>4. TradesKept
  BY <1>1, <1>2, <1>3, AtKeeps
<1> QED
  BY <1>2, <1>4, DayStays, InvTypes DEF ExitMoves, RiskTypes

LEMMA SellChecks ==
  ASSUME BuyInv, UNCHANGED <<memory, file, history>>, pc \notin Landed, Up, NEW i \in h.left,
         tr[i].st = "open", NEW want \in 1..tr[i].vol, NEW c \in [Tickers -> Nat], SellChecked(i, want, c)
  PROVE  ExitMoves
<1>1. CASE c[Coin(i)] > 0
  BY <1>1, SellSizes DEF SellChecked
<1>2. CASE ~(c[Coin(i)] > 0)
  BY <1>2, SellWaits DEF SellChecked
<1> QED
  BY <1>1, <1>2

LEMMA ExitSteps ==
  ASSUME BuyInv, SellBal \/ SellFresh \/ \E i \in Trades : DriveExit(i)
  PROVE  SafeNext
<1>1. UNCHANGED <<exchange, memory, file, dirty, control, history, crashes, turns>> /\ Up /\ pc \notin Landed
  BY DEF SellBal, SellFresh, DriveExit, Up, Landed, budget
<1>2. BalanceTypes' /\ cool' \in [Tickers -> {"no", "hot", "warm"}] /\ cache' \in [Tickers -> Nat] /\ BudgetTypes'
  <2>1. CASE SellBal \/ SellFresh
    <3>1. Refresh /\ UNCHANGED coin /\ UNCHANGED <<crashes, turns>>
      BY <1>1, <2>1 DEF SellBal, SellFresh, exchange
    <3>2. BalanceTypes' /\ cool' \in [Tickers -> {"no", "hot", "warm"}]
      BY <3>1, RefreshTypes, InvTypes DEF ExchangeTypes
    <3>3. BudgetTypes'
      BY <3>1, BudgetNext, InvTypes DEF Refresh
    <3> QED
      BY <3>2, <3>3 DEF BalanceTypes
  <2>2. CASE \E i \in Trades : DriveExit(i)
    <3>1. UNCHANGED balances /\ cool' = cool /\ UNCHANGED budget
      BY <2>2 DEF DriveExit
    <3>2. BalanceTypes' /\ BudgetTypes'
      BY <3>1, InvTypes, TypesKept
    <3> QED
      BY <3>1, <3>2, InvTypes DEF BalanceTypes, RiskTypes
  <2> QED
    BY <2>1, <2>2
<1>3. ExitMoves
  <2>1. CASE SellBal \/ SellFresh
    <3>1. h.id \in h.left /\ tr[h.id].st = "open" /\ h.want \in 1..tr[h.id].vol
      BY <2>1 DEF SellBal, SellFresh, BuyInv, ListMeans, Waiting, Selling
    <3>2. CASE SellBal
      BY <1>1, <1>2, <3>1, <3>2, SellChecks DEF SellBal
    <3>3. CASE SellFresh
      BY <1>1, <1>2, <3>1, <3>3, SellSizes DEF SellFresh
    <3> QED
      BY <2>1, <3>2, <3>3
  <2>2. ASSUME NEW i \in Trades, DriveExit(i) PROVE ExitMoves
    <3>1. i \in h.left /\ tr[i].st = "open"
      BY <2>2 DEF DriveExit
    <3>2. PICK want \in {1, tr[i].vol} :
            IF aged THEN At("sellBal", i, want, 0) /\ UNCHANGED <<buys, halted, newday>> ELSE SellChecked(i, want, cache)
      BY <2>2 DEF DriveExit
    <3>3. want \in 1..tr[i].vol /\ cache \in [Tickers -> Nat]
      BY <3>1, VolumeOf, InvTypes DEF BalanceTypes
    <3>4. CASE aged
      BY <1>1, <3>1, <3>2, <3>3, <3>4, SellWaits
    <3>5. CASE ~aged
      BY <1>1, <3>1, <3>2, <3>3, <3>5, SellChecks
    <3> QED
      BY <3>4, <3>5
  <2> QED
    BY <2>1, <2>2
<1>4. RiskTypes'
  BY <1>2, <1>3 DEF ExitMoves, RiskTypes
<1> QED
  BY <1>1, <1>2, <1>3, <1>4, KeptTypes, InvTypes, TypesKept DEF exchange, ExitMoves

\* Steps of the task that leave all but its place alone.
LEMMA PlaceSteps ==
  ASSUME BuyInv, BuyRefused \/ SellRefused \/ SellFailed \/ \E i \in Trades : DriveSkip(i)
  PROVE  SafeNext
<1>1. /\ UNCHANGED <<exchange, memory, file, dirty, balances, risk, control, history, crashes, turns>>
      /\ Up /\ pc \notin Landed /\ (Trouble \/ Calm)
  BY DEF BuyRefused, SellRefused, SellFailed, DriveSkip, Up, Landed, budget, Calm
<1>2. UNCHANGED <<have, bought, clean, today, late, buys, newday, cut>>
  BY <1>1 DEF history, risk
<1>3. TradesKept /\ pc' # "buySend"
  <2>1. ASSUME NEW i \in Trades, DriveSkip(i) PROVE TradesKept /\ pc' # "buySend"
    <3>1. Onward(i)
      BY <2>1 DEF DriveSkip
    <3> QED
      BY <1>1, <1>2, <3>1, OnwardKeeps DEF Onward
  <2>2. CASE SellFailed
    <3>1. Onward(h.id) /\ h.id \in Trades
      BY <2>2, InvTypes DEF SellFailed, TaskTypes, Jobs, Waiting, Trades
    <3> QED
      BY <1>1, <1>2, <3>1, OnwardKeeps DEF Onward
  <2>3. CASE BuyRefused \/ SellRefused
    <3>1. UNCHANGED <<h, tr, live, nt>>
      BY <1>1, <2>3 DEF BuyRefused, SellRefused, memory
    <3>2. pc' \notin Landed /\ pc' \in Waiting /\ pc \in Waiting /\ pc' \in {"buyFailed", "sellFailed"}
      BY <2>3 DEF BuyRefused, SellRefused, Landed, Waiting
    <3>3. ListMeans'
      BY <2>3, <3>1 DEF BuyInv, ListMeans, Over, Waiting, Landed, Buying, Selling, BuyRefused, SellRefused
    <3>4. TaskTypes' /\ Up'
      BY <3>1, <3>2, InvTypes DEF TaskTypes, Up, Waiting
    <3> QED
      BY <1>1, <1>2, <3>2, <3>3, <3>4, TaskMoves
  <2> QED
    BY <2>1, <2>2, <2>3
<1>4. DayMeans'
  BY <1>1, <1>2, <1>3, DayStays DEF Landed
<1>5. BudgetTypes'
  BY <1>1, BudgetNext, InvTypes
<1> QED
  BY <1>1, <1>3, <1>4, <1>5, KeptTypes, InvTypes, TypesKept DEF exchange

----------------------------------------------------------------------------
(* A trade that is given up.                                                *)

LEMMA StatusTypes ==
  ASSUME tr \in [Trades -> Trade], NEW i \in Trades, NEW x \in Statuses, tr' = [tr EXCEPT ![i].st = x]
  PROVE  /\ tr' \in [Trades -> Trade] /\ tr'[i].st = x /\ tr'[i].vol = tr[i].vol
         /\ \A j \in Trades \ {i} : tr'[j] = tr[j]
<1>1. PICK r : r = tr[i] /\ r \in Trade
  OBVIOUS
<1>2. PICK s : s = [r EXCEPT !.st = x]
  OBVIOUS
<1>3. s \in Trade /\ s.st = x /\ s.vol = r.vol
  BY <1>1, <1>2 DEF Trade
<1>4. tr' = [tr EXCEPT ![i] = s]
  BY <1>1, <1>2
<1>5. tr' \in [Trades -> Trade] /\ tr'[i] = s /\ \A j \in Trades \ {i} : tr'[j] = tr[j]
  BY <1>3, <1>4
<1> QED
  BY <1>1, <1>3, <1>5

\* The task marks its trade, drops it when it is done, and saves.
LEMMA MarkedKeeps ==
  ASSUME BuyInv, NEW i \in Trades, i \in h.left, live[Coin(i)] = i, pc \in Landed => h.id = i, Up,
         UNCHANGED <<nt, have, bought, clean>>, cut \subseteq cut', cut' \subseteq cut \cup {i}, Onward(i),
         tr' \in [Trades -> Trade], \A j \in Trades \ {i} : tr'[j] = tr[j],
         file' = Saved(tr', live'),
         \/ tr'[i].st = "open" /\ tr'[i].vol > 0 /\ live' = live
         \/ tr'[i].st \in {"closed", "cancelled"} /\ live' = [live EXCEPT ![Coin(i)] = 0],
         RecordInv /\ clean /\ i \notin cut' => have[i] = IF tr'[i].st = "open" THEN tr'[i].vol ELSE 0
  PROVE  TradesKept /\ pc' = "next"
<1>1. Coin(i) \in Tickers /\ i # 0 /\ live \in [Tickers -> 0..MaxTrades]
  BY CoinOf, InvTypes DEF MemoryTypes
<1>2. TaskTypes' /\ pc' = "next" /\ h'.left = h.left \ {i}
  BY <1>1, OnwardMoves, InvTypes
<1>3. MemoryTypes'
  <2>1. live' = live \/ live' = [live EXCEPT ![Coin(i)] = 0]
    OBVIOUS
  <2>2. 0 \in 0..MaxTrades
    OBVIOUS
  <2>3. live' \in [Tickers -> 0..MaxTrades]
    BY <1>1, <2>1, <2>2, Zenon
  <2> QED
    BY <2>3, InvTypes DEF MemoryTypes
<1>4. /\ live'[Coin(i)] = IF tr'[i].st = "open" THEN i ELSE 0
      /\ \A t \in Tickers \ {Coin(i)} : live'[t] = live[t]
  BY <1>1
<1>5. /\ tr'[i].st \in {"open", "closed", "cancelled"}
      /\ tr'[i].st = "open" => tr'[i].vol > 0
  OBVIOUS
<1>6. \A t \in Tickers : live[t] # 0 => live[t] \in 1..nt /\ live[t] \in Trades /\ Coin(live[t]) = t
  BY InvTypes DEF BuyInv, TradesMean, LiveMeans, MemoryTypes, Trades
<1>7. \A j \in Trades : /\ Settled(j)'
                        /\ j # i => Settled(j)
  BY <1>2 DEF Settled, Landed
<1>8. NewMeans' /\ LiveMeans'
  <2>1. i <= nt
    BY <1>1, <1>6, InvTypes DEF MemoryTypes
  <2>2. NewMeans'
    <3> SUFFICES ASSUME NEW j \in Trades
        PROVE  /\ j > nt => tr'[j].st = "none" /\ bought[j] = 0 /\ (clean => have[j] = 0)
               /\ tr'[j].st = "open" => tr'[j].vol > 0
      BY DEF NewMeans
    <3>1. CASE j = i
      BY <1>5, <2>1, <3>1, InvTypes DEF MemoryTypes, Trades
    <3>2. CASE j # i
      BY <3>2 DEF BuyInv, TradesMean, NewMeans
    <3> QED
      BY <3>1, <3>2
  <2>3. LiveMeans'
    <3> SUFFICES ASSUME NEW t \in Tickers, live'[t] # 0
        PROVE  live'[t] \in 1..nt /\ Coin(live'[t]) = t /\ tr'[live'[t]].st \in {"pending", "open"}
      BY DEF LiveMeans
    <3>1. CASE t = Coin(i)
      BY <1>1, <1>4, <1>6, <3>1
    <3>2. CASE t # Coin(i)
      BY <1>4, <1>6, <3>2 DEF BuyInv, TradesMean, LiveMeans
    <3> QED
      BY <3>1, <3>2
  <2> QED
    BY <2>2, <2>3
<1>9. FileTypes' /\ FileMeans' /\ TradesMean'
  BY <1>3, <1>8, SavedMeans DEF TradesMean
<1>10. ListMeans'
  <2>1. \A j \in h'.left : j \in h.left /\ j # i /\ j \in Trades /\ Coin(j) # Coin(i) /\ Coin(j) \in Tickers
    BY <1>2, CoinOf, InvTypes DEF BuyInv, ListMeans, TaskTypes, Jobs
  <2>2. \A j \in h'.left : tr'[j] = tr[j] /\ live'[Coin(j)] = live[Coin(j)]
          /\ (live[Coin(j)] # 0 => tr'[live[Coin(j)]] = tr[live[Coin(j)]])
    BY <1>4, <1>6, <2>1
  <2> QED
    BY <1>2, <2>1, <2>2 DEF BuyInv, ListMeans, Over, Waiting, Landed, Buying, Selling
<1>11. NotBought'
  <2>1. \A j \in Trades : tr'[j].st = "pending" => j # i /\ tr[j].st = "pending"
    BY <1>5
  <2>2. \A j \in Trades : file'[Coin(j)].id = j /\ file'[Coin(j)].st = "pending" => tr'[j].st = "pending"
    BY <1>3, <1>8, SavedMeans
  <2> QED
    BY <1>7, <2>1, <2>2 DEF BuyInv, NotBought
<1>12. ASSUME RecordInv PROVE RecordInv'
  <2>1. MemoryHolds'
    <3>1. ASSUME clean, NEW j \in Trades, j \notin cut'
          PROVE  have[j] = IF live'[Coin(j)] = j /\ tr'[j].st = "open" THEN tr'[j].vol ELSE 0
      <4>1. j # 0 /\ Coin(j) \in Tickers
        BY CoinOf
      <4>2. CASE j = i
        BY <1>4, <1>12, <3>1, <4>2
      <4>3. CASE j # i
        <5>1. have[j] = IF live[Coin(j)] = j /\ tr[j].st = "open" THEN tr[j].vol ELSE 0
          <6>1. Settled(j) /\ MemoryTrue
            BY <1>7, <1>12, <3>1, <4>3 DEF RecordInv
          <6> QED
            BY <3>1, <6>1 DEF MemoryTrue
        <5>2. live'[Coin(j)] = j <=> live[Coin(j)] = j
          BY <1>1, <1>4, <4>1, <4>3
        <5> QED
          BY <4>3, <5>1, <5>2
      <4> QED
        BY <4>2, <4>3
    <3> QED
      BY <3>1 DEF MemoryHolds
  <2>2. MemoryTrue' /\ FileTrue'
    BY <1>3, <1>8, <2>1, SavedTrue DEF MemoryHolds, MemoryTrue
  <2>3. OrdersMean'
    BY <1>2 DEF OrdersMean
  <2> QED
    BY <2>2, <2>3 DEF RecordInv
<1> QED
  BY <1>2, <1>3, <1>9, <1>10, <1>11, <1>12 DEF TradesKept

LEMMA RetiredKeeps ==
  ASSUME BuyInv, NEW i \in h.left, tr[i].st = "pending", Retired(i), pc \notin Landed, Up,
         UNCHANGED <<nt, have, bought, clean, cut>>
  PROVE  TradesKept /\ pc' = "next"
<1>1. i \in Trades /\ live[Coin(i)] = i
  BY InvTypes DEF BuyInv, ListMeans, TaskTypes, Jobs, Over
<1>2. /\ tr' = [tr EXCEPT ![i].st = "cancelled"] /\ live' = [live EXCEPT ![Coin(i)] = 0]
      /\ file' = Saved(tr', live') /\ Onward(i)
  BY DEF Retired, Dropped
<1>3. tr' \in [Trades -> Trade] /\ tr'[i].st = "cancelled" /\ \A j \in Trades \ {i} : tr'[j] = tr[j]
  BY <1>1, <1>2, StatusTypes, InvTypes DEF MemoryTypes, Statuses
<1>4. RecordInv /\ clean /\ i \notin cut' => have[i] = IF tr'[i].st = "open" THEN tr'[i].vol ELSE 0
  BY <1>1, <1>3 DEF RecordInv, MemoryTrue, Settled
<1> QED
  BY <1>1, <1>2, <1>3, <1>4, MarkedKeeps

LEMMA BuyChecks ==
  ASSUME BuyInv, NEW i \in h.left, tr[i].st = "pending", pc \notin Landed, Up, UNCHANGED history,
         NEW c, BuyChecked(i, c)
  PROVE  ExitMoves
<1>1. RollDay /\ pc # "buyLanded" /\ UNCHANGED <<have, bought, clean, today, late, cut>>
  BY DEF BuyChecked, history, Landed
<1>2. CASE MayBuy(i, c) /\ At("buySend", i, 0, 0) /\ UNCHANGED <<memory, file>>
  <2>1. "buySend" \in Waiting \ Landed /\ "buySend" \notin Selling /\ 0 \in 0..Size
    BY DEF Waiting, Landed, Selling
  <2>2. TradesKept
    BY <1>1, <1>2, <2>1, AtKeeps
  <2>3. BuysNow < MaxBuys /\ pc' = "buySend"
    BY <1>2 DEF MayBuy, At
  <2> QED
    BY <1>1, <2>2, <2>3, DayRolled DEF ExitMoves
<1>3. CASE Retired(i) /\ UNCHANGED nt
  <2>1. TradesKept /\ pc' = "next"
    BY <1>1, <1>3, RetiredKeeps
  <2> QED
    BY <1>1, <2>1, DayRolled DEF ExitMoves
<1> QED
  BY <1>2, <1>3 DEF BuyChecked

LEMMA EntrySteps ==
  ASSUME BuyInv, BuyBal \/ BuyFailed \/ \E i \in Trades : DriveCancel(i) \/ DriveEnter(i)
  PROVE  SafeNext
<1>1. UNCHANGED <<exchange, dirty, control, history, crashes, turns>> /\ Up /\ pc \notin Landed
  BY DEF BuyBal, BuyFailed, DriveCancel, DriveEnter, Up, Landed, budget
<1>2. UNCHANGED <<have, bought, clean, today, late, cut>>
  BY <1>1 DEF history
<1>3. BalanceTypes' /\ cool' \in [Tickers -> {"no", "hot", "warm"}] /\ BudgetTypes'
  <2>1. CASE BuyBal
    <3>1. Refresh /\ UNCHANGED coin /\ UNCHANGED <<crashes, turns>>
      BY <1>1, <2>1 DEF BuyBal, exchange
    <3>2. BalanceTypes' /\ cool' \in [Tickers -> {"no", "hot", "warm"}]
      BY <3>1, RefreshTypes, InvTypes DEF ExchangeTypes
    <3>3. BudgetTypes'
      BY <3>1, BudgetNext, InvTypes DEF Refresh
    <3> QED
      BY <3>2, <3>3
  <2>2. CASE BuyFailed \/ \E i \in Trades : DriveCancel(i) \/ DriveEnter(i)
    <3>1. UNCHANGED balances /\ cool' = cool /\ UNCHANGED budget
      BY <2>2 DEF BuyFailed, DriveCancel, DriveEnter, risk
    <3>2. BalanceTypes' /\ BudgetTypes'
      BY <3>1, InvTypes, TypesKept
    <3> QED
      BY <3>1, <3>2, InvTypes DEF RiskTypes
  <2> QED
    BY <2>1, <2>2
<1>4. ASSUME NEW i \in h.left, tr[i].st = "pending", Retired(i), UNCHANGED <<nt, buys, halted, newday>> PROVE ExitMoves
  <2>1. TradesKept /\ pc' = "next"
    BY <1>1, <1>2, <1>4, RetiredKeeps
  <2>2. DayMeans'
    BY <1>1, <1>2, <1>4, <2>1, DayStays DEF Landed
  <2> QED
    BY <1>4, <2>1, <2>2, InvTypes DEF ExitMoves, RiskTypes
<1>5. ExitMoves
  <2>1. CASE BuyBal \/ BuyFailed
    <3>1. h.id \in h.left /\ tr[h.id].st = "pending"
      BY <2>1 DEF BuyBal, BuyFailed, BuyInv, ListMeans, Waiting, Buying
    <3>2. CASE BuyBal
      BY <1>1, <3>1, <3>2, BuyChecks DEF BuyBal
    <3>3. CASE BuyFailed
      BY <1>4, <3>1, <3>3 DEF BuyFailed, risk
    <3> QED
      BY <2>1, <3>2, <3>3
  <2>2. ASSUME NEW i \in Trades, DriveCancel(i) PROVE ExitMoves
    BY <1>4, <2>2 DEF DriveCancel, risk
  <2>3. ASSUME NEW i \in Trades, DriveEnter(i) PROVE ExitMoves
    <3>1. i \in h.left /\ tr[i].st = "pending"
      BY <2>3 DEF DriveEnter
    <3>2. CASE aged
      <4>1. At("buyBal", i, 0, 0) /\ UNCHANGED <<memory, file, buys, halted, newday>>
        BY <2>3, <3>2 DEF DriveEnter
      <4>2. "buyBal" \in Waiting \ Landed /\ "buyBal" \notin Selling /\ 0 \in 0..Size
        BY DEF Waiting, Landed, Selling
      <4>3. TradesKept /\ pc' = "buyBal"
        BY <1>1, <1>2, <3>1, <4>1, <4>2, AtKeeps DEF At
      <4>4. DayMeans'
        BY <1>1, <1>2, <4>1, <4>3, DayStays DEF Landed
      <4> QED
        BY <4>1, <4>3, <4>4, InvTypes DEF ExitMoves, RiskTypes
    <3>3. CASE ~aged
      BY <1>1, <2>3, <3>1, <3>3, BuyChecks DEF DriveEnter
    <3> QED
      BY <3>2, <3>3
  <2> QED
    BY <2>1, <2>2, <2>3
<1>6. RiskTypes'
  BY <1>3, <1>5 DEF ExitMoves, RiskTypes
<1> QED
  BY <1>1, <1>3, <1>5, <1>6, KeptTypes, InvTypes, TypesKept DEF exchange, ExitMoves

\* A trade of the list that a scan has finished: what is live instead is not bought.
LEMMA PopSteps ==
  ASSUME BuyInv, NEW i \in Trades, DrivePop(i)
  PROVE  SafeNext
<1>1. /\ UNCHANGED <<exchange, tr, nt, file, dirty, balances, risk, control, history, budget>>
      /\ pc = "next" /\ i \in h.left /\ Over(i) /\ Onward(i) /\ live' = [live EXCEPT ![Coin(i)] = 0]
  BY DEF DrivePop
<1>2. TaskTypes' /\ pc' = "next" /\ h'.left = h.left \ {i}
  BY <1>1, OnwardMoves, InvTypes
<1>3. Coin(i) \in Tickers /\ live \in [Tickers -> 0..MaxTrades]
  BY CoinOf, InvTypes DEF MemoryTypes
<1>4. live'[Coin(i)] = 0 /\ \A t \in Tickers \ {Coin(i)} : live'[t] = live[t]
  BY <1>1, <1>3
<1>5. MemoryTypes' /\ FileTypes'
  BY <1>1, <1>3, InvTypes DEF MemoryTypes, FileTypes
<1>6. \A j \in Trades : Settled(j) /\ Settled(j)'
  BY <1>1, <1>2 DEF Settled, Landed
<1>7. TradesMean'
  <2>1. NewMeans' /\ FileMeans'
    BY <1>1 DEF history, BuyInv, TradesMean, NewMeans, FileMeans
  <2>2. LiveMeans'
    BY <1>1, <1>4 DEF BuyInv, TradesMean, LiveMeans
  <2> QED
    BY <2>1, <2>2 DEF TradesMean
<1>8. ListMeans'
  <2>1. \A j \in h'.left : j \in h.left /\ j # i /\ Coin(j) # Coin(i) /\ Coin(j) \in Tickers
    BY <1>1, <1>2, CoinOf, InvTypes DEF BuyInv, ListMeans, TaskTypes, Jobs
  <2>2. \A j \in h'.left : tr'[j] = tr[j] /\ live'[Coin(j)] = live[Coin(j)]
    BY <1>1, <1>4, <2>1
  <2> QED
    BY <1>1, <1>2, <2>1, <2>2 DEF BuyInv, ListMeans, Over, Waiting, Landed, Buying, Selling
<1>9. NotBought'
  BY <1>1, <1>6 DEF history, BuyInv, NotBought
<1>10. ASSUME RecordInv PROVE RecordInv'
  <2>1. ASSUME clean, NEW j \in Trades, j \notin cut
        PROVE  have[j] = IF live'[Coin(j)] = j /\ tr[j].st = "open" THEN tr[j].vol ELSE 0
    <3>1. have[j] = IF live[Coin(j)] = j /\ tr[j].st = "open" THEN tr[j].vol ELSE 0
      BY <1>1, <1>6, <1>10, <2>1 DEF RecordInv, MemoryTrue, Up
    <3>2. j # 0 /\ Coin(j) \in Tickers
      BY CoinOf
    <3>3. CASE Coin(j) # Coin(i)
      BY <1>4, <3>1, <3>2, <3>3
    <3>4. CASE Coin(j) = Coin(i) /\ live[Coin(j)] = j
      <4>1. tr[j].st = "pending"
        BY <1>1, <3>2, <3>4 DEF BuyInv, ListMeans, Over
      <4> QED
        BY <3>1, <4>1
    <3>5. CASE Coin(j) = Coin(i) /\ live[Coin(j)] # j
      BY <1>4, <3>1, <3>2, <3>5
    <3> QED
      BY <3>3, <3>4, <3>5
  <2>2. MemoryTrue'
    BY <1>1, <2>1 DEF history, MemoryTrue
  <2>3. FileTrue'
    BY <1>1, <1>6, <1>10 DEF history, RecordInv, FileTrue
  <2>4. OrdersMean'
    BY <1>2 DEF OrdersMean
  <2> QED
    BY <2>2, <2>3, <2>4 DEF RecordInv
<1>11. TradesKept
  BY <1>2, <1>5, <1>7, <1>8, <1>9, <1>10 DEF TradesKept
<1>12. DayMeans'
  BY <1>1, <1>2, DayStays DEF history, risk
<1> QED
  BY <1>1, <1>11, <1>12, KeptTypes, InvTypes, TypesKept DEF exchange

----------------------------------------------------------------------------
(* Orders.                                                                  *)

LEMMA JobOf ==
  ASSUME BuyInv, pc \in Waiting
  PROVE  h.id \in h.left /\ h.id \in Trades /\ Coin(h.id) \in Tickers /\ h.want \in 0..Size /\ h.qty \in 0..Size
<1>1. h.id \in h.left /\ h \in Jobs
  BY InvTypes DEF BuyInv, ListMeans, TaskTypes
<1>2. h.id \in Trades
  BY <1>1 DEF Jobs
<1> QED
  BY <1>1, <1>2, CoinOf DEF Jobs

LEMMA AcceptedBuy == ASSUME BuyInv, BuyAccepted PROVE SafeNext
<1>i. PICK i : i = h.id
  OBVIOUS
<1>1. /\ pc = "buySend" /\ pc' = "buyLanded" /\ h' = h /\ Accept(i, "bid", Size)
      /\ have' = [have EXCEPT ![i] = @ + Size] /\ bought' = [bought EXCEPT ![i] = @ + 1] /\ today' = today + 1
      /\ UNCHANGED <<coin, memory, file, dirty, balances, risk, control, late, clean, cut, budget>>
  BY <1>i DEF BuyAccepted
<1>2. i \in h.left /\ i \in Trades /\ Coin(i) \in Tickers /\ tr[i].st = "pending" /\ live[Coin(i)] = i
  BY <1>i, <1>1, JobOf DEF Waiting, BuyInv, ListMeans, Over, Buying
<1>3. ords' \subseteq Order /\ IsFiniteSet(ords') /\ \E o \in ords' : o.by = "sent"
  <2>1. "bid" \in {"bid", "ask"} /\ Size \in 1..Size
    OBVIOUS
  <2> QED
    BY <1>1, <1>2, <2>1, Accepted, InvTypes DEF ExchangeTypes
<1>4. UNCHANGED <<tr, nt, live, file>>
  BY <1>1 DEF memory
<1>5. /\ \A j \in Trades : Settled(j)
      /\ ~Settled(i)' /\ \A j \in Trades \ {i} : Settled(j)'
  BY <1>i, <1>1 DEF Settled, Landed
<1>6. /\ have \in [Trades -> Nat] /\ bought \in [Trades -> Nat] /\ today \in Nat
      /\ have' \in [Trades -> Nat] /\ bought' \in [Trades -> Nat] /\ today' \in Nat
  BY <1>1, <1>2, InvTypes DEF HistoryTypes
<1>7. /\ have'[i] = have[i] + Size /\ bought'[i] = bought[i] + 1
      /\ \A j \in Trades \ {i} : have'[j] = have[j] /\ bought'[j] = bought[j]
  BY <1>1, <1>2, <1>6
<1>8. i <= nt
  BY <1>2, <1>4, InvTypes DEF BuyInv, TradesMean, LiveMeans, MemoryTypes
<1>9. TradesMean'
  BY <1>1, <1>4, <1>7, <1>8, InvTypes DEF BuyInv, TradesMean, NewMeans, LiveMeans, FileMeans, MemoryTypes, Trades
<1>10. ListMeans'
  <2>1. h'.id = i
    BY <1>i, <1>1
  <2> QED
    BY <1>1, <1>2, <1>3, <1>4, <2>1 DEF BuyInv, ListMeans, Over, Waiting, Landed, Buying, Selling
<1>11. NotBought'
  <2>1. clean => bought[i] = 0
    BY <1>2, <1>5 DEF BuyInv, NotBought
  <2> QED
    BY <1>1, <1>2, <1>4, <1>5, <1>7, <2>1 DEF BuyInv, NotBought
<1>12. ASSUME RecordInv PROVE RecordInv'
  <2>1. clean /\ i \notin cut => have[i] = 0
    BY <1>1, <1>2, <1>5, <1>12 DEF RecordInv, MemoryTrue, Up
  <2>2. OrdersMean'
    <3>1. clean' /\ i \notin cut' => have'[h'.id] = Size
      BY <1>1, <1>7, <1>i, <2>1
    <3> QED
      BY <1>1, <1>i, <3>1 DEF OrdersMean
  <2>3. MemoryTrue'
    BY <1>1, <1>4, <1>5, <1>7, <1>12 DEF RecordInv, MemoryTrue, Up
  <2>4. FileTrue'
    BY <1>1, <1>4, <1>5, <1>7, <1>12 DEF RecordInv, FileTrue
  <2> QED
    BY <2>2, <2>3, <2>4 DEF RecordInv
<1>13. MemoryTypes' /\ FileTypes' /\ TaskTypes'
  BY <1>1, <1>4, InvTypes DEF MemoryTypes, FileTypes, TaskTypes, Waiting, Landed
<1>14. TradesKept
  BY <1>9, <1>10, <1>11, <1>12, <1>13 DEF TradesKept
<1>15. DayMeans'
  <2>1. clean /\ ~late => today <= buys /\ buys < MaxBuys /\ ~newday
    BY <1>1, InvTypes DEF BuyInv, DayMeans, RiskTypes, HistoryTypes
  <2>2. UNCHANGED <<buys, newday>>
    BY <1>1 DEF risk
  <2> QED
    BY <1>1, <1>6, <2>1, <2>2, InvTypes DEF DayMeans, RiskTypes
<1>16. HistoryTypes' /\ ExchangeTypes'
  BY <1>1, <1>3, <1>6, InvTypes DEF HistoryTypes, ExchangeTypes
<1> QED
  BY <1>1, <1>3, <1>14, <1>15, <1>16, KeptTypes, InvTypes, TypesKept

LEMMA AcceptedSell == ASSUME BuyInv, SellAccepted PROVE SafeNext
<1>i. PICK i : i = h.id
  OBVIOUS
<1>1. /\ pc = "sellSend" /\ pc' = "sellLanded" /\ h' = h /\ Accept(i, "ask", h.qty)
      /\ coin[Coin(i)] >= h.qty /\ coin' = [coin EXCEPT ![Coin(i)] = @ - h.qty]
      /\ have' = [have EXCEPT ![i] = @ - Lower(@, h.qty)]
      /\ UNCHANGED <<memory, file, dirty, balances, risk, control, bought, today, late, clean, cut, budget>>
  BY <1>i DEF SellAccepted
<1>2. /\ i \in h.left /\ i \in Trades /\ Coin(i) \in Tickers /\ tr[i].st = "open" /\ live[Coin(i)] = i
      /\ h.qty \in 0..Size /\ h.want \in 1..tr[i].vol /\ h.qty \in 1..h.want
  BY <1>i, <1>1, JobOf DEF Waiting, BuyInv, ListMeans, Over, Selling
<1>0. h.qty \in 1..Size /\ h.qty \in Nat /\ h.qty <= tr[i].vol /\ tr[i].vol \in Nat
  <2>1. tr[i].vol \in 1..Size
    BY <1>2, VolumeOf
  <2> QED
    BY <1>2, <2>1
<1>3. ords' \subseteq Order /\ IsFiniteSet(ords') /\ \E o \in ords' : o.by = "sent"
  <2>1. "ask" \in {"bid", "ask"}
    OBVIOUS
  <2> QED
    BY <1>0, <1>1, <1>2, <2>1, Accepted, InvTypes DEF ExchangeTypes
<1>4. UNCHANGED <<tr, nt, live, file>>
  BY <1>1 DEF memory
<1>5. /\ \A j \in Trades : Settled(j)
      /\ ~Settled(i)' /\ \A j \in Trades \ {i} : Settled(j)'
  BY <1>i, <1>1 DEF Settled, Landed
<1>6. have \in [Trades -> Nat] /\ \A n \in Nat : n - Lower(n, h.qty) \in Nat
  BY <1>0, InvTypes DEF HistoryTypes, Lower
<1>7. /\ have' \in [Trades -> Nat] /\ have'[i] = have[i] - Lower(have[i], h.qty)
      /\ \A j \in Trades \ {i} : have'[j] = have[j]
  BY <1>1, <1>2, <1>6
<1>8. ExchangeTypes'
  <2>1. coin \in [Tickers -> Nat]
    BY InvTypes DEF ExchangeTypes
  <2>2. coin[Coin(i)] - h.qty \in Nat
    BY <1>0, <1>1, <1>2, <2>1
  <2>3. coin' \in [Tickers -> Nat]
    BY <1>1, <2>1, <2>2
  <2> QED
    BY <1>3, <2>3 DEF ExchangeTypes
<1>9. i <= nt
  BY <1>2, <1>4, InvTypes DEF BuyInv, TradesMean, LiveMeans, MemoryTypes
<1>10. TradesMean'
  <2>1. NewMeans'
    <3>1. nt \in Nat /\ i \in Nat /\ ~(i > nt)
      BY <1>2, <1>9, InvTypes DEF MemoryTypes, Trades
    <3> QED
      BY <1>1, <1>4, <1>7, <3>1 DEF BuyInv, TradesMean, NewMeans
  <2>2. LiveMeans' /\ FileMeans'
    BY <1>4 DEF BuyInv, TradesMean, LiveMeans, FileMeans
  <2> QED
    BY <2>1, <2>2 DEF TradesMean
<1>11. ListMeans'
  <2>1. h'.id = i
    BY <1>i, <1>1
  <2> QED
    BY <1>1, <1>2, <1>3, <1>4, <2>1 DEF BuyInv, ListMeans, Over, Waiting, Landed, Buying, Selling
<1>12. NotBought'
  BY <1>1, <1>4, <1>5 DEF BuyInv, NotBought
<1>13. ASSUME RecordInv PROVE RecordInv'
  <2>1. clean /\ i \notin cut => have[i] = tr[i].vol
    BY <1>1, <1>2, <1>5, <1>13 DEF RecordInv, MemoryTrue, Up
  <2>2. OrdersMean'
    <3>1. Lower(tr[i].vol, h.qty) = h.qty
      BY <1>0 DEF Lower
    <3>2. clean' /\ i \notin cut' => have'[h'.id] = tr'[h'.id].vol - h'.qty
      BY <1>1, <1>4, <1>7, <2>1, <1>i, <3>1
    <3> QED
      BY <1>1, <1>i, <3>2 DEF OrdersMean
  <2>3. MemoryTrue'
    BY <1>1, <1>4, <1>5, <1>7, <1>13 DEF RecordInv, MemoryTrue, Up
  <2>4. FileTrue'
    BY <1>1, <1>4, <1>5, <1>7, <1>13 DEF RecordInv, FileTrue
  <2> QED
    BY <2>2, <2>3, <2>4 DEF RecordInv
<1>14. MemoryTypes' /\ FileTypes' /\ TaskTypes'
  BY <1>1, <1>4, InvTypes DEF MemoryTypes, FileTypes, TaskTypes, Waiting, Landed
<1>15. TradesKept
  BY <1>10, <1>11, <1>12, <1>13, <1>14 DEF TradesKept
<1>16. DayMeans'
  BY <1>1, DayStays DEF risk
<1>17. HistoryTypes'
  BY <1>1, <1>7, InvTypes DEF HistoryTypes
<1> QED
  BY <1>1, <1>3, <1>8, <1>15, <1>16, <1>17, KeptTypes, InvTypes, TypesKept

\* The answer of an order has come, or is lost.
LEMMA AnswerSteps ==
  ASSUME BuyInv, BuyAnswered \/ SellAnswered \/ BuyLost \/ SellLost
  PROVE  SafeNext
<1>1. /\ UNCHANGED <<coin, memory, file, dirty, balances, halted, newday, control, have, bought, today, late, crashes, turns, cut>>
      /\ h' = h /\ pc \in {"buyLanded", "sellLanded"} /\ Up
      /\ (BuyLost \/ SellLost) => clean' = FALSE
      /\ ~(BuyLost \/ SellLost) => clean' = clean /\ pc' \in Landed
  BY DEF BuyAnswered, SellAnswered, BuyLost, SellLost, AnswerLost, Answered, history, risk, budget, Landed, Up
<1>2. UNCHANGED <<tr, nt, live, file>>
  BY <1>1 DEF memory
<1>3. h.id \in h.left /\ h.id \in Trades /\ Coin(h.id) \in Tickers
  BY <1>1, JobOf DEF Waiting, Landed
<1>4. ords' \subseteq Order /\ IsFiniteSet(ords')
  <2>1. CASE BuyAnswered \/ SellAnswered
    <3>1. \E o \in ords : o.by = "sent"
      BY <1>1 DEF BuyInv, ListMeans
    <3> QED
      BY <2>1, <3>1, AnsweredOrder, InvTypes DEF BuyAnswered, SellAnswered, Answered, ExchangeTypes
  <2>2. CASE BuyLost \/ SellLost
    BY <2>2, LoosenOrders, InvTypes DEF BuyLost, SellLost, AnswerLost, ExchangeTypes
  <2> QED
    BY <2>1, <2>2
<1>5. pc' \in Waiting \ {"buyLanded", "sellLanded", "buySend"}
  BY DEF BuyAnswered, SellAnswered, BuyLost, SellLost, AnswerLost, Answered, Waiting, Landed
<1>6. ListMeans'
  <2>1. /\ pc' \in Buying => pc = "buyLanded"
        /\ pc' \in Selling => pc = "sellLanded"
        /\ pc' \notin {"off", "idle", "sellSend", "sellLanded", "buyLanded"}
    BY DEF BuyAnswered, SellAnswered, BuyLost, SellLost, AnswerLost, Answered, Buying, Selling
  <2> QED
    BY <1>1, <1>2, <1>3, <2>1 DEF BuyInv, ListMeans, Over, Buying, Selling
<1>7. TradesMean'
  BY <1>1, <1>2 DEF BuyInv, TradesMean, NewMeans, LiveMeans, FileMeans
<1>8. NotBought' /\ (RecordInv => RecordInv') /\ DayMeans'
  <2>1. CASE BuyLost \/ SellLost
    <3>1. clean' = FALSE
      BY <1>1, <2>1
    <3> QED
      BY <3>1 DEF NotBought, RecordInv, OrdersMean, MemoryTrue, FileTrue, DayMeans
  <2>2. CASE ~(BuyLost \/ SellLost)
    <3>1. clean' = clean /\ pc \in Landed /\ pc' \in Landed /\ Up'
      BY <1>1, <2>2 DEF Landed, Up
    <3>2. \A j \in Trades : Settled(j) <=> Settled(j)'
      BY <1>1, <3>1 DEF Settled
    <3>3. NotBought'
      BY <1>1, <1>2, <3>1, <3>2 DEF BuyInv, NotBought
    <3>4. ASSUME RecordInv PROVE RecordInv'
      <4>1. OrdersMean'
        <5>1. \/ pc = "buyLanded" /\ pc' = "buyTold"
              \/ pc = "sellLanded" /\ pc' = "sellTold"
          BY <2>2 DEF BuyAnswered, SellAnswered, Answered
        <5> QED
          BY <1>1, <1>2, <3>1, <3>4, <5>1 DEF RecordInv, OrdersMean
      <4>2. MemoryTrue' /\ FileTrue'
        BY <1>1, <1>2, <3>1, <3>2, <3>4 DEF RecordInv, MemoryTrue, FileTrue, Up
      <4> QED
        BY <4>1, <4>2 DEF RecordInv
    <3>5. DayMeans'
      <4>1. CASE BuyAnswered
        <5>1. buys' = buys + 1 /\ pc = "buyLanded" /\ pc' = "buyTold"
          BY <4>1 DEF BuyAnswered, Answered
        <5> QED
          BY <1>1, <3>1, <5>1, InvTypes DEF BuyInv, DayMeans, RiskTypes, HistoryTypes
      <4>2. CASE SellAnswered
        <5>1. buys' = buys /\ pc = "sellLanded" /\ pc' = "sellTold"
          BY <4>2 DEF SellAnswered, Answered
        <5> QED
          BY <1>1, <3>1, <5>1, DayStays
      <4> QED
        BY <2>2, <4>1, <4>2
    <3> QED
      BY <3>3, <3>4, <3>5
  <2> QED
    BY <2>1, <2>2
<1>9. RiskTypes'
  <2>1. buys' \in Nat
    BY InvTypes DEF BuyAnswered, SellAnswered, BuyLost, SellLost, AnswerLost, risk, RiskTypes
  <2>2. cool' = cool \/ cool' = [cool EXCEPT ![Coin(h.id)] = "hot"]
    BY DEF BuyAnswered, SellAnswered, BuyLost, SellLost, AnswerLost, Answered, Registered, risk
  <2>3. cool' \in [Tickers -> {"no", "hot", "warm"}]
    BY <1>3, <2>2, InvTypes DEF RiskTypes
  <2> QED
    BY <1>1, <2>1, <2>3, InvTypes DEF RiskTypes
<1>10. BudgetTypes'
  <2>1. Trouble \/ Calm
    BY DEF BuyAnswered, SellAnswered, BuyLost, SellLost, AnswerLost, budget, Calm
  <2> QED
    BY <1>1, <2>1, BudgetNext, InvTypes
<1>11. HistoryTypes' /\ ExchangeTypes'
  <2>1. clean' \in BOOLEAN
    <3>1. CASE BuyLost \/ SellLost
      BY <1>1, <3>1
    <3>2. CASE ~(BuyLost \/ SellLost)
      BY <1>1, <3>2, InvTypes DEF HistoryTypes
    <3> QED
      BY <3>1, <3>2
  <2> QED
    BY <1>1, <1>4, <2>1, InvTypes DEF HistoryTypes, ExchangeTypes
<1>12. MemoryTypes' /\ FileTypes' /\ TaskTypes'
  <2>1. MemoryTypes' /\ FileTypes'
    BY <1>1, InvTypes, TypesKept
  <2>2. TaskTypes'
    BY <1>1, <1>3, <1>5, InvTypes DEF TaskTypes, Trades
  <2> QED
    BY <2>1, <2>2
<1>13. TradesKept
  BY <1>6, <1>7, <1>8, <1>12 DEF TradesKept
<1> QED
  BY <1>1, <1>4, <1>8, <1>9, <1>10, <1>11, <1>13, KeptTypes, InvTypes, TypesKept

\* The trade is bought, or sold: mark_filled, mark_exit.
LEMMA MarkTypes ==
  ASSUME tr \in [Trades -> Trade], NEW i \in Trades, NEW x \in Statuses, NEW v \in 0..Size,
         \/ tr' = [tr EXCEPT ![i].st = x, ![i].vol = v]
         \/ tr' = [tr EXCEPT ![i].st = x, ![i].vol = v, ![i].pend = FALSE]
         \/ tr' = [tr EXCEPT ![i].vol = v] /\ tr[i].st = x
  PROVE  /\ tr' \in [Trades -> Trade] /\ tr'[i].st = x /\ tr'[i].vol = v
         /\ \A j \in Trades \ {i} : tr'[j] = tr[j]
<1>1. PICK r : r = tr[i] /\ r \in Trade
  OBVIOUS
<1>2. PICK s : /\ \/ s = [r EXCEPT !.st = x, !.vol = v]
                  \/ s = [r EXCEPT !.st = x, !.vol = v, !.pend = FALSE]
                  \/ s = [r EXCEPT !.vol = v] /\ r.st = x
               /\ tr' = [tr EXCEPT ![i] = s]
  BY <1>1
<1>3. s \in Trade /\ s.st = x /\ s.vol = v
  BY <1>1, <1>2 DEF Trade
<1>5. tr' \in [Trades -> Trade] /\ tr'[i] = s /\ \A j \in Trades \ {i} : tr'[j] = tr[j]
  BY <1>2, <1>3
<1> QED
  BY <1>3, <1>5

LEMMA MarkSteps == ASSUME BuyInv, BuyDone \/ SellDone PROVE SafeNext
<1>i. PICK i : i = h.id
  OBVIOUS
<1>1. /\ UNCHANGED <<exchange, nt, dirty, balances, risk, control, have, bought, today, late, clean, budget>>
      /\ Onward(i) /\ pc \in {"buyTold", "sellTold"} /\ Up /\ cut' \in {cut, cut \cup {i}}
      /\ BuyDone => cut' = cut
      /\ SellDone => (i \notin cut' => i \notin cut /\ ~(h.qty < h.want))
  BY <1>i DEF BuyDone, SellDone, Up, history
<1>2. i \in h.left /\ i \in Trades /\ Coin(i) \in Tickers /\ UNCHANGED <<have, bought, clean, today, late>>
  BY <1>i, <1>1, JobOf DEF Waiting, Landed
<1>3. live[Coin(i)] = i /\ (BuyDone => tr[i].st = "pending")
      /\ (SellDone => tr[i].st = "open" /\ h.want \in 1..tr[i].vol)
  BY <1>i, <1>2 DEF BuyDone, SellDone, BuyInv, ListMeans, Over, Buying, Selling
<1>4. TradesKept /\ pc' = "next"
  <2>1. CASE BuyDone
    <3>1. /\ tr' = [tr EXCEPT ![i].st = "open", ![i].vol = Size] /\ live' = live
          /\ file' = Saved(tr', live') /\ pc = "buyTold"
      BY <1>i, <2>1 DEF BuyDone
    <3>2. /\ tr' \in [Trades -> Trade] /\ tr'[i].st = "open" /\ tr'[i].vol = Size
          /\ \A j \in Trades \ {i} : tr'[j] = tr[j]
      <4>1. "open" \in Statuses /\ Size \in 0..Size /\ tr \in [Trades -> Trade]
        BY InvTypes DEF MemoryTypes, Statuses
      <4> QED
        BY <1>2, <3>1, <4>1, MarkTypes
    <3>3. RecordInv /\ clean /\ i \notin cut' => have[i] = Size
      BY <1>i, <1>1, <2>1, <3>1 DEF RecordInv, OrdersMean
    <3>4. tr'[i].vol > 0
      BY <3>2
    <3> QED
      BY <1>i, <1>1, <1>2, <1>3, <3>1, <3>2, <3>3, <3>4, MarkedKeeps
  <2>2. CASE SellDone
    <3> DEFINE l == tr[i].vol - h.want
    <3>1. tr[i].vol \in 1..Size /\ l \in 0..Size
      BY <1>2, <1>3, <2>2, VolumeOf
    <3>2. RecordInv /\ clean /\ i \notin cut' => have[i] = l
      <4>1. h.qty \in 1..h.want /\ h.want \in Nat
        BY <1>i, <1>3, <2>2, <3>1 DEF SellDone, BuyInv, ListMeans
      <4>2. i \notin cut' => i \notin cut /\ h.qty = h.want
        BY <1>1, <2>2, <4>1
      <4> QED
        BY <1>i, <2>2, <4>2 DEF SellDone, RecordInv, OrdersMean
    <3>3. CASE l = 0
      <4>1. /\ tr' = [tr EXCEPT ![i].st = "closed", ![i].vol = 0, ![i].pend = FALSE]
            /\ live' = [live EXCEPT ![Coin(i)] = 0] /\ file' = Saved(tr', live')
        BY <1>i, <2>2, <3>3 DEF SellDone, Dropped
      <4>2. /\ tr' \in [Trades -> Trade] /\ tr'[i].st = "closed" /\ \A j \in Trades \ {i} : tr'[j] = tr[j]
        <5>1. "closed" \in Statuses /\ 0 \in 0..Size /\ tr \in [Trades -> Trade]
          BY InvTypes DEF MemoryTypes, Statuses
        <5> QED
          BY <1>2, <4>1, <5>1, MarkTypes
      <4> QED
        BY <1>i, <1>1, <1>2, <1>3, <3>2, <3>3, <4>1, <4>2, MarkedKeeps
    <3>4. CASE l # 0
      <4>1. tr' = [tr EXCEPT ![i].vol = l] /\ live' = live /\ file' = Saved(tr', live')
        BY <1>i, <2>2, <3>4 DEF SellDone
      <4> HIDE DEF l
      <4>2. /\ tr' \in [Trades -> Trade] /\ tr'[i].st = "open" /\ tr'[i].vol = l
            /\ \A j \in Trades \ {i} : tr'[j] = tr[j]
        BY <1>2, <1>3, <2>2, <3>1, <4>1, MarkTypes, InvTypes DEF MemoryTypes, Statuses
      <4>3. l > 0
        BY <3>1, <3>4
      <4> QED
        BY <1>i, <1>1, <1>2, <1>3, <3>2, <4>1, <4>2, <4>3, MarkedKeeps
    <3> QED
      BY <3>3, <3>4
  <2> QED
    BY <2>1, <2>2
<1>5. DayMeans'
  BY <1>1, <1>2, <1>4, DayStays DEF risk
<1>6. HistoryTypes'
  BY <1>1, <1>2, InvTypes DEF HistoryTypes
<1> QED
  BY <1>1, <1>4, <1>5, <1>6, KeptTypes, InvTypes, TypesKept DEF exchange

----------------------------------------------------------------------------
(* Scans, stops, kills and restarts.                                        *)

LEMMA SavedAlone ==
  ASSUME BuyInv, UNCHANGED memory, file' = Saved(tr, live), UNCHANGED <<have, bought, cut>>,
         clean' => clean, \A i \in Trades : clean' /\ Settled(i)' => Settled(i),
         RecordInv => MemoryHolds'
  PROVE  /\ FileTypes' /\ TradesMean' /\ NotBought'
         /\ RecordInv => FileTrue'
<1>1. UNCHANGED <<tr, nt, live>> /\ file' = Saved(tr', live') /\ MemoryTypes'
  BY InvTypes, TypesKept DEF memory
<1>3. NewMeans' /\ LiveMeans'
  BY <1>1 DEF BuyInv, TradesMean, NewMeans, LiveMeans
<1>4. FileTypes' /\ TradesMean'
  BY <1>1, <1>3, SavedMeans DEF TradesMean
<1>5. NotBought'
  <2>1. \A j \in Trades : file'[Coin(j)].id = j /\ file'[Coin(j)].st = "pending" => tr'[j].st = "pending"
    BY <1>1, <1>3, SavedMeans
  <2> QED
    BY <1>1, <2>1 DEF BuyInv, NotBought
<1>6. RecordInv => FileTrue'
  BY <1>1, <1>3, SavedTrue
<1> QED
  BY <1>4, <1>5, <1>6

LEMMA ScanSaves == ASSUME BuyInv, ScanSave PROVE SafeNext
<1>1. /\ UNCHANGED <<exchange, memory, balances, risk, control, task, history, budget>> /\ Up
      /\ file' = Saved(tr, live) /\ dirty' = FALSE
  BY DEF ScanSave, Free
<1>2. UNCHANGED <<tr, nt, live, ords, pc, h, have, bought, today, late, clean, buys, newday, cut>>
  BY <1>1 DEF memory, exchange, task, history, risk
<1>3. \A i \in Trades : Settled(i)' <=> Settled(i)
  BY <1>2 DEF Settled
<1>4. RecordInv => MemoryHolds' /\ OrdersMean' /\ MemoryTrue'
  BY <1>1, <1>2, <1>3 DEF RecordInv, OrdersMean, MemoryTrue, MemoryHolds, Up
<1>5. FileTypes' /\ TradesMean' /\ NotBought' /\ (RecordInv => FileTrue')
  BY <1>1, <1>2, <1>3, <1>4, SavedAlone
<1>6. ListMeans'
  BY <1>2 DEF BuyInv, ListMeans, Over
<1>7. TradesKept
  BY <1>1, <1>4, <1>5, <1>6, InvTypes, TypesKept DEF TradesKept, RecordInv
<1>8. DayMeans'
  BY <1>2 DEF BuyInv, DayMeans
<1> QED
  BY <1>1, <1>2, <1>7, <1>8, KeptTypes, InvTypes, TypesKept

LEMMA DownSteps == ASSUME BuyInv, Stop \/ Crash PROVE SafeNext
<1>1. /\ pc' = "off" /\ h' = NoJob /\ dirty' = FALSE /\ brk' = "calm" /\ stopping' = FALSE /\ aged' = TRUE
      /\ ords' = Loosen(Loosen(ords, "sent"), "tracked") /\ clean' = (clean /\ pc \notin Landed)
      /\ UNCHANGED <<coin, memory, cache, risk, enabled, thin, have, bought, today, late, cut>> /\ Up
  BY DEF Stop, Crash, GoesDown, Free
<1>2. UNCHANGED <<tr, nt, live>> /\ (clean' => clean /\ pc \notin Landed)
  BY <1>1 DEF memory
<1>3. \A i \in Trades : Settled(i)' /\ (pc \notin Landed => Settled(i))
  BY <1>1 DEF Settled, Landed
<1>4. ords' \subseteq Order /\ IsFiniteSet(ords')
  <2>1. Loosen(ords, "sent") \subseteq Order /\ IsFiniteSet(Loosen(ords, "sent"))
    BY LoosenOrders, InvTypes DEF ExchangeTypes
  <2> QED
    BY <1>1, <2>1, LoosenOrders
<1>5. ListMeans'
  BY <1>1 DEF NoJob, ListMeans, Waiting, Landed, Buying, Selling
<1>6. RecordInv => MemoryHolds'
  BY <1>1, <1>2, <1>3 DEF RecordInv, MemoryTrue, MemoryHolds
<1>7. FileTypes' /\ TradesMean' /\ NotBought' /\ (RecordInv => FileTrue')
  <2>1. CASE Stop
    <3>1. file' = Saved(tr, live)
      BY <2>1 DEF Stop
    <3> QED
      BY <1>1, <1>2, <1>3, <1>6, <3>1, SavedAlone
  <2>2. CASE Crash
    <3>1. UNCHANGED file
      BY <2>2 DEF Crash
    <3>2. FileTypes' /\ TradesMean'
      BY <1>1, <1>2, <3>1, InvTypes, TypesKept DEF BuyInv, TradesMean, NewMeans, LiveMeans, FileMeans
    <3>3. NotBought'
      BY <1>1, <1>2, <1>3, <3>1 DEF BuyInv, NotBought
    <3>4. RecordInv => FileTrue'
      BY <1>1, <1>2, <1>3, <3>1 DEF RecordInv, FileTrue
    <3> QED
      BY <3>2, <3>3, <3>4
  <2> QED
    BY <2>1, <2>2
<1>8. TaskTypes' /\ MemoryTypes'
  <2>1. NoJob \in Jobs
    BY DEF NoJob, Jobs
  <2> QED
    BY <1>1, <2>1, InvTypes, TypesKept DEF TaskTypes, Waiting, Landed
<1>9. RecordInv => RecordInv'
  BY <1>1, <1>7 DEF RecordInv, OrdersMean, MemoryTrue, Up
<1>10. TradesKept
  BY <1>5, <1>7, <1>8, <1>9 DEF TradesKept
<1>11. DayMeans'
  BY <1>1, <1>2, InvTypes DEF BuyInv, DayMeans, risk, RiskTypes, HistoryTypes, Landed
<1>12. ExchangeTypes' /\ BalanceTypes' /\ ControlTypes'
  BY <1>1, <1>4, InvTypes DEF ExchangeTypes, BalanceTypes, ControlTypes
<1>13. HistoryTypes'
  <2>1. clean' \in BOOLEAN
    BY <1>1
  <2> QED
    BY <1>1, <2>1, InvTypes DEF HistoryTypes
<1>14. BudgetTypes'
  BY InvTypes DEF Stop, Crash, Trouble, Calm, BudgetTypes
<1> QED
  BY <1>1, <1>4, <1>10, <1>11, <1>12, <1>13, <1>14, KeptTypes, InvTypes, TypesKept

Reloaded(i) ==
  IF \E t \in Tickers : file[t].id = i
  THEN LET e == file[Coin(i)] IN [tr[i] EXCEPT !.st = e.st, !.vol = e.vol, !.pend = e.pend]
  ELSE IF tr[i].st \in {"pending", "open"} THEN [tr[i] EXCEPT !.st = "cancelled", !.pend = FALSE]
  ELSE tr[i]

LEMMA Restarts == ASSUME BuyInv, Restart PROVE SafeNext
<1>1. /\ pc = "off" /\ pc' = "idle" /\ h' = h
      /\ live' = [t \in Tickers |-> file[t].id]
      /\ newday' = FALSE /\ buys' = BuysNow
      /\ UNCHANGED <<coin, nt, file, dirty, brk, stopping, enabled, thin, history, crashes, turns>>
  BY DEF Restart, Up
<1>2. tr' = [i \in Trades |-> Reloaded(i)]
  BY DEF Restart, Reloaded
<1>3. ASSUME NEW i \in Trades
      PROVE  /\ tr'[i] \in Trade /\ i # 0 /\ Coin(i) \in Tickers
             /\ (\E t \in Tickers : file[t].id = i) => file[Coin(i)].id = i
             /\ file[Coin(i)].id = i => tr'[i].st = file[Coin(i)].st /\ tr'[i].vol = file[Coin(i)].vol
             /\ file[Coin(i)].id # i => tr'[i].st \notin {"pending", "open"}
             /\ file[Coin(i)].id # i /\ tr[i].st = "none" => tr'[i].st = "none"
  <2>1. i # 0 /\ Coin(i) \in Tickers
    BY CoinOf
  <2>2. (\E t \in Tickers : file[t].id = i) <=> file[Coin(i)].id = i
    BY <2>1 DEF BuyInv, TradesMean, FileMeans
  <2>3. PICK r : r = tr[i] /\ r \in Trade
    BY InvTypes DEF MemoryTypes
  <2>4. PICK e : e = file[Coin(i)] /\ e \in Entry
    BY <2>1, InvTypes DEF FileTypes
  <2>5. CASE e.id = i
    <3>1. tr'[i] = [r EXCEPT !.st = e.st, !.vol = e.vol, !.pend = e.pend]
      <4>1. Reloaded(i) = [r EXCEPT !.st = e.st, !.vol = e.vol, !.pend = e.pend]
        BY <2>2, <2>3, <2>4, <2>5 DEF Reloaded
      <4> QED
        BY <1>2, <4>1, Zenon
    <3>2. PICK s : s = [r EXCEPT !.st = e.st, !.vol = e.vol, !.pend = e.pend]
      OBVIOUS
    <3>3. s \in Trade /\ s.st = e.st /\ s.vol = e.vol
      BY <2>3, <2>4, <3>2 DEF Trade, Entry
    <3>4. tr'[i] = s
      BY <3>1, <3>2, Zenon
    <3> QED
      BY <2>1, <2>2, <2>4, <2>5, <3>3, <3>4
  <2>6. CASE e.id # i /\ r.st \in {"pending", "open"}
    <3>1. tr'[i] = [r EXCEPT !.st = "cancelled", !.pend = FALSE]
      <4>1. Reloaded(i) = [r EXCEPT !.st = "cancelled", !.pend = FALSE]
        BY <2>2, <2>3, <2>4, <2>6 DEF Reloaded
      <4> QED
        BY <1>2, <4>1, Zenon
    <3>2. PICK s : s = [r EXCEPT !.st = "cancelled", !.pend = FALSE]
      OBVIOUS
    <3>3. s \in Trade /\ s.st = "cancelled"
      BY <2>3, <3>2 DEF Trade, Statuses
    <3>4. tr'[i] = s
      BY <3>1, <3>2, Zenon
    <3> QED
      BY <2>1, <2>2, <2>3, <2>4, <2>6, <3>3, <3>4
  <2>7. CASE e.id # i /\ r.st \notin {"pending", "open"}
    <3>1. tr'[i] = r
      <4>1. Reloaded(i) = r
        BY <2>2, <2>3, <2>4, <2>7 DEF Reloaded
      <4> QED
        BY <1>2, <4>1, Zenon
    <3> QED
      BY <2>1, <2>2, <2>3, <2>4, <2>7, <3>1
  <2> QED
    BY <2>5, <2>6, <2>7
<1>4. MemoryTypes'
  <2>1. tr' = [i \in Trades |-> tr'[i]]
    BY <1>2
  <2>2. tr' \in [Trades -> Trade]
    BY <1>3, <2>1
  <2>3. \A t \in Tickers : file[t].id \in 0..MaxTrades
    BY InvTypes DEF FileTypes, Entry
  <2> QED
    BY <1>1, <2>2, <2>3, InvTypes DEF MemoryTypes
<1>5. \A i \in Trades : Settled(i) /\ Settled(i)'
  BY <1>1 DEF Settled, Landed
<1>6. UNCHANGED <<have, bought, today, late, clean, cut>>
  BY <1>1 DEF history
<1>7. \A t \in Tickers : file[t].id # 0 => file[t].id \in Trades /\ file[t].id \in 1..nt /\ Coin(file[t].id) = t
  BY InvTypes DEF BuyInv, TradesMean, FileMeans, MemoryTypes, Trades
<1>8. TradesMean'
  <2>1. NewMeans'
    <3> SUFFICES ASSUME NEW i \in Trades
        PROVE  /\ i > nt => tr'[i].st = "none" /\ bought[i] = 0 /\ (clean => have[i] = 0)
               /\ tr'[i].st = "open" => tr'[i].vol > 0
      BY <1>1, <1>6 DEF NewMeans
    <3>1. i > nt => file[Coin(i)].id # i
      <4>1. file[Coin(i)].id = i => i \in 1..nt
        BY <1>7, CoinOf
      <4> QED
        BY <4>1, CoinOf, InvTypes DEF MemoryTypes
    <3>2. tr'[i].st = "open" => file[Coin(i)].id = i /\ file[Coin(i)].st = "open" /\ tr'[i].vol = file[Coin(i)].vol
      BY <1>3
    <3> QED
      BY <1>3, <3>1, <3>2 DEF BuyInv, TradesMean, NewMeans, FileMeans
  <2>2. LiveMeans'
    <3> SUFFICES ASSUME NEW t \in Tickers, live'[t] # 0
        PROVE  live'[t] \in 1..nt /\ Coin(live'[t]) = t /\ tr'[live'[t]].st \in {"pending", "open"}
      BY <1>1 DEF LiveMeans
    <3>1. live'[t] = file[t].id
      BY <1>1
    <3> QED
      BY <1>3, <1>7, <3>1 DEF BuyInv, TradesMean, FileMeans
  <2>3. FileMeans'
    BY <1>1 DEF BuyInv, TradesMean, FileMeans
  <2> QED
    BY <2>1, <2>2, <2>3 DEF TradesMean
<1>9. ListMeans'
  <2>1. h'.left = {}
    BY <1>1 DEF BuyInv, ListMeans
  <2> QED
    BY <1>1, <2>1 DEF ListMeans, Waiting, Landed, Buying, Selling
<1>10. NotBought'
  <2>1. \A i \in Trades : tr'[i].st = "pending" => file[Coin(i)].id = i /\ file[Coin(i)].st = "pending"
    BY <1>3
  <2> QED
    BY <1>1, <1>5, <1>6, <2>1 DEF BuyInv, NotBought
<1>11. ASSUME RecordInv PROVE RecordInv'
  <2>1. FileTrue'
    BY <1>1, <1>5, <1>6, <1>11 DEF RecordInv, FileTrue
  <2>2. MemoryTrue'
    <3> SUFFICES ASSUME clean, NEW i \in Trades, i \notin cut
        PROVE  have[i] = IF live'[Coin(i)] = i /\ tr'[i].st = "open" THEN tr'[i].vol ELSE 0
      BY <1>6 DEF MemoryTrue
    <3>1. have[i] = IF file[Coin(i)].id = i /\ file[Coin(i)].st = "open" THEN file[Coin(i)].vol ELSE 0
      BY <1>5, <1>11 DEF RecordInv, FileTrue
    <3>2. live'[Coin(i)] = file[Coin(i)].id
      BY <1>1, <1>3
    <3> QED
      BY <1>3, <3>1, <3>2
  <2>3. OrdersMean'
    BY <1>1 DEF OrdersMean
  <2> QED
    BY <2>1, <2>2, <2>3 DEF RecordInv
<1>12. TradesKept
  <2>1. TaskTypes' /\ FileTypes'
    BY <1>1, InvTypes DEF TaskTypes, FileTypes, Waiting, Landed
  <2> QED
    BY <1>4, <1>8, <1>9, <1>10, <1>11, <2>1 DEF TradesKept
<1>13. ords' \subseteq Order /\ IsFiniteSet(ords')
  <2> DEFINE f(o) == [o EXCEPT !.by = "tracked"]
             S == {f(o) : o \in ords}
             g == [o \in ords |-> f(o)]
  <2>1. ords' = ords \/ ords' = S
    BY DEF Restart
  <2>2. \A o \in ords : f(o) \in Order
    BY InvTypes DEF ExchangeTypes, Order
  <2>3. IsFiniteSet(S)
    <3>1. S = {g[o] : o \in ords} /\ DOMAIN g = ords /\ g = [o \in ords |-> g[o]]
      OBVIOUS
    <3> HIDE DEF g, S
    <3> QED
      BY <3>1, ImageOf, InvTypes
  <2> QED
    BY <2>1, <2>2, <2>3, InvTypes DEF ExchangeTypes
<1>14. BalanceTypes' /\ RiskTypes'
  <2> DEFINE c == IF newday THEN [t \in Tickers |-> "no"] ELSE cool
  <2>1. c \in [Tickers -> {"no", "hot", "warm"}] /\ Refreshed(c) \in [Tickers -> {"no", "hot", "warm"}]
    BY InvTypes DEF RiskTypes, Refreshed
  <2>2. cool' \in {c, Refreshed(c)} /\ halted' \in {HaltNow, TRUE}
    BY DEF Restart
  <2>3. HaltNow \in BOOLEAN /\ BuysNow \in Nat
    BY InvTypes DEF HaltNow, BuysNow, RiskTypes
  <2>4. RiskTypes'
    BY <1>1, <2>1, <2>2, <2>3 DEF RiskTypes
  <2>5. cache' \in {coin, [t \in Tickers |-> 0]} /\ aged' \in BOOLEAN
    BY DEF Restart
  <2>6. BalanceTypes'
    BY <2>5, InvTypes DEF BalanceTypes, ExchangeTypes
  <2> QED
    BY <2>4, <2>6
<1>15. DayMeans'
  <2>1. clean /\ ~late => today <= MaxBuys /\ today <= BuysNow
    BY <1>1, InvTypes DEF BuyInv, DayMeans, BuysNow, RiskTypes, HistoryTypes
  <2> QED
    BY <1>1, <1>6, <1>14, <2>1, InvTypes DEF DayMeans, RiskTypes, HistoryTypes
<1>16. BudgetTypes'
  <2>1. Trouble \/ Calm
    BY DEF Restart
  <2> QED
    BY <1>1, <2>1, BudgetNext, InvTypes
<1> QED
  BY <1>1, <1>12, <1>13, <1>14, <1>15, <1>16, KeptTypes, InvTypes, TypesKept DEF ExchangeTypes, ControlTypes

\* What a scan makes of the trade i of its ticker, of which old is live.
ScanMakes(i, old, does, new) ==
  CASE i = old /\ does = "expires" -> [tr[i] EXCEPT !.st = "cancelled"]
    [] i = old /\ does = "exits"   -> [tr[i] EXCEPT !.pend = TRUE]
    [] new /\ i = nt + 1           -> [st |-> "pending", vol |-> 0, pend |-> FALSE]
    [] OTHER                       -> tr[i]

ScanParts(t, old, does, new) ==
  /\ Up
  /\ does = "expires" => old # 0 /\ tr[old].st = "pending" /\ ~Busy(old)
  /\ does = "exits" => old # 0 /\ tr[old].st = "open" /\ ~Busy(old)
  /\ new => nt < MaxTrades /\ Market[nt + 1] = t /\ (old = 0 \/ does = "expires")
  /\ tr' = [i \in Trades |-> ScanMakes(i, old, does, new)]
  /\ nt' = IF new THEN nt + 1 ELSE nt
  /\ live' = [live EXCEPT ![t] = IF new THEN nt + 1 ELSE IF does = "expires" THEN 0 ELSE @]

LEMMA ScanHas ==
  ASSUME NEW t \in Tickers, ScanBar(t)
  PROVE  \E does \in {"nothing", "expires", "exits"}, new \in BOOLEAN : ScanParts(t, live[t], does, new)
<1>1. PICK does \in {"nothing", "expires", "exits"}, new \in BOOLEAN : ScanBar(t)!(does, new)
  BY DEF ScanBar
<1>2. ScanParts(t, live[t], does, new)
  BY <1>1 DEF Free, ScanParts, ScanMakes
<1> QED
  BY <1>2

LEMMA ScanBars == ASSUME BuyInv, NEW t \in Tickers, ScanBar(t) PROVE SafeNext
<1> DEFINE old == live[t]
<1>p. PICK does \in {"nothing", "expires", "exits"}, new \in BOOLEAN : ScanParts(t, live[t], does, new)
  BY ScanHas
<1>1. /\ Up
      /\ does = "expires" => old # 0 /\ tr[old].st = "pending" /\ ~Busy(old)
      /\ does = "exits" => old # 0 /\ tr[old].st = "open" /\ ~Busy(old)
      /\ new => nt < MaxTrades /\ Market[nt + 1] = t /\ (old = 0 \/ does = "expires")
      /\ nt' = IF new THEN nt + 1 ELSE nt
      /\ live' = [live EXCEPT ![t] = IF new THEN nt + 1 ELSE IF does = "expires" THEN 0 ELSE @]
  BY <1>p DEF ScanParts
<1>m. tr' = [i \in Trades |-> ScanMakes(i, old, does, new)]
  BY <1>p DEF ScanParts
<1>2. dirty' = TRUE /\ UNCHANGED <<exchange, file, balances, risk, control, task, history, budget>>
  BY DEF ScanBar
<1>3. UNCHANGED <<ords, pc, h, have, bought, today, late, clean, buys, newday, cut>>
  BY <1>2 DEF exchange, task, history, risk
<1>4. /\ nt \in 0..MaxTrades /\ old \in 0..MaxTrades /\ live \in [Tickers -> 0..MaxTrades]
      /\ old # 0 => old \in 1..nt /\ Coin(old) = t /\ tr[old].st \in {"pending", "open"} /\ old \in Trades
      /\ new => nt + 1 \in Trades /\ nt + 1 # old /\ Coin(nt + 1) = t
      /\ nt' \in 0..MaxTrades /\ nt <= nt'
  <2>1. nt \in 0..MaxTrades /\ old \in 0..MaxTrades /\ live \in [Tickers -> 0..MaxTrades]
    BY InvTypes DEF MemoryTypes
  <2>2. old # 0 => old \in 1..nt /\ Coin(old) = t /\ tr[old].st \in {"pending", "open"} /\ old \in Trades
    BY <2>1 DEF BuyInv, TradesMean, LiveMeans, Trades
  <2>3. new => nt + 1 \in Trades /\ nt + 1 # old /\ Coin(nt + 1) = t
    <3> HIDE DEF old
    <3> QED
      BY <1>1, <2>1, <2>2 DEF Trades, Coin
  <2>4. nt' \in 0..MaxTrades /\ nt <= nt'
    BY <1>1, <2>1
  <2> QED
    BY <2>1, <2>2, <2>3, <2>4
<1>5. \A s \in Tickers : live'[s] = IF s = t THEN (IF new THEN nt + 1 ELSE IF does = "expires" THEN 0 ELSE old) ELSE live[s]
  BY <1>1, <1>4
<1>6. ASSUME NEW i \in Trades
      PROVE  /\ tr'[i] \in Trade
             /\ i = old /\ does = "expires" => tr'[i].st = "cancelled"
             /\ i = old /\ does # "expires" => tr'[i].st = tr[i].st /\ tr'[i].vol = tr[i].vol
             /\ i # old /\ new /\ i = nt + 1 => tr'[i].st = "pending"
             /\ i # old /\ ~(new /\ i = nt + 1) => tr'[i] = tr[i]
  <2>1. PICK r : r = tr[i] /\ r \in Trade
    BY InvTypes DEF MemoryTypes
  <2>2. CASE i = old /\ does = "expires"
    <3>1. PICK s : s = [r EXCEPT !.st = "cancelled"]
      OBVIOUS
    <3>2. tr'[i] = s
      BY <1>m, <1>4, <2>1, <2>2, <3>1 DEF ScanMakes
    <3>3. s \in Trade /\ s.st = "cancelled"
      BY <2>1, <3>1 DEF Trade, Statuses
    <3> QED
      BY <1>4, <2>2, <3>2, <3>3
  <2>3. CASE i = old /\ does = "exits"
    <3>1. PICK s : s = [r EXCEPT !.pend = TRUE]
      OBVIOUS
    <3>2. tr'[i] = s
      BY <1>m, <1>4, <2>1, <2>3, <3>1 DEF ScanMakes
    <3>3. s \in Trade /\ s.st = r.st /\ s.vol = r.vol
      BY <2>1, <3>1 DEF Trade
    <3> QED
      BY <1>4, <2>1, <2>3, <3>2, <3>3
  <2>4. CASE i # old /\ new /\ i = nt + 1
    <3>1. PICK s : s = [st |-> "pending", vol |-> 0, pend |-> FALSE]
      OBVIOUS
    <3>2. tr'[i] = s
      BY <1>m, <2>4, <3>1 DEF ScanMakes
    <3>3. s \in Trade /\ s.st = "pending"
      BY <3>1 DEF Trade, Statuses
    <3> QED
      BY <2>4, <3>2, <3>3
  <2>5. CASE (i = old /\ does = "nothing") \/ (i # old /\ ~(new /\ i = nt + 1))
    <3>1. tr'[i] = r
      BY <1>m, <1>1, <1>4, <2>1, <2>5 DEF ScanMakes
    <3> QED
      BY <1>4, <2>1, <2>5, <3>1
  <2> QED
    BY <1>1, <2>2, <2>3, <2>4, <2>5
<1> HIDE DEF old
<1>7. MemoryTypes'
  <2>1. tr' \in [Trades -> Trade]
    <3>1. tr' = [i \in Trades |-> tr'[i]]
      BY <1>m
    <3> QED
      BY <1>6, <3>1
  <2>2. live' \in [Tickers -> 0..MaxTrades]
    <3>1. live' = [s \in Tickers |-> live'[s]]
      BY <1>1, <1>4
    <3>2. \A s \in Tickers : live'[s] \in 0..MaxTrades
      BY <1>1, <1>4, <1>5
    <3> QED
      BY <3>1, <3>2
  <2> QED
    BY <1>4, <2>1, <2>2 DEF MemoryTypes
<1>8. \A i \in Trades : Settled(i)' <=> Settled(i)
  BY <1>3 DEF Settled
\* The new trade is new, the one that expires is not in the hands of the task.
<1>9. new => tr[nt + 1].st = "none" /\ bought[nt + 1] = 0 /\ (clean => have[nt + 1] = 0)
  BY <1>4 DEF BuyInv, TradesMean, NewMeans
<1>10. does \in {"expires", "exits"} => Settled(old) /\ ~(pc \in Waiting /\ h.id = old)
  BY <1>1 DEF Busy, Settled, Waiting, old
<1>11. TradesMean'
  <2>1. NewMeans'
    <3> SUFFICES ASSUME NEW i \in Trades
        PROVE  /\ i > nt' => tr'[i].st = "none" /\ bought[i] = 0 /\ (clean => have[i] = 0)
               /\ tr'[i].st = "open" => tr'[i].vol > 0
      BY <1>3 DEF NewMeans
    <3>1. i > nt' => i > nt /\ i # old /\ ~(new /\ i = nt + 1)
      <4>1. new => nt' = nt + 1
        BY <1>1
      <4>2. i \in Nat /\ nt \in Nat /\ nt' \in Nat /\ i # 0
        BY <1>4, CoinOf
      <4> QED
        BY <1>4, <4>1, <4>2
    <3>2. tr'[i].st = "open" => tr[i].st = "open" /\ tr'[i].vol = tr[i].vol
      BY <1>6
    <3> QED
      BY <1>6, <3>1, <3>2 DEF BuyInv, TradesMean, NewMeans
  <2>2. LiveMeans'
    <3> SUFFICES ASSUME NEW s \in Tickers, live'[s] # 0
        PROVE  live'[s] \in 1..nt' /\ Coin(live'[s]) = s /\ tr'[live'[s]].st \in {"pending", "open"}
      BY DEF LiveMeans
    <3>1. CASE s = t /\ new
      BY <1>1, <1>4, <1>5, <1>6, <3>1
    <3>2. CASE s = t /\ ~new
      <4>1. live'[s] = old /\ does # "expires" /\ old # 0 /\ nt' = nt
        BY <1>1, <1>5, <3>2
      <4> QED
        BY <1>4, <1>6, <3>2, <4>1
    <3>3. CASE s # t
      <4>1. live'[s] = live[s] /\ live[s] \in 1..nt /\ Coin(live[s]) = s /\ tr[live[s]].st \in {"pending", "open"}
        BY <1>5, <3>3 DEF BuyInv, TradesMean, LiveMeans
      <4>2. live[s] \in Trades /\ live[s] # old /\ live[s] # nt + 1 /\ live[s] \in 1..nt'
        <5>1. live[s] # old
          BY <1>4, <3>3, <4>1
        <5>2. nt \in Nat /\ nt' \in Nat /\ nt <= nt' /\ nt <= MaxTrades
          BY <1>4, CoinOf
        <5>3. live[s] \in Nat /\ live[s] >= 1 /\ live[s] <= nt
          BY <4>1, <5>2
        <5> QED
          BY <5>1, <5>2, <5>3 DEF Trades
      <4> QED
        BY <1>6, <4>1, <4>2
    <3> QED
      BY <3>1, <3>2, <3>3
  <2>3. FileMeans'
    <3>1. \A s \in Tickers : file[s].id \in 1..nt => file[s].id \in 1..nt'
      BY <1>4
    <3> QED
      BY <1>2, <3>1 DEF BuyInv, TradesMean, FileMeans
  <2> QED
    BY <2>1, <2>2, <2>3 DEF TradesMean
<1>12. ListMeans'
  <2>1. ASSUME NEW i \in h.left
        PROVE  /\ i \in Trades /\ i # 0 /\ Coin(i) \in Tickers /\ tr[i].st # "none"
               /\ ~(new /\ i = nt + 1)
    <3>1. i \in Trades /\ i # 0 /\ Coin(i) \in Tickers
      BY CoinOf, InvTypes DEF TaskTypes, Jobs
    <3>2. tr[i].st # "none"
      BY DEF BuyInv, ListMeans, Over
    <3> QED
      BY <1>9, <3>1, <3>2
  <2>2. ASSUME NEW i \in h.left
        PROVE  \/ tr'[i].st \in {"pending", "open"} /\ live'[Coin(i)] = i
               \/ Over(i)' /\ (live'[Coin(i)] # 0 => tr'[live'[Coin(i)]].st = "pending")
    <3> DEFINE c == Coin(i)
    <3>1. \/ tr[i].st \in {"pending", "open"} /\ live[c] = i
          \/ tr[i].st \in {"closed", "cancelled"} /\ (live[c] # 0 => tr[live[c]].st = "pending")
      BY DEF BuyInv, ListMeans, Over
    <3>2. new => tr'[nt + 1].st = "pending"
      BY <1>4, <1>6
    <3>3. CASE c # t
      <4>1. live'[c] = live[c] /\ i # old
        BY <1>4, <1>5, <2>1, <3>3
      <4>2. tr'[i] = tr[i]
        BY <1>6, <2>1, <4>1
      <4>3. live[c] # 0 => tr'[live[c]] = tr[live[c]]
        <5> SUFFICES ASSUME live[c] # 0 PROVE tr'[live[c]] = tr[live[c]]
          OBVIOUS
        <5>1. live[c] \in 1..nt /\ Coin(live[c]) = c
          BY <2>1 DEF BuyInv, TradesMean, LiveMeans
        <5>2. live[c] \in Trades /\ live[c] # nt + 1
          BY <1>4, <5>1 DEF Trades
        <5>3. live[c] # old
          BY <1>4, <3>3, <5>1
        <5> QED
          BY <1>6, <5>2, <5>3
      <4> QED
        BY <3>1, <4>1, <4>2, <4>3 DEF Over
    <3>4. CASE c = t /\ i = old
      <4>1. CASE does = "expires"
        <5>1. tr'[i].st = "cancelled" /\ (live'[c] = 0 \/ (new /\ live'[c] = nt + 1))
          BY <1>5, <1>6, <2>1, <3>4, <4>1
        <5> QED
          BY <3>2, <5>1 DEF Over
      <4>2. CASE does # "expires"
        <5>1. tr'[i].st = tr[i].st /\ ~new /\ live'[c] = i
          BY <1>1, <1>5, <1>6, <2>1, <3>4, <4>2 DEF old
        <5>2. tr[i].st \in {"pending", "open"}
          BY <1>4, <2>1, <3>4
        <5> QED
          BY <5>1, <5>2
      <4> QED
        BY <4>1, <4>2
    <3>5. CASE c = t /\ i # old
      <4>1. tr'[i] = tr[i] /\ tr[i].st \in {"closed", "cancelled"} /\ (old # 0 => tr[old].st = "pending")
        BY <1>6, <2>1, <3>1, <3>5 DEF old
      <4>2. \/ live'[c] = 0
            \/ new /\ live'[c] = nt + 1
            \/ live'[c] = old /\ old # 0 /\ does # "expires"
        BY <1>5, <3>5
      <4>3. old # 0 /\ does # "expires" => tr'[old].st = tr[old].st
        BY <1>4, <1>6
      <4> QED
        BY <3>2, <4>1, <4>2, <4>3 DEF Over
    <3> QED
      BY <3>3, <3>4, <3>5
  <2>3. pc \in Waiting => /\ h.id \in h.left /\ tr'[h.id].st = tr[h.id].st
                          /\ tr'[h.id].vol = tr[h.id].vol
    <3> SUFFICES ASSUME pc \in Waiting
        PROVE  h.id \in h.left /\ tr'[h.id].st = tr[h.id].st /\ tr'[h.id].vol = tr[h.id].vol
      OBVIOUS
    <3>1. h.id \in h.left
      BY DEF BuyInv, ListMeans
    <3>2. h.id \in Trades /\ ~(new /\ h.id = nt + 1) /\ (does = "expires" => h.id # old)
      BY <1>10, <2>1, <3>1
    <3> QED
      BY <1>6, <3>1, <3>2
  <2>4. (Buying \cup Selling) \subseteq Waiting
    BY DEF Buying, Selling, Waiting, Landed
  <2>5. /\ \A i, j \in h.left : Coin(i) = Coin(j) => i = j
        /\ pc \in {"off", "idle"} => h.left = {}
        /\ pc \in Waiting => h.id \in h.left
        /\ pc \in Buying => tr'[h.id].st = "pending"
        /\ pc \in Selling => tr'[h.id].st = "open" /\ h.want \in 1..tr'[h.id].vol
        /\ pc \in {"sellSend", "sellLanded", "sellTold"} => h.qty \in 1..h.want
        /\ pc \in {"buyLanded", "sellLanded"} => \E o \in ords : o.by = "sent"
    BY <2>3, <2>4 DEF BuyInv, ListMeans
  <2> QED
    BY <1>3, <2>2, <2>5 DEF ListMeans
<1>13. NotBought'
  <2>1. \A i \in Trades : tr'[i].st = "pending" => tr[i].st = "pending" \/ (new /\ i = nt + 1)
    BY <1>6
  <2> QED
    BY <1>2, <1>3, <1>8, <1>9, <2>1 DEF BuyInv, NotBought
<1>14. ASSUME RecordInv PROVE RecordInv'
  <2>1. OrdersMean'
    <3>1. pc \in Waiting => tr'[h.id].vol = tr[h.id].vol
      <4>1. ASSUME pc \in Waiting PROVE tr'[h.id].vol = tr[h.id].vol
        <5>1. h.id \in Trades /\ tr[h.id].st # "none" /\ (does = "expires" => h.id # old)
          BY <1>10, <4>1, JobOf DEF BuyInv, ListMeans, Over
        <5> QED
          BY <1>6, <1>9, <5>1
      <4> QED
        BY <4>1
    <3> QED
      BY <1>3, <1>14, <3>1 DEF RecordInv, OrdersMean, Waiting, Landed
  <2>2. FileTrue'
    BY <1>2, <1>3, <1>8, <1>14 DEF RecordInv, FileTrue
  <2>3. MemoryTrue'
    <3> SUFFICES ASSUME clean, NEW i \in Trades, i \notin cut, Settled(i)
        PROVE  have[i] = IF live'[Coin(i)] = i /\ tr'[i].st = "open" THEN tr'[i].vol ELSE 0
      BY <1>3, <1>8 DEF MemoryTrue
    <3>1. have[i] = IF live[Coin(i)] = i /\ tr[i].st = "open" THEN tr[i].vol ELSE 0
      BY <1>1, <1>14 DEF RecordInv, MemoryTrue
    <3>2. i # 0 /\ Coin(i) \in Tickers
      BY CoinOf
    <3>3. CASE i = old /\ does = "expires"
      <4>1. tr[i].st = "pending" /\ tr'[i].st = "cancelled"
        BY <1>1, <1>6, <3>3 DEF old
      <4> QED
        BY <3>1, <4>1
    <3>4. CASE i = old /\ does # "expires"
      <4>1. tr'[i].st = tr[i].st /\ tr'[i].vol = tr[i].vol /\ Coin(i) = t /\ ~new
        BY <1>1, <1>4, <1>6, <3>2, <3>4 DEF old
      <4>2. live'[Coin(i)] = i /\ live[Coin(i)] = i
        BY <1>5, <3>4, <4>1 DEF old
      <4> QED
        BY <3>1, <4>1, <4>2
    <3>5. CASE i # old /\ new /\ i = nt + 1
      <4>1. tr'[i].st = "pending"
        BY <1>6, <3>5
      <4> QED
        BY <1>9, <3>5, <4>1
    <3>6. CASE i # old /\ ~(new /\ i = nt + 1)
      <4>1. tr'[i] = tr[i]
        BY <1>6, <3>6
      <4>2. live'[Coin(i)] = i <=> live[Coin(i)] = i
        <5>1. CASE Coin(i) = t
          BY <1>5, <3>2, <3>6, <5>1 DEF old
        <5>2. CASE Coin(i) # t
          BY <1>5, <3>2, <5>2
        <5> QED
          BY <5>1, <5>2
      <4> QED
        BY <3>1, <4>1, <4>2
    <3> QED
      BY <3>3, <3>4, <3>5, <3>6
  <2> QED
    BY <2>1, <2>2, <2>3 DEF RecordInv
<1>15. TradesKept
  BY <1>2, <1>7, <1>11, <1>12, <1>13, <1>14, InvTypes, TypesKept DEF TradesKept
<1>16. DayMeans'
  BY <1>3 DEF BuyInv, DayMeans
<1> QED
  BY <1>2, <1>3, <1>15, <1>16, KeptTypes, InvTypes, TypesKept

----------------------------------------------------------------------------
(* The theorems.                                                            *)

LEMMA SpotStutters == ASSUME BuyInv, UNCHANGED vars PROVE SafeNext
<1>1. /\ UNCHANGED <<exchange, memory, file, dirty, balances, risk, control, task, history, budget>>
      /\ UNCHANGED <<ords, have, bought, today, late, clean, buys, newday, pc, cut>>
  BY DEF vars, exchange, memory, balances, risk, control, task, history, budget
<1>2. TypeOK'
  BY <1>1, InvTypes, TypesKept, TypesOKNext
<1>3. DayMeans'
  BY <1>1 DEF BuyInv, DayMeans
<1> QED
  BY <1>1, <1>2, <1>3, BesideKeeps, InvTypes DEF SentStays, SafeNext

LEMMA SpotNext == ASSUME BuyInv, [Next]_vars PROVE SafeNext
<1>1. CASE NextDay \/ UpdateEquity
  BY <1>1, DaySteps
<1>2. CASE \/ Age \/ RefreshTick \/ Trip \/ TripClears \/ Cools \/ TripTimeout \/ ApplyGate \/ SigTerm
           \/ \E t \in Tickers : CooldownEnds(t) \/ PriceFalls(t) \/ PriceRises(t)
           \/ \E o \in ords : Execute(o) \/ SyncEnded(o) \/ SyncTimeout(o) \/ SyncGiveUp(o) \/ TripCancels(o)
  BY <1>2, BesideSteps
<1>3. CASE OnTick \/ DriveEnd
  BY <1>3, ListSteps
<1>4. CASE \E i \in Trades : DrivePop(i)
  BY <1>4, PopSteps
<1>5. CASE BuyRefused \/ SellRefused \/ SellFailed \/ \E i \in Trades : DriveSkip(i)
  BY <1>5, PlaceSteps
<1>6. CASE BuyBal \/ BuyFailed \/ \E i \in Trades : DriveCancel(i) \/ DriveEnter(i)
  BY <1>6, EntrySteps
<1>7. CASE SellBal \/ SellFresh \/ \E i \in Trades : DriveExit(i)
  BY <1>7, ExitSteps
<1>8. CASE BuyAccepted
  BY <1>8, AcceptedBuy
<1>9. CASE SellAccepted
  BY <1>9, AcceptedSell
<1>10. CASE BuyAnswered \/ SellAnswered \/ BuyLost \/ SellLost
  BY <1>10, AnswerSteps
<1>11. CASE BuyDone \/ SellDone
  BY <1>11, MarkSteps
<1>12. CASE ScanSave
  BY <1>12, ScanSaves
<1>13. CASE Stop \/ Crash
  BY <1>13, DownSteps
<1>14. CASE Restart
  BY <1>14, Restarts
<1>15. CASE \E t \in Tickers : ScanBar(t)
  BY <1>15, ScanBars
<1>16. CASE UNCHANGED vars
  BY <1>16, SpotStutters
<1> QED
  BY <1>1, <1>2, <1>3, <1>4, <1>5, <1>6, <1>7, <1>8, <1>9, <1>10, <1>11, <1>12, <1>13, <1>14, <1>15, <1>16
     DEF Next, Drive

LEMMA SpotInvariant == Spec => []BuyInv
<1>1. Init => BuyInv
  BY SpotFirst
<1>2. BuyInv /\ [Next]_vars => BuyInv'
  BY SpotNext DEF SafeNext
<1> QED
  BY <1>1, <1>2, PTL DEF Spec

\* The state of the Upbit bot keeps its type.
THEOREM SpotTyped == Spec => []TypeOK
<1>1. BuyInv => TypeOK
  BY DEF BuyInv
<1> QED
  BY <1>1, SpotInvariant, PTL

\* _drive_trade: a trade is bought at most once, over ticks that are given up,
\* scans, stops, kills and restarts, while no order has an outcome that the bot
\* cannot know.
THEOREM BoughtAtMostOnce == Spec => []BuysOnce
<1>1. BuyInv => BuysOnce
  BY DEF BuyInv, NotBought, BuysOnce
<1> QED
  BY <1>1, SpotInvariant, PTL

\* check_buy and _record_buy: the buys of a calendar day stay within
\* MAX_BUYS_PER_DAY, however midnight, restarts and awaited answers interleave.
THEOREM DayBounded == Spec => []BuysBounded
<1>1. BuyInv => BuysBounded
  BY DEF BuyInv, DayMeans, BuysBounded
<1> QED
  BY <1>1, SpotInvariant, PTL

\* mark_filled, mark_exit and _save: what was bought and not sold is what memory
\* and naked/state.json say, but for a trade whose sale was cut to a balance lower
\* than what was asked, and marked whole.
THEOREM RecordsHold == Spec => []RecordsTrue
<1>1. Init => BuyInv /\ RecordInv
  BY SpotFirst
<1>2. (BuyInv /\ RecordInv) /\ [Next]_vars => (BuyInv /\ RecordInv)'
  BY SpotNext DEF SafeNext
<1>3. BuyInv /\ RecordInv => RecordsTrue
  BY DEF BuyInv, RecordInv, RecordsTrue
<1> QED
  BY <1>1, <1>2, <1>3, PTL DEF Spec
=============================================================================
