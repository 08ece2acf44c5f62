-------------------------- MODULE UserEventsProofs --------------------------
(***************************************************************************)
(* Proofs about UserEvents for every value of its constants: whatever the  *)
(* order, repetition and loss of messages, what the tracker knows only     *)
(* goes forward and is right once every message has arrived, a target is   *)
(* marked when it is sold, and the fills table is right.                   *)
(***************************************************************************)
EXTENDS UserEvents, SequenceTheorems, TLAPS

USE EventsAssumption

----------------------------------------------------------------------------
(* Orders, ranks and messages. *)

LEMMA OrderParts ==
  /\ Conds \subseteq Orders
  /\ \A i \in Trades : /\ Entry(i) \in Orders /\ Entry(i) \notin Conds
                       /\ <<i, "TP">> \in Conds /\ <<i, "SL">> \in Conds
                       /\ Guards(i) \subseteq Conds
                       /\ Entry(i)[1] = i /\ Entry(i)[2] = "EN"
                       /\ <<i, "TP">>[1] = i /\ <<i, "TP">>[2] = "TP"
                       /\ <<i, "SL">>[1] = i /\ <<i, "SL">>[2] = "SL"
                       /\ <<i, "TP">> \in Guards(i) /\ <<i, "SL">> \in Guards(i)
                       /\ \A c \in Guards(i) : c[1] = i
  /\ \A o \in Orders : /\ o[1] \in Trades
                       /\ \/ o[2] = "EN" /\ o = Entry(o[1])
                          \/ o \in Conds
  /\ \A c \in Conds : /\ c[1] \in Trades /\ c[2] # "EN" /\ c \in Guards(c[1])
                      /\ \/ c[2] = "TP" /\ c = <<c[1], "TP">>
                         \/ c[2] = "SL" /\ c = <<c[1], "SL">>
  BY DEF Conds, Orders, Entry, Guards

LEMMA EntryIs ==
  ASSUME NEW i \in Trades
  PROVE  Entry(i) \in Orders /\ Entry(i) \notin Conds
  BY OrderParts

LEMMA CondIs ==
  ASSUME NEW c \in Conds
  PROVE  /\ c \in Orders /\ c[1] \in Trades
         /\ \/ c = <<c[1], "TP">> /\ c[2] = "TP"
            \/ c = <<c[1], "SL">> /\ c[2] = "SL"
  BY OrderParts

LEMMA GuardOf ==
  ASSUME NEW i \in Trades, NEW c \in Guards(i)
  PROVE  c[1] = i /\ c \in Conds
  BY OrderParts

LEMMA TradeOf ==
  ASSUME NEW o, NEW i, \/ o = Entry(i) \/ o = <<i, "TP">> \/ o = <<i, "SL">>
  PROVE  o[1] = i
  BY DEF Entry

LEMMA OrderRanks ==
  /\ OrderRank \in [Status -> 0..2]
  /\ OrderRank["NEW"] = 0 /\ OrderRank["PARTIALLY_FILLED"] = 1
  BY DEF OrderRank, Status, PlainStatus, AlgoStatus

LEMMA AlgoRanks == AlgoRank \in [Status -> 0..3]
  BY DEF AlgoRank, Status, PlainStatus, AlgoStatus

LEMMA OrderMsgTyped ==
  ASSUME NEW o \in Orders, NEW s \in Status, NEW cum \in 0..Qty, NEW last \in 0..Qty,
         NEW at \in Nat
  PROVE  OrderMsg(o, s, cum, last, at) \in Message
  BY DEF OrderMsg, Message

LEMMA AlgoMsgTyped ==
  ASSUME NEW c \in Conds, NEW s \in Status, NEW q \in 0..Qty, NEW l \in BOOLEAN,
         NEW at \in Nat
  PROVE  AlgoMsg(c, s, q, l, at) \in Message
  BY OrderParts DEF AlgoMsg, Message

LEMMA StatusNames ==
  /\ "NEW" \in Status /\ "PARTIALLY_FILLED" \in Status /\ "FILLED" \in Status
  /\ "EXPIRED" \in Status /\ "TRIGGERED" \in Status /\ "FINISHED" \in Status
  /\ "CANCELED" \in Status
  /\ PlainStatus \subseteq Status /\ AlgoStatus \subseteq Status
  BY DEF Status, PlainStatus, AlgoStatus

LEMMA FillTyped ==
  ASSUME NEW o \in Orders, NEW c \in 1..Qty
  PROVE  <<o, c>> \in Fills
  BY DEF Fills

LEMMA FillParts ==
  ASSUME NEW f \in Fills
  PROVE  f[1] \in Orders /\ f[2] \in 1..Qty /\ f = <<f[1], f[2]>>
  BY DEF Fills

----------------------------------------------------------------------------
(* The types, by what a step writes. *)

PlainRec == [st: PlainStatus \cup {"none"}, cum: 0..Qty, qty: 0..Qty]
Tracks   == [st: Status \cup {"none"}, cum: 0..Qty, ms: Nat]
Phases   == {"none", "pending", "open", "closed"}

ExchangeTyped ==
  /\ plain \in [Orders -> PlainRec] /\ algo \in [Conds -> AlgoStatus \cup {"none"}]
  /\ fills \subseteq Fills
NetTyped == now \in Nat /\ net \subseteq Message /\ conn \in BOOLEAN /\ gap \in BOOLEAN
RowsTyped == row \in [Orders -> Status \cup {"none"}] /\ rowLink \subseteq Conds
BookTyped == book \in [Fills -> 0..NT + 1]
RecordTyped ==
  phase \in [Trades -> Phases] /\ marked \subseteq Trades /\ synced \subseteq Trades
MemoryTyped ==
  /\ seen \in Seq(Message)
  /\ trk \in [Orders -> Tracks] /\ tra \in [Conds -> Status \cup {"none"}]
  /\ link \subseteq Conds /\ counted \subseteq Fills
TaskTyped == pc \in {"free", "entering", "act"} /\ job \in Message
CountTyped == lives \in Nat /\ trouble \in 0..MaxTrouble

LEMMA TypeParts ==
  TypeOK <=> /\ ExchangeTyped /\ NetTyped /\ RowsTyped /\ BookTyped
             /\ RecordTyped /\ MemoryTyped /\ TaskTyped /\ CountTyped
  BY DEF TypeOK, ExchangeTyped, NetTyped, RowsTyped, BookTyped, RecordTyped,
         MemoryTyped, TaskTyped, CountTyped, PlainRec, Tracks, Phases

LEMMA TypePartsNext ==
  ASSUME ExchangeTyped', NetTyped', RowsTyped', BookTyped', RecordTyped', MemoryTyped',
         TaskTyped', CountTyped'
  PROVE  TypeOK'
  BY DEF TypeOK, ExchangeTyped, NetTyped, RowsTyped, BookTyped, RecordTyped,
         MemoryTyped, TaskTyped, CountTyped, PlainRec, Tracks, Phases

\* What a step leaves alone keeps its type.
LEMMA Kept ==
  ASSUME TypeOK
  PROVE  /\ UNCHANGED exchange => ExchangeTyped'
         /\ UNCHANGED network => NetTyped'
         /\ UNCHANGED orders => RowsTyped'
         /\ UNCHANGED book => BookTyped'
         /\ UNCHANGED record => RecordTyped'
         /\ UNCHANGED <<seen, tracker>> => MemoryTyped'
         /\ UNCHANGED task => TaskTyped'
         /\ UNCHANGED <<lives, trouble>> => CountTyped'
  <1>1. UNCHANGED exchange => ExchangeTyped'
    BY TypeParts DEF exchange, ExchangeTyped
  <1>2. UNCHANGED network => NetTyped'
    BY TypeParts DEF network, NetTyped
  <1>3. UNCHANGED orders => RowsTyped'
    BY TypeParts DEF orders, RowsTyped
  <1>4. UNCHANGED book => BookTyped'
    BY TypeParts DEF BookTyped
  <1>5. UNCHANGED record => RecordTyped'
    BY TypeParts DEF record, RecordTyped
  <1>6. UNCHANGED <<seen, tracker>> => MemoryTyped'
    BY TypeParts DEF tracker, MemoryTyped
  <1>7. UNCHANGED task => TaskTyped'
    BY TypeParts DEF task, TaskTyped
  <1>8. UNCHANGED <<lives, trouble>> => CountTyped'
    BY TypeParts DEF CountTyped
  <1> QED BY <1>1, <1>2, <1>3, <1>4, <1>5, <1>6, <1>7, <1>8

LEMMA EmitTyped ==
  ASSUME TypeOK, NEW msgs \in SUBSET Message, NEW clock \in Nat, Emit(msgs, clock)
  PROVE  NetTyped'
  BY TypeParts DEF Emit, NetTyped

LEMMA TroubleTyped ==
  ASSUME TypeOK, UNCHANGED lives, Trouble \/ UNCHANGED trouble
  PROVE  CountTyped'
  BY TypeParts DEF Trouble, CountTyped

LEMMA NoJobTyped == NoJob \in Message
  <1>1. 1 \in Trades
    BY DEF Trades
  <1>2. Entry(1) \in Orders
    BY <1>1, OrderParts
  <1>3. 0 \in 0..Qty /\ 0 \in Nat
    OBVIOUS
  <1> QED BY <1>2, <1>3, OrderMsgTyped, StatusNames DEF NoJob

LEMMA SeenTyped ==
  ASSUME NEW s \in Seq(Message), NEW m \in Message
  PROVE  /\ Append(s, m) \in Seq(Message)
         /\ Tail(Append(s, m)) \in Seq(Message)
  <1>1. Append(s, m) \in Seq(Message) /\ Append(s, m) # << >>
    BY AppendProperties
  <1> QED BY <1>1, HeadTailProperties

----------------------------------------------------------------------------
(* What follows from the invariant. *)

LEMMA PlainTyped ==
  ASSUME TypeOK, NEW o \in Orders
  PROVE  /\ plain[o] \in PlainRec /\ plain[o].st \in PlainStatus \cup {"none"}
         /\ plain[o].cum \in 0..Qty /\ plain[o].qty \in 0..Qty
  BY TypeParts DEF ExchangeTyped, PlainRec

LEMMA MessageParts ==
  ASSUME NEW m \in Message
  PROVE  /\ m.kind \in {"order", "algo"} /\ m.id \in Orders /\ m.st \in Status
         /\ m.cum \in 0..Qty /\ m.last \in 0..Qty /\ m.link \in BOOLEAN /\ m.at \in Nat
  BY DEF Message

\* An order that was not placed has executed nothing.
LEMMA NotPlaced ==
  ASSUME IInv, NEW f \in fills
  PROVE  plain[f[1]] # NoPlain /\ f \in Fills
  BY TypeParts DEF IInv, Books, NoPlain, ExchangeTyped

\* The orders of a trade that has not begun have executed nothing.
LEMMA NotBegun ==
  ASSUME IInv, NEW f \in fills
  PROVE  /\ phase[f[1][1]] # "none"
         /\ f[1] \in Conds => phase[f[1][1]] # "pending"
  <1>1. f \in Fills /\ f[1] \in Orders /\ plain[f[1]] # NoPlain
    BY NotPlaced, FillParts
  <1>2. CASE f[1] = Entry(f[1][1])
    BY <1>1, <1>2, OrderParts DEF IInv, InTurn
  <1>3. CASE f[1] \in Conds
    BY <1>1, <1>3, OrderParts DEF IInv, InTurn
  <1> QED BY <1>1, <1>2, <1>3, OrderParts

\* While a trade is in progress the others that have executed anything are
\* closed.
LEMMA OthersClosed ==
  ASSUME IInv, NEW i \in Trades, phase[i] \in {"pending", "open"},
         NEW f \in fills, f[1][1] # i
  PROVE  phase[f[1][1]] = "closed"
  <1>1. f[1] \in Orders /\ f[1][1] \in Trades
    BY NotPlaced, FillParts, OrderParts
  <1>2. phase[f[1][1]] # "none"
    BY NotBegun
  <1>3. f[1][1] < i \/ i < f[1][1]
    BY <1>1 DEF Trades
  <1> QED BY <1>1, <1>2, <1>3 DEF IInv, InTurn

\* No order of a closed trade is at work.
LEMMA ClosedAtRest ==
  ASSUME IInv, NEW o \in Orders, phase[o[1]] = "closed"
  PROVE  ~Live(o)
  <1>1. CASE o = Entry(o[1])
    BY <1>1, OrderParts DEF IInv, Settled
  <1>2. CASE o \in Conds
    <2> DEFINE i == o[1]
               tp == <<i, "TP">>
               sl == <<i, "SL">>
    <2>1. /\ i \in Trades /\ tp \in Orders /\ sl \in Orders /\ Entry(i) \in Orders
          /\ o = tp \/ o = sl
      BY <1>2, OrderParts
    <2>2. plain[Entry(i)].cum = plain[tp].cum + plain[sl].cum
      BY <2>1 DEF IInv, Settled, Flat
    <2>3. plain[tp].qty + plain[sl].qty <= plain[Entry(i)].cum
      BY <2>1 DEF IInv, Sizes
    <2>4. /\ plain[tp].cum <= plain[tp].qty /\ plain[sl].cum <= plain[sl].qty
          /\ Live(o) => plain[o].cum < plain[o].qty
      BY <2>1 DEF IInv, Sizes
    <2>5. /\ plain[tp].cum \in Nat /\ plain[tp].qty \in Nat
          /\ plain[sl].cum \in Nat /\ plain[sl].qty \in Nat /\ plain[Entry(i)].cum \in Nat
      BY <2>1, PlainTyped DEF IInv
    <2> HIDE DEF i, tp, sl
    <2> QED BY <2>1, <2>2, <2>3, <2>4, <2>5
  <1> QED BY <1>1, <1>2, OrderParts

LEMMA EmitNet ==
  ASSUME NEW msgs, NEW clock, Emit(msgs, clock), NEW m \in net'
  PROVE  m \in net \/ m \in msgs
  BY DEF Emit

\* What is told stays true while orders that are executed stay executed.
LEMMA NetHonest ==
  ASSUME IInv, fills \subseteq fills',
         \A o \in Orders : plain[o].st = "FILLED" => plain'[o].st = "FILLED",
         \A m \in net' : m \in net \/ Truthful(m)'
  PROVE  /\ \A m \in net' : Truthful(m)'
         /\ \A m \in Message : Truthful(m) => Truthful(m)'
  <1>1. \A m \in Message : Truthful(m) => Truthful(m)'
    BY MessageParts DEF Truthful
  <1>2. net \subseteq Message
    BY TypeParts DEF IInv, NetTyped
  <1> QED BY <1>1, <1>2 DEF IInv, Honest

LEMMA HonestGrows ==
  ASSUME IInv, fills \subseteq fills',
         \A o \in Orders : plain[o].st = "FILLED" => plain'[o].st = "FILLED",
         \A m \in net' : m \in net \/ Truthful(m)',
         marked' = marked, link' = link,
         pc' = "act" => pc = "act" /\ job' = job
  PROVE  Honest'
  <1>1. /\ \A m \in net' : Truthful(m)'
        /\ \A m \in Message : Truthful(m) => Truthful(m)'
    BY NetHonest
  <1>2. job \in Message
    BY TypeParts DEF IInv, TaskTyped
  <1>3. ASSUME pc' = "act"
        PROVE  Truthful(job)' /\ (MarksTarget(job)' => plain'[job'.id].st = "FILLED")
    <2>1. pc = "act" /\ job' = job /\ Truthful(job)
      BY <1>3 DEF IInv, Honest
    <2>2. Truthful(job)'
      BY <2>1, <1>1, <1>2
    <2>3. MarksTarget(job)' => MarksTarget(job)
      BY <2>1 DEF MarksTarget
    <2>4. job.id \in Orders
      BY <1>2, MessageParts
    <2> QED BY <2>1, <2>2, <2>3, <2>4 DEF IInv, Honest
  <1>4. \A i \in Trades : <<i, "TP">> \in Orders
    BY OrderParts
  <1>5. \A i \in marked' : plain'[<<i, "TP">>].st = "FILLED"
    BY <1>4, TypeParts DEF IInv, Honest, RecordTyped
  <1> QED BY <1>1, <1>3, <1>5 DEF Honest

\* Steps that neither trade nor record.
LEMMA StandStill ==
  ASSUME IInv, UNCHANGED <<exchange, phase, synced, book>>
  PROVE  InTurn' /\ Sizes' /\ Settled' /\ Books'
  <1>1. InTurn'
    BY DEF IInv, InTurn, exchange
  <1>2. Sizes'
    BY DEF IInv, Sizes, Live, exchange
  <1>3. Settled'
    BY DEF IInv, Settled, Live, Flat, exchange
  <1>4. Books'
    BY DEF IInv, Books, BooksComplete, exchange
  <1> QED BY <1>1, <1>2, <1>3, <1>4

----------------------------------------------------------------------------
(* Steps of the stream, refreshed rows and crashes. *)

LEMMA DisconnectInv == ASSUME IInv, Disconnect PROVE IInv'
  <1>1. net' \subseteq net /\ gap' \in BOOLEAN /\ conn' = FALSE
    BY DEF Disconnect
  <1>2. NetTyped' /\ CountTyped'
    BY <1>1, TypeParts, TroubleTyped DEF Disconnect, IInv, NetTyped
  <1>3. TypeOK'
    BY <1>2, Kept, TypePartsNext DEF Disconnect, IInv
  <1>4. Honest'
    BY <1>1, HonestGrows DEF Disconnect, exchange, record, tracker, task
  <1>5. InTurn' /\ Sizes' /\ Settled' /\ Books'
    BY StandStill DEF Disconnect, record
  <1> QED BY <1>3, <1>4, <1>5 DEF IInv

LEMMA ReconnectInv == ASSUME IInv, Reconnect PROVE IInv'
  <1>1. NetTyped'
    BY TypeParts DEF Reconnect, IInv, NetTyped
  <1>2. TypeOK'
    BY <1>1, Kept, TypePartsNext DEF Reconnect, IInv
  <1>3. Honest'
    BY HonestGrows DEF Reconnect, exchange, record, tracker, task
  <1>4. InTurn' /\ Sizes' /\ Settled' /\ Books'
    BY StandStill DEF Reconnect, record
  <1> QED BY <1>2, <1>3, <1>4 DEF IInv

LEMMA TakeKeeps ==
  ASSUME TypeOK, NEW m, Take(m)
  PROVE  /\ NetTyped' /\ CountTyped' /\ net' \subseteq net
         /\ pc = "free" /\ m \in net /\ m \in Message
  <1>1. m \in Message /\ net' \subseteq net /\ NetTyped'
    BY TypeParts DEF Take, NetTyped
  <1>2. CountTyped'
    BY TroubleTyped DEF Take
  <1> QED BY <1>1, <1>2 DEF Take

LEMMA RepeatInv == ASSUME IInv, NEW m, Repeat(m) PROVE IInv'
  <1>1. NetTyped' /\ CountTyped' /\ net' \subseteq net
    BY TakeKeeps DEF Repeat, IInv
  <1>2. TypeOK'
    BY <1>1, Kept, TypePartsNext DEF Repeat, IInv
  <1>3. Honest'
    BY <1>1, HonestGrows DEF Repeat, exchange, record, tracker, task
  <1>4. InTurn' /\ Sizes' /\ Settled' /\ Books'
    BY StandStill DEF Repeat, record
  <1> QED BY <1>2, <1>3, <1>4 DEF IInv

LEMMA RefreshRowInv == ASSUME IInv, NEW o \in Orders, RefreshRow(o) PROVE IInv'
  <1>1. plain[o].st \in Status \cup {"none"}
    BY PlainTyped, StatusNames DEF IInv
  <1>2. o \in Conds => algo[o] \in Status \cup {"none"}
    BY TypeParts, StatusNames DEF IInv, ExchangeTyped
  <1>3. RowsTyped'
    BY <1>1, <1>2, TypeParts DEF RefreshRow, IInv, RowsTyped
  <1>4. TypeOK'
    BY <1>3, Kept, TypePartsNext DEF RefreshRow, IInv
  <1>5. Honest'
    BY HonestGrows DEF RefreshRow, exchange, record, tracker, task, network
  <1>6. InTurn' /\ Sizes' /\ Settled' /\ Books'
    BY StandStill DEF RefreshRow, record
  <1> QED BY <1>4, <1>5, <1>6 DEF IInv

LEMMA CrashInv == ASSUME IInv, Crash PROVE IInv'
  <1>1. NetTyped' /\ CountTyped'
    <2>1. NetTyped /\ CountTyped
      BY TypeParts DEF IInv
    <2>2. NetTyped'
      BY <2>1 DEF Crash, NetTyped
    <2>3. CountTyped'
      BY <2>1 DEF Crash, Trouble, CountTyped
    <2> QED BY <2>2, <2>3
  <1>2. MemoryTyped'
    BY EmptySeq DEF Crash, MemoryTyped, NoTracked, Tracks
  <1>3. TaskTyped'
    BY NoJobTyped DEF Crash, TaskTyped
  <1>4. TypeOK'
    BY <1>1, <1>2, <1>3, Kept, TypePartsNext DEF Crash, IInv
  <1>5. Honest'
    BY DEF Crash, IInv, Honest, exchange, record
  <1>6. InTurn' /\ Sizes' /\ Settled' /\ Books'
    BY StandStill DEF Crash, record
  <1> QED BY <1>4, <1>5, <1>6 DEF IInv

----------------------------------------------------------------------------
(* Steps of the exchange. *)

LEMMA OrderTruth ==
  ASSUME NEW o, NEW st, NEW cum, NEW last, NEW at, NEW m,
         m = OrderMsg(o, st, cum, last, at),
         last > 0 => <<o, cum>> \in fills', st = "FILLED" => plain'[o].st = "FILLED"
  PROVE  Truthful(m)'
  BY DEF Truthful, IsTrade, FillOf, OrderMsg

LEMMA AlgoTruth ==
  ASSUME NEW c \in Conds, NEW st, NEW q, NEW l, NEW at, NEW m,
         m = AlgoMsg(c, st, q, l, at),
         st = "FINISHED" /\ q > 0 => plain'[c].st = "FILLED"
  PROVE  Truthful(m)'
  BY DEF Truthful, IsTrade, AlgoMsg

LEMMA OtherTruth ==
  ASSUME NEW o, NEW c \in Conds, NEW st, NEW cum, NEW q, NEW l, NEW at, NEW m,
         \/ st # "FILLED" /\ m = OrderMsg(o, st, cum, 0, at)
         \/ st # "FINISHED" /\ m = AlgoMsg(c, st, q, l, at)
  PROVE  Truthful(m)'
  BY DEF Truthful, IsTrade, OrderMsg, AlgoMsg

LEMMA FillInv == ASSUME IInv, NEW o \in Orders, Fill(o) PROVE IInv'
  <1> DEFINE s(c) == IF c = plain[o].qty THEN "FILLED" ELSE "PARTIALLY_FILLED"
             msg(c) == OrderMsg(o, s(c), c, c - plain[o].cum, now + 1)
  <1>1. PICK c \in 1..Qty :
          /\ Live(o) /\ plain[o].cum < c /\ c <= plain[o].qty
          /\ plain' = [plain EXCEPT ![o] = [st |-> s(c), cum |-> c, qty |-> plain[o].qty]]
          /\ fills' = fills \cup {<<o, c>>}
          /\ Emit({msg(c)}, now + 1) /\ UNCHANGED algo /\ OnlyExchange
    BY DEF Fill
  <1>2. /\ plain \in [Orders -> PlainRec] /\ plain[o] \in PlainRec
        /\ plain[o].cum \in 0..Qty /\ plain[o].qty \in 0..Qty /\ now \in Nat
    BY PlainTyped, TypeParts DEF IInv, ExchangeTyped, NetTyped
  <1>3. s(c) \in PlainStatus /\ s(c) \in Status
    BY StatusNames DEF PlainStatus
  <1>4. /\ c \in 0..Qty /\ c - plain[o].cum \in 0..Qty /\ now + 1 \in Nat
    BY <1>1, <1>2
  <1>5. /\ plain'[o].st = s(c) /\ plain'[o].cum = c /\ plain'[o].qty = plain[o].qty
        /\ \A x \in Orders : x # o => plain'[x] = plain[x]
    BY <1>1, <1>2
  <1>6. TypeOK'
    <2>1. msg(c) \in Message
      BY <1>3, <1>4, OrderMsgTyped
    <2>2. NetTyped'
      BY <1>1, <1>4, <2>1, EmitTyped DEF IInv
    <2>3. [st |-> s(c), cum |-> c, qty |-> plain[o].qty] \in PlainRec
      BY <1>2, <1>3, <1>4 DEF PlainRec
    <2>4. ExchangeTyped'
      BY <1>1, <1>2, <2>3, FillTyped, TypeParts DEF IInv, ExchangeTyped
    <2> QED BY <1>1, <2>2, <2>4, Kept, TypePartsNext DEF IInv, OnlyExchange
  <1>7. o[1] \in Trades /\ phase[o[1]] # "closed" /\ phase[o[1]] # "none"
    <2>1. plain[o].st # "none"
      BY <1>1 DEF Live
    <2>2. phase[o[1]] # "closed"
      BY <1>1, ClosedAtRest
    <2>3. phase[o[1]] # "none"
      BY <2>1, OrderParts DEF IInv, InTurn, NoPlain
    <2> QED BY <2>2, <2>3, OrderParts
  <1>8. phase' = phase /\ synced' = synced /\ marked' = marked /\ book' = book
    BY <1>1 DEF OnlyExchange, record
  <1>9. InTurn'
    <2>1. o \in Conds => algo[o] \notin {"none", "NEW", "CANCELED"}
      BY <1>1 DEF IInv, InTurn, Live, NoPlain
    <2>2. \A i, j \in Trades : phase[i] # "none" /\ j < i => phase[j] = "closed"
      BY DEF IInv, InTurn
    <2>3. \A i \in Trades : phase[i] = "none" => plain'[Entry(i)] = NoPlain
      <3>1. \A i \in Trades : phase[i] = "none" => o # Entry(i) /\ Entry(i) \in Orders
        BY <1>7, EntryIs, TradeOf
      <3> QED BY <1>5, <3>1 DEF IInv, InTurn
    <2>4. \A i \in Trades : phase[i] \in {"none", "pending"} =>
            \A c_1 \in Guards(i) : algo[c_1] = "none"
      BY DEF IInv, InTurn
    <2>5. \A c_1 \in Conds : algo[c_1] \in {"none", "NEW", "CANCELED"} =>
            plain'[c_1] = NoPlain
      BY <1>5, <2>1, OrderParts DEF IInv, InTurn
    <2> QED BY <1>1, <1>8, <2>2, <2>3, <2>4, <2>5 DEF InTurn
  <1>10. Sizes'
    <2>1. \A x \in Orders : /\ plain'[x].cum <= plain'[x].qty
                            /\ Live(x)' => plain'[x].cum < plain'[x].qty
      BY <1>1, <1>2, <1>5 DEF IInv, Sizes, Live
    <2>2. \A x \in Conds : ~Live(x)' => plain'[x].cum = plain'[x].qty
      BY <1>1, <1>5, OrderParts DEF IInv, Sizes, Live
    <2>3. ASSUME NEW i \in Trades
          PROVE  plain'[<<i, "TP">>].qty + plain'[<<i, "SL">>].qty <= plain'[Entry(i)].cum
      <3>1. /\ plain'[<<i, "TP">>].qty = plain[<<i, "TP">>].qty
            /\ plain'[<<i, "SL">>].qty = plain[<<i, "SL">>].qty
        BY <1>5, OrderParts
      <3>2. plain'[Entry(i)].cum >= plain[Entry(i)].cum
        <4>1. CASE Entry(i) = o
          BY <4>1, <1>1, <1>2, <1>5
        <4>2. CASE Entry(i) # o
          <5>1. plain'[Entry(i)] = plain[Entry(i)] /\ plain[Entry(i)].cum \in 0..Qty
            BY <4>2, <1>5, OrderParts, PlainTyped DEF IInv
          <5> QED BY <5>1
        <4> QED BY <4>1, <4>2
      <3>3. /\ plain[<<i, "TP">>].qty + plain[<<i, "SL">>].qty <= plain[Entry(i)].cum
            /\ plain[<<i, "TP">>].qty \in Nat /\ plain[<<i, "SL">>].qty \in Nat
            /\ plain[Entry(i)].cum \in Nat /\ plain'[Entry(i)].cum \in Nat
        BY <1>4, <1>5, OrderParts, PlainTyped DEF IInv, Sizes
      <3> QED BY <3>1, <3>2, <3>3
    <2> QED BY <2>1, <2>2, <2>3 DEF Sizes
  <1>11. Settled'
    <2>1. \A i \in Trades : phase[i] = "closed" =>
            /\ o # Entry(i) /\ o # <<i, "TP">> /\ o # <<i, "SL">>
      BY <1>7, TradeOf
    <2>2. \A i \in Trades : phase[i] \in {"open", "closed"} => o # Entry(i)
      BY <1>1 DEF IInv, Settled
    <2>3. \A i \in Trades : phase[i] \in {"open", "closed"} => ~Live(Entry(i))'
      BY <1>5, <2>2, OrderParts, ZenonT(30) DEF IInv, Settled, Live
    <2>4. \A i \in Trades : phase[i] = "closed" => Flat(i)'
      BY <1>5, <2>1, OrderParts DEF IInv, Settled, Flat
    <2> QED BY <1>8, <2>3, <2>4 DEF Settled
  <1>12. Honest'
    <2>1. \A x \in Orders : plain[x].st = "FILLED" => plain'[x].st = "FILLED"
      BY <1>1, <1>5 DEF Live
    <2>2. ASSUME NEW m \in net', m \notin net PROVE Truthful(m)'
      <3>1. m = msg(c)
        BY <1>1, <2>2, EmitNet
      <3> QED BY <3>1, <1>1, <1>5, OrderTruth
    <2> QED BY <1>1, <1>8, <2>1, <2>2, HonestGrows DEF OnlyExchange, tracker, task
  <1>13. Books'
    <2>1. <<o, c>> \in Fills /\ <<o, c>>[1] = o
      BY FillTyped
    <2>2. o[1] \notin synced
      BY <1>7 DEF IInv, Books
    <2>3. \A f \in fills : f \in Fills /\ f[1] \in Orders
      BY NotPlaced, FillParts
    <2>4. \A f \in fills' : plain'[f[1]].st # "none"
      BY <1>1, <1>3, <1>5, <2>1, <2>3 DEF IInv, Books, PlainStatus
    <2>5. \A f \in fills' : f \in fills \/ (f = <<o, c>> /\ book[f] = Missing)
      BY <1>1, <2>1 DEF IInv, Books
    <2> QED BY <1>1, <1>8, <2>1, <2>2, <2>4, <2>5 DEF IInv, Books, BooksComplete
  <1> QED BY <1>6, <1>9, <1>10, <1>11, <1>12, <1>13 DEF IInv

LEMMA ExpireInv == ASSUME IInv, NEW i \in Trades, Expire(i) PROVE IInv'
  <1> DEFINE o == Entry(i)
             new == [st |-> "EXPIRED", cum |-> plain[o].cum, qty |-> plain[o].qty]
             msg == OrderMsg(o, "EXPIRED", plain[o].cum, 0, now + 1)
  <1>1. /\ Live(o) /\ plain' = [plain EXCEPT ![o] = new]
        /\ Emit({msg}, now + 1) /\ UNCHANGED <<algo, fills>> /\ OnlyExchange
    BY DEF Expire
  <1>2. /\ plain \in [Orders -> PlainRec] /\ o \in Orders /\ o \notin Conds
        /\ plain[o].cum \in 0..Qty /\ plain[o].qty \in 0..Qty
        /\ now + 1 \in Nat /\ 0 \in 0..Qty
    <2>1. ExchangeTyped /\ now \in Nat
      BY TypeParts DEF IInv, NetTyped
    <2>2. o \in Orders /\ o \notin Conds
      BY EntryIs
    <2> QED BY <2>1, <2>2, PlainTyped DEF IInv, ExchangeTyped
  <1> HIDE DEF o
  <1>3. /\ plain'[o].st = "EXPIRED" /\ plain'[o].cum = plain[o].cum
        /\ plain'[o].qty = plain[o].qty
        /\ \A x \in Orders : x # o => plain'[x] = plain[x]
    BY <1>1, <1>2
  <1>4. \A x \in Orders : /\ plain'[x].cum = plain[x].cum /\ plain'[x].qty = plain[x].qty
                          /\ Live(x)' => Live(x)
    BY <1>3 DEF Live
  <1>5. \A c \in Conds : plain'[c] = plain[c]
    BY <1>2, <1>3, OrderParts
  <1>6. phase' = phase /\ synced' = synced /\ marked' = marked /\ book' = book
    BY <1>1 DEF OnlyExchange, record
  <1>7. TypeOK'
    <2>1. msg \in Message
      BY <1>2, OrderMsgTyped, StatusNames
    <2>2. NetTyped'
      BY <1>1, <1>2, <2>1, EmitTyped DEF IInv
    <2>3. new \in PlainRec
      BY <1>2 DEF PlainRec, PlainStatus
    <2>4. ExchangeTyped'
      BY <1>1, <1>2, <2>3, TypeParts DEF IInv, ExchangeTyped
    <2> QED BY <1>1, <2>2, <2>4, Kept, TypePartsNext DEF IInv, OnlyExchange
  <1>8. InTurn'
    <2>1. \A j \in Trades : phase[j] = "none" => o # Entry(j) /\ Entry(j) \in Orders
      BY <1>1, EntryIs DEF IInv, InTurn, Live, NoPlain
    <2> QED BY <1>1, <1>3, <1>5, <1>6, <2>1 DEF IInv, InTurn
  <1>9. Sizes'
    <2>1. \A x \in Orders : /\ plain'[x].cum <= plain'[x].qty
                            /\ Live(x)' => plain'[x].cum < plain'[x].qty
      BY <1>4 DEF IInv, Sizes
    <2>2. \A c \in Conds : ~Live(c)' => plain'[c].cum = plain'[c].qty
      BY <1>5 DEF IInv, Sizes, Live
    <2>3. \A j \in Trades :
            plain'[<<j, "TP">>].qty + plain'[<<j, "SL">>].qty <= plain'[Entry(j)].cum
      BY <1>4, OrderParts DEF IInv, Sizes
    <2> QED BY <2>1, <2>2, <2>3 DEF Sizes
  <1>10. Settled'
    <2>1. \A j \in Trades : phase[j] \in {"open", "closed"} => ~Live(Entry(j))'
      BY <1>4, OrderParts DEF IInv, Settled
    <2>2. \A j \in Trades : phase[j] = "closed" => Flat(j)'
      BY <1>4, OrderParts DEF IInv, Settled, Flat
    <2> QED BY <1>6, <2>1, <2>2 DEF Settled
  <1>11. Honest'
    <2>1. \A x \in Orders : plain[x].st = "FILLED" => plain'[x].st = "FILLED"
      BY <1>1, <1>3 DEF Live
    <2>2. ASSUME NEW m \in net', m \notin net PROVE Truthful(m)'
      <3>1. m = msg
        BY <1>1, <2>2, EmitNet
      <3>2. <<i, "TP">> \in Conds
        BY OrderParts
      <3> QED BY <3>1, <3>2, OtherTruth
    <2> QED BY <1>1, <1>6, <2>1, <2>2, HonestGrows DEF OnlyExchange, tracker, task
  <1>12. Books'
    <2>1. \A f \in fills : plain'[f[1]].st # "none"
      BY <1>3, NotPlaced, FillParts DEF IInv, Books
    <2> QED BY <1>1, <1>6, <2>1 DEF IInv, Books, BooksComplete
  <1> QED BY <1>7, <1>8, <1>9, <1>10, <1>11, <1>12 DEF IInv

LEMMA TriggerInv == ASSUME IInv, NEW c \in Conds, Trigger(c) PROVE IInv'
  <1> DEFINE i == c[1]
             q == IF c[2] = "TP" THEN 1 ELSE Holding(i)
             told == AlgoMsg(c, "TRIGGERED", 0, TRUE, now + 1)
             placed == OrderMsg(c, "NEW", 0, 0, now + 2)
  <1>1. /\ algo[c] = "NEW" /\ ~Flat(i) /\ \A o \in Orders : ~Live(o)
        /\ algo' = [algo EXCEPT ![c] = "TRIGGERED"]
        /\ plain' = [plain EXCEPT ![c] = [st |-> "NEW", cum |-> 0, qty |-> q]]
        /\ Emit({told, placed}, now + 2) /\ UNCHANGED fills /\ OnlyExchange
    BY DEF Trigger
  <1>2. /\ plain \in [Orders -> PlainRec] /\ algo \in [Conds -> AlgoStatus \cup {"none"}]
        /\ c \in Orders /\ i \in Trades /\ plain[c] = NoPlain
        /\ now + 1 \in Nat /\ now + 2 \in Nat /\ 0 \in 0..Qty
    <2>1. ExchangeTyped /\ now \in Nat
      BY TypeParts DEF IInv, NetTyped
    <2>2. plain[c] = NoPlain
      BY <1>1 DEF IInv, InTurn
    <2>3. c \in Orders /\ i \in Trades
      BY CondIs
    <2> QED BY <2>1, <2>2, <2>3 DEF ExchangeTyped
  <1> HIDE DEF i, q
  <1>3. /\ plain'[c].st = "NEW" /\ plain'[c].cum = 0 /\ plain'[c].qty = q
        /\ \A x \in Orders : x # c => plain'[x] = plain[x]
        /\ algo'[c] = "TRIGGERED" /\ \A x \in Conds : x # c => algo'[x] = algo[x]
    BY <1>1, <1>2
  <1>4. phase' = phase /\ synced' = synced /\ marked' = marked /\ book' = book
    BY <1>1 DEF OnlyExchange, record
  <1>5. /\ q \in 1..Qty
        /\ \/ c = <<i, "TP">> /\ q + plain[<<i, "SL">>].qty <= plain[Entry(i)].cum
           \/ c = <<i, "SL">> /\ q + plain[<<i, "TP">>].qty <= plain[Entry(i)].cum
    <2> DEFINE en == Entry(i)
               tp == <<i, "TP">>
               sl == <<i, "SL">>
    <2>1. /\ en \in Orders /\ tp \in Conds /\ sl \in Conds /\ tp \in Orders /\ sl \in Orders
          /\ \/ c = tp /\ c[2] = "TP"
             \/ c = sl /\ c[2] # "TP"
      BY <1>2, OrderParts, CondIs DEF i
    <2>2. /\ plain[en].cum \in 0..Qty /\ plain[tp].cum \in Nat /\ plain[tp].qty \in Nat
          /\ plain[sl].cum \in Nat /\ plain[sl].qty \in Nat
      BY <2>1, PlainTyped DEF IInv
    <2>3. plain[tp].cum = plain[tp].qty /\ plain[sl].cum = plain[sl].qty
      BY <1>1, <2>1 DEF IInv, Sizes
    <2>4. plain[tp].qty + plain[sl].qty <= plain[en].cum
      BY <1>2 DEF IInv, Sizes
    <2>5. plain[en].cum # plain[tp].cum + plain[sl].cum
      BY <1>1 DEF Flat
    <2>6. plain[c].cum = 0 /\ plain[c].qty = 0
      BY <1>2 DEF NoPlain
    <2>7. q = IF c[2] = "TP" THEN 1 ELSE plain[en].cum - plain[tp].cum - plain[sl].cum
      BY DEF q, Holding
    <2> HIDE DEF en, tp, sl
    <2>8. ASSUME c = tp, c[2] = "TP"
          PROVE  q \in 1..Qty /\ q + plain[sl].qty <= plain[en].cum
      BY <2>2, <2>3, <2>4, <2>5, <2>6, <2>7, <2>8
    <2>9. ASSUME c = sl, c[2] # "TP"
          PROVE  q \in 1..Qty /\ q + plain[tp].qty <= plain[en].cum
      BY <2>2, <2>3, <2>4, <2>5, <2>6, <2>7, <2>9
    <2> QED BY <2>1, <2>8, <2>9 DEF en, tp, sl
  <1>6. phase[i] \notin {"none", "pending", "closed"}
    BY <1>1, <1>2, OrderParts DEF IInv, InTurn, Settled, i
  <1>7. TypeOK'
    <2>1. told \in Message /\ placed \in Message
      BY <1>2, OrderMsgTyped, AlgoMsgTyped, StatusNames
    <2>2. NetTyped'
      BY <1>1, <1>2, <2>1, EmitTyped DEF IInv
    <2>3. [st |-> "NEW", cum |-> 0, qty |-> q] \in PlainRec
      BY <1>5 DEF PlainRec, PlainStatus
    <2>4. ExchangeTyped'
      BY <1>1, <1>2, <2>3, TypeParts DEF IInv, ExchangeTyped, AlgoStatus
    <2> QED BY <1>1, <2>2, <2>4, Kept, TypePartsNext DEF IInv, OnlyExchange
  <1>8. InTurn'
    <2>1. \A j \in Trades : Entry(j) # c /\ Entry(j) \in Orders
      BY OrderParts
    <2>2. \A j \in Trades : phase[j] = "none" => plain'[Entry(j)] = NoPlain
      BY <1>3, <2>1 DEF IInv, InTurn
    <2>3. \A j \in Trades : phase[j] \in {"none", "pending"} =>
            \A x \in Guards(j) : algo'[x] = "none"
      BY <1>1, <1>3, OrderParts DEF IInv, InTurn
    <2>4. \A x \in Conds : algo'[x] \in {"none", "NEW", "CANCELED"} => plain'[x] = NoPlain
      BY <1>3, OrderParts DEF IInv, InTurn
    <2> QED BY <1>4, <2>2, <2>3, <2>4 DEF IInv, InTurn
  <1>9. Sizes'
    <2>1. \A x \in Orders : /\ plain'[x].cum <= plain'[x].qty
                            /\ Live(x)' => plain'[x].cum < plain'[x].qty
      BY <1>3, <1>5 DEF IInv, Sizes, Live
    <2>2. \A x \in Conds : ~Live(x)' => plain'[x].cum = plain'[x].qty
      BY <1>3, OrderParts DEF IInv, Sizes, Live
    <2>3. ASSUME NEW j \in Trades
          PROVE  plain'[<<j, "TP">>].qty + plain'[<<j, "SL">>].qty <= plain'[Entry(j)].cum
      <3>1. CASE j = i
        <4>1. /\ plain'[Entry(i)] = plain[Entry(i)]
              /\ c = <<i, "TP">> => plain'[<<i, "SL">>] = plain[<<i, "SL">>]
              /\ c = <<i, "SL">> => plain'[<<i, "TP">>] = plain[<<i, "TP">>]
          BY <1>2, <1>3, OrderParts, SMTT(30)
        <4>2. plain[<<i, "TP">>].qty \in Nat /\ plain[<<i, "SL">>].qty \in Nat
          BY <1>2, OrderParts, PlainTyped DEF IInv
        <4> QED BY <3>1, <4>1, <4>2, <1>3, <1>5
      <3>2. CASE j # i
        <4>1. c # <<j, "TP">> /\ c # <<j, "SL">> /\ c # Entry(j)
          BY <3>2, TradeOf DEF i
        <4> QED BY <4>1, <1>3, OrderParts DEF IInv, Sizes
      <3> QED BY <3>1, <3>2
    <2> QED BY <2>1, <2>2, <2>3 DEF Sizes
  <1>10. Settled'
    <2>1. \A j \in Trades : phase[j] \in {"open", "closed"} => ~Live(Entry(j))'
      <3>1. \A j \in Trades : plain'[Entry(j)] = plain[Entry(j)]
        BY <1>3, EntryIs
      <3> QED BY <3>1 DEF IInv, Settled, Live
    <2>2. ASSUME NEW j \in Trades, phase[j] = "closed" PROVE Flat(j)'
      <3>1. c # <<j, "TP">> /\ c # <<j, "SL">> /\ c # Entry(j)
        BY <2>2, <1>6, TradeOf DEF i
      <3> QED BY <2>2, <3>1, <1>3, OrderParts DEF IInv, Settled, Flat
    <2> QED BY <1>4, <2>1, <2>2 DEF Settled
  <1>11. Honest'
    <2>1. \A x \in Orders : plain[x].st = "FILLED" => plain'[x].st = "FILLED"
      BY <1>2, <1>3 DEF NoPlain
    <2>2. ASSUME NEW m \in net', m \notin net PROVE Truthful(m)'
      <3>1. m = told \/ m = placed
        BY <1>1, <2>2, EmitNet
      <3>2. CASE m = told
        BY <3>2, OtherTruth
      <3>3. CASE m = placed
        BY <3>3, OtherTruth
      <3> QED BY <3>1, <3>2, <3>3
    <2> QED BY <1>1, <1>4, <2>1, <2>2, HonestGrows DEF OnlyExchange, tracker, task
  <1>12. Books'
    <2>1. \A f \in fills : plain'[f[1]].st # "none"
      BY <1>3, NotPlaced, FillParts DEF IInv, Books
    <2> QED BY <1>1, <1>4, <2>1 DEF IInv, Books, BooksComplete
  <1> QED BY <1>7, <1>8, <1>9, <1>10, <1>11, <1>12 DEF IInv

LEMMA FinishInv == ASSUME IInv, NEW c \in Conds, Finish(c) PROVE IInv'
  <1> DEFINE msg == AlgoMsg(c, "FINISHED", plain[c].cum, plain[c].st # "none", now + 1)
  <1>1. /\ \/ algo[c] = "TRIGGERED" /\ plain[c].st = "FILLED"
           \/ algo[c] = "NEW" /\ Flat(c[1])
        /\ algo' = [algo EXCEPT ![c] = "FINISHED"]
        /\ Emit({msg}, now + 1) /\ UNCHANGED <<plain, fills>> /\ OnlyExchange
    BY DEF Finish
  <1>2. /\ ExchangeTyped /\ now + 1 \in Nat /\ c \in Orders /\ plain[c].cum \in 0..Qty
    BY CondIs, PlainTyped, TypeParts DEF IInv, NetTyped
  <1>3. algo'[c] = "FINISHED" /\ \A x \in Conds : x # c => algo'[x] = algo[x]
    BY <1>1, <1>2 DEF ExchangeTyped
  <1>4. phase' = phase /\ synced' = synced /\ marked' = marked /\ book' = book
    BY <1>1 DEF OnlyExchange, record
  <1>5. TypeOK'
    <2>1. msg \in Message
      BY <1>2, AlgoMsgTyped, StatusNames
    <2>2. NetTyped'
      BY <1>1, <1>2, <2>1, EmitTyped DEF IInv
    <2>3. ExchangeTyped'
      BY <1>1, <1>2 DEF ExchangeTyped, AlgoStatus
    <2> QED BY <1>1, <2>2, <2>3, Kept, TypePartsNext DEF IInv, OnlyExchange
  <1>6. InTurn'
    <2>1. \A j \in Trades : phase[j] \in {"none", "pending"} =>
            \A x \in Guards(j) : algo'[x] = "none"
      BY <1>1, <1>3, OrderParts DEF IInv, InTurn
    <2>2. \A x \in Conds : algo'[x] \in {"none", "NEW", "CANCELED"} => plain[x] = NoPlain
      BY <1>3 DEF IInv, InTurn
    <2> QED BY <1>1, <1>4, <2>1, <2>2 DEF IInv, InTurn
  <1>7. Sizes' /\ Settled'
    BY <1>1, <1>4 DEF IInv, Sizes, Settled, Live, Flat
  <1>8. Honest'
    <2>1. algo[c] = "NEW" => plain[c].cum = 0
      BY DEF IInv, InTurn, NoPlain
    <2>2. plain[c].cum > 0 => plain'[c].st = "FILLED"
      BY <1>1, <1>2, <2>1
    <2>3. ASSUME NEW m \in net', m \notin net PROVE Truthful(m)'
      <3>1. m = msg
        BY <1>1, <2>3, EmitNet
      <3> QED BY <2>2, <3>1, AlgoTruth
    <2> QED BY <1>1, <1>4, <2>3, HonestGrows DEF OnlyExchange, tracker, task
  <1>9. Books'
    BY <1>1, <1>4 DEF IInv, Books, BooksComplete
  <1> QED BY <1>5, <1>6, <1>7, <1>8, <1>9 DEF IInv

----------------------------------------------------------------------------
(* Steps of a trade. *)

LEMMA PlaceInv == ASSUME IInv, NEW i \in Trades, Place(i) PROVE IInv'
  <1> DEFINE o == Entry(i)
             new == [st |-> "NEW", cum |-> 0, qty |-> Qty]
             msg == OrderMsg(o, "NEW", 0, 0, now + 1)
  <1>1. /\ pc = "free" /\ phase[i] = "none" /\ \A j \in Trades : j < i => phase[j] = "closed"
        /\ plain' = [plain EXCEPT ![o] = new] /\ row' = [row EXCEPT ![o] = "NEW"]
        /\ phase' = [phase EXCEPT ![i] = "pending"] /\ pc' = "entering"
        /\ Emit({msg}, now + 1)
        /\ UNCHANGED <<algo, fills, rowLink, marked, synced, book, seen, tracker, job, lives,
                       trouble>>
    BY DEF Place
  <1>2. o \in Orders /\ o \notin Conds
    BY EntryIs
  <1>3. /\ ExchangeTyped /\ NetTyped /\ RowsTyped /\ RecordTyped /\ TaskTyped
        /\ now + 1 \in Nat /\ 0 \in 0..Qty /\ plain[o] = NoPlain
    BY <1>1, TypeParts DEF IInv, InTurn, NetTyped
  <1> HIDE DEF o
  <1>4. /\ plain'[o].st = "NEW" /\ plain'[o].cum = 0 /\ plain'[o].qty = Qty
        /\ plain[o].st = "none" /\ plain[o].cum = 0 /\ plain[o].qty = 0
        /\ \A x \in Orders : x # o => plain'[x] = plain[x]
        /\ phase'[i] = "pending" /\ \A j \in Trades : j # i => phase'[j] = phase[j]
    BY <1>1, <1>2, <1>3 DEF ExchangeTyped, RecordTyped, NoPlain
  <1>5. \A j \in Trades : /\ Entry(j) \in Orders /\ (j # i => Entry(j) # o)
                          /\ <<j, "TP">> \in Conds /\ <<j, "SL">> \in Conds
    <2>1. \A j \in Trades : j # i => Entry(j) # o
      BY TradeOf DEF o
    <2> QED BY <2>1, OrderParts
  <1>6. \A c \in Conds : c \in Orders /\ plain'[c] = plain[c]
    BY <1>2, <1>4, CondIs
  <1>7. TypeOK'
    <2>1. msg \in Message
      BY <1>2, <1>3, OrderMsgTyped, StatusNames
    <2>2. NetTyped'
      BY <1>1, <1>3, <2>1, EmitTyped DEF IInv
    <2>3. new \in PlainRec
      BY <1>3 DEF PlainRec, PlainStatus
    <2>4. ExchangeTyped'
      BY <1>1, <1>3, <2>3 DEF ExchangeTyped
    <2>5. RowsTyped'
      BY <1>1, <1>3, StatusNames DEF RowsTyped
    <2>6. RecordTyped'
      BY <1>1, <1>3 DEF RecordTyped, Phases
    <2>7. TaskTyped'
      BY <1>1, <1>3 DEF TaskTyped
    <2> QED BY <1>1, <2>2, <2>4, <2>5, <2>6, <2>7, Kept, TypePartsNext DEF IInv
  <1>8. InTurn'
    <2>1. \A k, j \in Trades : phase'[k] # "none" /\ j < k => phase'[j] = "closed"
      <3>1. ASSUME NEW k \in Trades, NEW j \in Trades, phase'[k] # "none", j < k
            PROVE  phase'[j] = "closed"
        <4>1. CASE k = i
          BY <1>1, <1>4, <3>1, <4>1 DEF Trades
        <4>2. CASE k # i
          BY <1>1, <1>4, <3>1, <4>2 DEF IInv, InTurn
        <4> QED BY <4>1, <4>2
      <3> QED BY <3>1
    <2>2. \A j \in Trades : phase'[j] = "none" => plain'[Entry(j)] = NoPlain
      BY <1>4, <1>5, ZenonT(30) DEF IInv, InTurn
    <2>3. \A j \in Trades : phase'[j] \in {"none", "pending"} =>
            \A x \in Guards(j) : algo[x] = "none"
      BY <1>1, <1>4 DEF IInv, InTurn
    <2>4. \A x \in Conds : algo[x] \in {"none", "NEW", "CANCELED"} => plain'[x] = NoPlain
      BY <1>6 DEF IInv, InTurn
    <2> QED BY <1>1, <2>1, <2>2, <2>3, <2>4 DEF InTurn
  <1>9. Sizes'
    <2>1. \A x \in Orders : /\ plain'[x].cum <= plain'[x].qty
                            /\ Live(x)' => plain'[x].cum < plain'[x].qty
      BY <1>4 DEF IInv, Sizes, Live
    <2>2. \A c \in Conds : ~Live(c)' => plain'[c].cum = plain'[c].qty
      BY <1>6 DEF IInv, Sizes, Live
    <2>3. \A j \in Trades : plain'[Entry(j)].cum = plain[Entry(j)].cum
      BY <1>4, <1>5
    <2>4. \A j \in Trades :
            plain'[<<j, "TP">>].qty + plain'[<<j, "SL">>].qty <= plain'[Entry(j)].cum
      BY <1>5, <1>6, <2>3 DEF IInv, Sizes
    <2> QED BY <2>1, <2>2, <2>4 DEF Sizes
  <1>10. Settled'
    <2>1. \A j \in Trades : phase'[j] \in {"open", "closed"} =>
            j # i /\ phase'[j] = phase[j] /\ plain'[Entry(j)] = plain[Entry(j)]
      BY <1>4, <1>5
    <2>2. \A j \in Trades : phase'[j] \in {"open", "closed"} => ~Live(Entry(j))'
      BY <2>1 DEF IInv, Settled, Live
    <2>3. \A j \in Trades : phase'[j] = "closed" => Flat(j)'
      BY <1>5, <1>6, <2>1 DEF IInv, Settled, Flat
    <2> QED BY <2>2, <2>3 DEF Settled
  <1>11. Honest'
    <2>1. \A x \in Orders : plain[x].st = "FILLED" => plain'[x].st = "FILLED"
      BY <1>4
    <2>2. ASSUME NEW m \in net', m \notin net PROVE Truthful(m)'
      <3>1. m = msg /\ <<i, "TP">> \in Conds
        BY <1>1, <1>5, <2>2, EmitNet
      <3> QED BY <3>1, OtherTruth
    <2> QED BY <1>1, <2>1, <2>2, HonestGrows DEF tracker
  <1>12. Books'
    <2>1. \A f \in fills : plain'[f[1]].st # "none"
      BY <1>4, NotPlaced, FillParts DEF IInv, Books
    <2>2. synced \subseteq {j \in Trades : phase'[j] = "closed"}
      BY <1>1, <1>4 DEF IInv, Books
    <2>3. \A f \in fills : f[1][1] \in Trades
      BY NotPlaced, FillParts, OrderParts
    <2>4. \A f \in fills : phase'[f[1][1]] # "closed" => book[f] \in {Missing, f[1][1]}
      BY <1>1, <1>4, <2>3 DEF IInv, Books
    <2> QED BY <1>1, <2>1, <2>2, <2>4 DEF IInv, Books, BooksComplete
  <1> QED BY <1>7, <1>8, <1>9, <1>10, <1>11, <1>12 DEF IInv

LEMMA GiveUpInv == ASSUME IInv, NEW i \in Trades, GiveUp(i) PROVE IInv'
  <1>1. /\ pc # "act" /\ phase[i] = "pending"
        /\ plain[Entry(i)].cum = 0 /\ plain[Entry(i)].st = "EXPIRED"
        /\ row' = [row EXCEPT ![Entry(i)] = "EXPIRED"]
        /\ phase' = [phase EXCEPT ![i] = "closed"] /\ pc' = "free"
        /\ UNCHANGED <<exchange, network, rowLink, marked, synced, book, seen, tracker, job,
                       lives, trouble>>
    BY DEF GiveUp
  <1>2. RowsTyped /\ RecordTyped /\ TaskTyped
    BY TypeParts DEF IInv
  <1>3. phase'[i] = "closed" /\ \A j \in Trades : j # i => phase'[j] = phase[j]
    BY <1>1, <1>2 DEF RecordTyped
  <1>4. TypeOK'
    <2>1. RowsTyped'
      BY <1>1, <1>2, StatusNames DEF RowsTyped
    <2>2. RecordTyped'
      BY <1>1, <1>2 DEF RecordTyped, Phases
    <2>3. TaskTyped'
      BY <1>1, <1>2 DEF TaskTyped
    <2> QED BY <1>1, <2>1, <2>2, <2>3, Kept, TypePartsNext DEF IInv
  <1>5. InTurn'
    <2>1. \A k, j \in Trades : phase'[k] # "none" /\ j < k => phase'[j] = "closed"
      BY <1>1, <1>3 DEF IInv, InTurn
    <2> QED BY <1>1, <1>3, <2>1 DEF IInv, InTurn, exchange
  <1>6. Sizes'
    BY <1>1 DEF IInv, Sizes, Live, exchange
  <1>7. Settled'
    <2>1. plain[<<i, "TP">>] = NoPlain /\ plain[<<i, "SL">>] = NoPlain
      BY <1>1, OrderParts DEF IInv, InTurn
    <2>2. Flat(i) /\ ~Live(Entry(i))
      BY <1>1, <2>1 DEF Flat, Live, NoPlain
    <2> QED BY <1>1, <1>3, <2>2 DEF IInv, Settled, Flat, Live, exchange
  <1>8. Honest'
    BY <1>1, HonestGrows DEF exchange, network, tracker
  <1>9. Books'
    <2>1. \A f \in fills : f[1][1] \in Trades
      BY NotPlaced, FillParts, OrderParts
    <2> QED BY <1>1, <1>3, <2>1 DEF IInv, Books, BooksComplete, exchange
  <1> QED BY <1>4, <1>5, <1>6, <1>7, <1>8, <1>9 DEF IInv

\* Fetched fills go to their own trade or to the one in progress.
LEMMA OwnerIs ==
  ASSUME NEW o, NEW links, NEW holder
  PROVE  Owner(o, links, holder) \in {o[1], holder}
  BY DEF Owner

LEMMA SyncBook ==
  ASSUME IInv, NEW i \in Trades, phase[i] \in {"pending", "open"},
         NEW links, SyncFills(i, links)
  PROVE  /\ BookTyped'
         /\ \A f \in Fills : book'[f] # book[f] => f \in fills /\ book[f] = Missing
         /\ \A f \in fills : f[1][1] = i => book'[f] = i
  <1>1. PICK recent \in BOOLEAN :
          book' = [f \in Fills |->
            IF f \in fills /\ book[f] = Missing /\ (f[1][1] = i \/ recent)
            THEN Owner(f[1], links, i) ELSE book[f]]
    BY DEF SyncFills
  <1>2. \A f \in Fills : f[1][1] \in Trades
    BY FillParts, OrderParts
  <1>3. \A f \in Fills : Owner(f[1], links, i) \in {f[1][1], i}
    BY OwnerIs
  <1>4. BookTyped'
    BY <1>1, <1>2, <1>3, TypeParts DEF IInv, BookTyped, Trades
  <1>5. \A f \in Fills : book'[f] # book[f] => f \in fills /\ book[f] = Missing
    BY <1>1
  <1>6. ASSUME NEW f \in fills, f[1][1] = i PROVE book'[f] = i
    <2>1. f \in Fills /\ book[f] \in {Missing, i}
      BY <1>6, NotPlaced DEF IInv, Books
    <2> QED BY <1>1, <1>3, <1>6, <2>1
  <1> QED BY <1>4, <1>5, <1>6

\* Books' from what a step does to the book.
LEMMA BooksGrow ==
  ASSUME IInv, fills' = fills,
         \A o \in Orders : plain[o].st # "none" => plain'[o].st # "none",
         \A f \in Fills : book'[f] # book[f] => f \in fills /\ book[f] = Missing,
         \A f \in fills : phase'[f[1][1]] # "closed" => book'[f] \in {Missing, f[1][1]},
         synced' \subseteq {j \in Trades : phase'[j] = "closed"},
         \A f \in fills : f[1][1] \in synced' => f[1][1] \in synced \/ book'[f] = f[1][1]
  PROVE  Books'
  <1>1. \A f \in fills : f \in Fills /\ f[1] \in Orders /\ f[1][1] \in Trades
    BY NotPlaced, FillParts, OrderParts
  <1>2. \A f \in fills : f[1][1] \in synced' => book'[f] = f[1][1]
    <2>1. \A f \in fills : f[1][1] \in synced => book[f] = f[1][1] /\ book[f] # Missing
      BY <1>1 DEF IInv, Books, BooksComplete, Missing, Trades
    <2> QED BY <1>1, <2>1
  <1>3. \A f \in fills : plain'[f[1]].st # "none"
    BY <1>1 DEF IInv, Books
  <1>4. \A f \in Fills \ fills : book'[f] = Missing
    BY DEF IInv, Books
  <1> QED BY <1>2, <1>3, <1>4 DEF Books, BooksComplete

LEMMA ConfirmInv == ASSUME IInv, NEW i \in Trades, Confirm(i) PROVE IInv'
  <1> DEFINE o == Entry(i)
             sl == AlgoMsg(<<i, "SL">>, "NEW", 0, FALSE, now + 1)
             tp == AlgoMsg(<<i, "TP">>, "NEW", 0, FALSE, now + 2)
  <1>1. /\ pc # "act" /\ phase[i] = "pending" /\ plain[o].cum > 0 /\ ~Live(o)
        /\ algo' = [c \in Conds |-> IF c \in Guards(i) THEN "NEW" ELSE algo[c]]
        /\ row' = [x \in Orders |-> IF x = o THEN plain[o].st
                                   ELSE IF x \in Guards(i) THEN "NEW" ELSE row[x]]
        /\ phase' = [phase EXCEPT ![i] = "open"] /\ pc' = "free"
        /\ Emit({sl, tp}, now + 2)
        /\ UNCHANGED <<plain, fills, rowLink, marked, synced, seen, tracker, job, lives>>
    BY DEF Confirm
  <1>2. /\ SyncFills(i, rowLink) \/ UNCHANGED book
        /\ Trouble \/ UNCHANGED trouble
    BY DEF Confirm, Answered
  <1>3. /\ ExchangeTyped /\ NetTyped /\ RowsTyped /\ BookTyped /\ RecordTyped /\ TaskTyped
        /\ now + 1 \in Nat /\ now + 2 \in Nat /\ 0 \in 0..Qty
        /\ o \in Orders /\ <<i, "TP">> \in Conds /\ <<i, "SL">> \in Conds
    BY TypeParts, OrderParts DEF IInv, NetTyped
  <1>4. phase'[i] = "open" /\ \A j \in Trades : j # i => phase'[j] = phase[j]
    BY <1>1, <1>3 DEF RecordTyped
  <1>5. /\ BookTyped'
        /\ \A f \in Fills : book'[f] # book[f] => f \in fills /\ book[f] = Missing
        /\ \A f \in fills : f[1][1] = i => book'[f] \in {Missing, i}
    <2>1. CASE SyncFills(i, rowLink)
      BY <1>1, <2>1, SyncBook
    <2>2. CASE UNCHANGED book
      BY <1>1, <1>3, <2>2 DEF IInv, Books, BookTyped
    <2> QED BY <1>2, <2>1, <2>2
  <1>6. TypeOK'
    <2>1. sl \in Message /\ tp \in Message
      BY <1>3, AlgoMsgTyped, StatusNames
    <2>2. NetTyped'
      BY <1>1, <1>3, <2>1, EmitTyped DEF IInv
    <2>3. ExchangeTyped'
      BY <1>1, <1>3 DEF ExchangeTyped, AlgoStatus
    <2>4. plain[o].st \in Status \cup {"none"}
      BY <1>3, PlainTyped, StatusNames DEF IInv
    <2>5. RowsTyped'
      BY <1>1, <1>3, <2>4, StatusNames DEF RowsTyped
    <2>6. RecordTyped'
      BY <1>1, <1>3 DEF RecordTyped, Phases
    <2>7. TaskTyped'
      BY <1>1, <1>3 DEF TaskTyped
    <2>8. CountTyped'
      BY <1>1, <1>2, TroubleTyped DEF IInv
    <2> QED BY <1>1, <1>5, <2>2, <2>3, <2>5, <2>6, <2>7, <2>8, Kept, TypePartsNext DEF IInv
  <1>7. InTurn'
    <2>1. \A k, j \in Trades : phase'[k] # "none" /\ j < k => phase'[j] = "closed"
      BY <1>1, <1>4 DEF IInv, InTurn
    <2>2. \A j \in Trades : phase'[j] = "none" => plain'[Entry(j)] = NoPlain
      BY <1>1, <1>4 DEF IInv, InTurn
    <2>3. \A j \in Trades : j # i => \A x \in Guards(j) : x \notin Guards(i) /\ x \in Conds
      BY GuardOf
    <2>4. \A j \in Trades : phase'[j] \in {"none", "pending"} =>
            \A x \in Guards(j) : algo'[x] = "none"
      BY <1>1, <1>4, <2>3 DEF IInv, InTurn
    <2>5. \A x \in Conds : algo'[x] \in {"none", "NEW", "CANCELED"} => plain'[x] = NoPlain
      BY <1>1 DEF IInv, InTurn
    <2> QED BY <2>1, <2>2, <2>4, <2>5 DEF InTurn
  <1>8. Sizes'
    BY <1>1 DEF IInv, Sizes, Live
  <1>9. Settled'
    BY <1>1, <1>4 DEF IInv, Settled, Live, Flat
  <1>10. Honest'
    <2>1. ASSUME NEW m \in net', m \notin net PROVE Truthful(m)'
      <3>1. m = sl \/ m = tp
        BY <1>1, <2>1, EmitNet
      <3> QED BY <1>3, <3>1, OtherTruth
    <2> QED BY <1>1, <2>1, HonestGrows DEF tracker
  <1>11. Books'
    <2>1. \A f \in fills : f[1][1] \in Trades
      BY NotPlaced, FillParts, OrderParts
    <2>2. \A f \in fills : f[1][1] # i => phase[f[1][1]] = "closed"
      BY <1>1, OthersClosed
    <2>3. \A f \in fills : phase'[f[1][1]] # "closed" => book'[f] \in {Missing, f[1][1]}
      BY <1>4, <1>5, <2>1, <2>2
    <2>4. synced' \subseteq {j \in Trades : phase'[j] = "closed"}
      BY <1>1, <1>4 DEF IInv, Books
    <2> QED BY <1>1, <1>5, <2>3, <2>4, BooksGrow
  <1> QED BY <1>6, <1>7, <1>8, <1>9, <1>10, <1>11 DEF IInv

\* All that closing does, but for the memory of the handler that closes.
LEMMA CloseKeeps ==
  ASSUME IInv, NEW i \in Trades, Close(i)
  PROVE  /\ ExchangeTyped' /\ NetTyped' /\ RowsTyped' /\ BookTyped' /\ CountTyped'
         /\ phase' \in [Trades -> Phases] /\ synced' \subseteq Trades
         /\ InTurn' /\ Sizes' /\ Settled' /\ Books'
         /\ \A m \in net' : m \in net \/ Truthful(m)'
         /\ \A f \in Fills : book'[f] # book[f] => f \in fills /\ book[f] = Missing
         /\ UNCHANGED <<plain, fills, seen, tracker, lives>>
  <1> DEFINE gone(d) == {c \in d : algo[c] = "NEW"}
             msg(c) == AlgoMsg(c, "CANCELED", 0, FALSE, now + IF c[2] = "TP" THEN 1 ELSE 2)
             msgs(d) == {msg(c) : c \in gone(d)}
  <1>1. PICK done \in SUBSET ToCancel(i), fetched \in BOOLEAN :
          /\ phase[i] = "open" /\ Flat(i)
          /\ Answered(fetched /\ done = ToCancel(i))
          /\ algo' = [c \in Conds |-> IF c \in gone(done) THEN "CANCELED" ELSE algo[c]]
          /\ row' = [o \in Orders |-> IF o \in done THEN algo'[o] ELSE row[o]]
          /\ rowLink' = rowLink \cup {c \in done : plain[c].st # "none"}
          /\ IF fetched THEN SyncFills(i, rowLink') /\ synced' = synced \cup {i}
                        ELSE UNCHANGED <<book, synced>>
          /\ phase' = [phase EXCEPT ![i] = "closed"]
          /\ Emit(msgs(done), now + 2)
          /\ UNCHANGED <<plain, fills, seen, tracker, lives>>
    BY DEF Close
  <1>2. done \subseteq Conds /\ gone(done) \subseteq Conds
    BY <1>1, OrderParts DEF ToCancel
  <1>3. /\ ExchangeTyped /\ NetTyped /\ RowsTyped /\ BookTyped /\ RecordTyped
        /\ now + 1 \in Nat /\ now + 2 \in Nat /\ 0 \in 0..Qty
    BY TypeParts DEF IInv, NetTyped
  <1>4. phase'[i] = "closed" /\ \A j \in Trades : j # i => phase'[j] = phase[j]
    BY <1>1, <1>3 DEF RecordTyped
  <1>5. ExchangeTyped'
    BY <1>1, <1>3 DEF ExchangeTyped, AlgoStatus
  <1>6. NetTyped'
    <2>1. ASSUME NEW c \in gone(done) PROVE msg(c) \in Message
      <3>1. now + (IF c[2] = "TP" THEN 1 ELSE 2) \in Nat
        BY <1>3
      <3> QED BY <1>2, <1>3, <2>1, <3>1, AlgoMsgTyped, StatusNames
    <2>2. msgs(done) \in SUBSET Message
      BY <2>1
    <2> HIDE DEF msgs
    <2> QED BY <1>1, <1>3, <2>2, EmitTyped DEF IInv
  <1>7. RowsTyped'
    <2>1. \A c \in Conds : algo'[c] \in Status \cup {"none"}
      BY <1>5, StatusNames DEF ExchangeTyped
    <2> QED BY <1>1, <1>2, <1>3, <2>1 DEF RowsTyped
  <1>8. CountTyped'
    BY <1>1, TroubleTyped DEF Answered, IInv
  <1>9. phase' \in [Trades -> Phases] /\ synced' \subseteq Trades
    BY <1>1, <1>3 DEF RecordTyped, Phases
  <1>10. InTurn'
    <2>1. \A k, j \in Trades : phase'[k] # "none" /\ j < k => phase'[j] = "closed"
      BY <1>1, <1>4 DEF IInv, InTurn
    <2>2. \A j \in Trades : phase'[j] = "none" => plain'[Entry(j)] = NoPlain
      BY <1>1, <1>4 DEF IInv, InTurn
    <2>3. ASSUME NEW j \in Trades, phase'[j] \in {"none", "pending"}, NEW x \in Guards(j)
          PROVE  algo'[x] = "none"
      <3>1. x \in Conds /\ algo[x] = "none"
        BY <1>4, <2>3, GuardOf DEF IInv, InTurn
      <3> QED BY <1>1, <3>1
    <2>4. \A x \in Conds : algo'[x] \in {"none", "NEW", "CANCELED"} => plain'[x] = NoPlain
      BY <1>1 DEF IInv, InTurn
    <2> QED BY <2>1, <2>2, <2>3, <2>4 DEF InTurn
  <1>11. Sizes'
    BY <1>1 DEF IInv, Sizes, Live
  <1>12. Settled'
    BY <1>1, <1>4 DEF IInv, Settled, Live, Flat
  <1>13. /\ BookTyped'
         /\ \A f \in Fills : book'[f] # book[f] => f \in fills /\ book[f] = Missing
         /\ fetched => \A f \in fills : f[1][1] = i => book'[f] = i
    <2>1. CASE fetched
      <3>1. SyncFills(i, rowLink')
        BY <1>1, <2>1
      <3>2. PICK links : SyncFills(i, links)
        BY <3>1
      <3> QED BY <1>1, <3>2, SyncBook
    <2>2. CASE ~fetched
      BY <1>1, <1>3, <2>2 DEF BookTyped
    <2> QED BY <2>1, <2>2
  <1>14. Books'
    <2>1. \A f \in fills : f[1][1] \in Trades
      BY NotPlaced, FillParts, OrderParts
    <2>2. \A f \in fills : f[1][1] # i => phase[f[1][1]] = "closed"
      BY <1>1, OthersClosed
    <2>3. \A f \in fills : phase'[f[1][1]] # "closed" => book'[f] \in {Missing, f[1][1]}
      BY <1>4, <2>1, <2>2
    <2>4. synced' \subseteq {j \in Trades : phase'[j] = "closed"}
      BY <1>1, <1>4 DEF IInv, Books
    <2>5. \A f \in fills : f[1][1] \in synced' => f[1][1] \in synced \/ book'[f] = f[1][1]
      BY <1>1, <1>13
    <2> QED BY <1>1, <1>13, <2>3, <2>4, <2>5, BooksGrow
  <1>15. ASSUME NEW m \in net', m \notin net PROVE Truthful(m)'
    <2>1. m \in msgs(done)
      BY <1>1, <1>15, EmitNet
    <2>2. PICK c \in gone(done) : m = msg(c)
      BY <2>1
    <2> QED BY <1>2, <2>2, OtherTruth
  <1> HIDE DEF msgs, gone
  <1> QED BY <1>1, <1>5, <1>6, <1>7, <1>8, <1>9, <1>10, <1>11, <1>12, <1>13, <1>14, <1>15

LEMMA CloseFlatInv == ASSUME IInv, NEW i \in Trades, CloseFlat(i) PROVE IInv'
  <1>1. Close(i) /\ UNCHANGED <<marked, task>>
    BY DEF CloseFlat
  <1>2. RecordTyped' /\ TaskTyped' /\ MemoryTyped'
    BY <1>1, CloseKeeps, Kept, TypeParts DEF IInv, RecordTyped
  <1>3. TypeOK'
    BY <1>1, <1>2, CloseKeeps, TypePartsNext
  <1>4. Honest'
    BY <1>1, CloseKeeps, HonestGrows DEF tracker, task
  <1> QED BY <1>1, <1>3, <1>4, CloseKeeps DEF IInv

----------------------------------------------------------------------------
(* Handlers of messages. *)

LEMMA MarkKeeps ==
  ASSUME IInv, pc = "act", Mark
  PROVE  /\ marked' \subseteq Trades
         /\ \A j \in marked' : plain[<<j, "TP">>].st = "FILLED"
  <1>1. job \in Message /\ marked \subseteq Trades
    BY TypeParts DEF IInv, TaskTyped, RecordTyped
  <1>2. job.id \in Orders /\ job.id[1] \in Trades
    BY <1>1, MessageParts, OrderParts
  <1>3. MarksTarget(job) => job.id = <<job.id[1], "TP">> /\ plain[job.id].st = "FILLED"
    <2>1. MarksTarget(job) => job.id[2] = "TP" /\ plain[job.id].st = "FILLED"
      BY DEF IInv, Honest, MarksTarget
    <2>2. job.id[2] = "TP" => job.id \in Conds
      BY <1>2, OrderParts
    <2> QED BY <2>1, <2>2, CondIs
  <1> QED BY <1>1, <1>2, <1>3 DEF Mark, IInv, Honest

LEMMA ActInv == ASSUME IInv, Act PROVE IInv'
  <1>1. pc = "act" /\ pc' = "free" /\ job' = NoJob /\ Mark
    BY DEF Act
  <1>2. TaskTyped'
    BY <1>1, NoJobTyped DEF TaskTyped
  <1>3. CASE UNCHANGED <<exchange, network, orders, phase, synced, book, seen, tracker, lives,
                         trouble>>
    <2>1. RecordTyped'
      BY <1>1, <1>3, MarkKeeps, TypeParts DEF IInv, RecordTyped
    <2>2. TypeOK'
      BY <1>2, <1>3, <2>1, Kept, TypePartsNext DEF IInv
    <2>3. InTurn' /\ Sizes' /\ Settled' /\ Books'
      BY <1>3, StandStill
    <2>4. Honest'
      <3>1. \A m \in net' : Truthful(m)'
        BY <1>3, NetHonest DEF exchange, network
      <3> QED BY <1>1, <1>3, <3>1, MarkKeeps DEF Honest, exchange
    <2> QED BY <2>2, <2>3, <2>4 DEF IInv
  <1>4. ASSUME NEW i \in Trades, Close(i)
        PROVE  IInv'
    <2>1. RecordTyped' /\ MemoryTyped'
      BY <1>1, <1>4, CloseKeeps, MarkKeeps, Kept DEF IInv, RecordTyped
    <2>2. TypeOK'
      BY <1>2, <1>4, <2>1, CloseKeeps, TypePartsNext
    <2>3. Honest'
      <3>1. plain' = plain /\ fills' = fills /\ \A m \in net' : m \in net \/ Truthful(m)'
        BY <1>4, CloseKeeps
      <3>2. \A m \in net' : Truthful(m)'
        BY <3>1, NetHonest
      <3> QED BY <1>1, <3>1, <3>2, MarkKeeps DEF Honest
    <2> QED BY <1>4, <2>2, <2>3, CloseKeeps DEF IInv
  <1> QED BY <1>3, <1>4 DEF Act

\* The fallback finds the right trade as long as that trade is not closed.
LEMMA OwnerRight ==
  ASSUME IInv, NEW f \in fills, phase[f[1][1]] # "closed"
  PROVE  Owner(f[1], rowLink, Holder) = f[1][1]
  <1>1. f[1] \in Orders /\ f[1][1] \in Trades
    BY NotPlaced, FillParts, OrderParts
  <1>2. CASE f[1][2] = "EN"
    BY <1>2 DEF Owner
  <1>3. CASE f[1] \in Conds
    <2>1. phase[f[1][1]] = "open"
      BY <1>1, <1>3, NotBegun, TypeParts DEF IInv, RecordTyped, Phases
    <2>2. \A j \in Trades : phase[j] = "open" => j = f[1][1]
      BY <1>1, <2>1 DEF IInv, InTurn, Trades
    <2>3. Holder = f[1][1]
      BY <1>1, <2>1, <2>2 DEF Holder
    <2> QED BY <2>3 DEF Owner
  <1> QED BY <1>1, <1>2, <1>3, OrderParts

LEMMA HolderTyped == Holder \in 0..NT
  BY DEF Holder, Trades, Nobody

LEMMA RememberTyped ==
  ASSUME seen \in Seq(Message), NEW m \in Message, Remember(m)
  PROVE  seen' \in Seq(Message)
  BY SeenTyped DEF Remember

LEMMA TrackedTyped ==
  ASSUME NEW t \in Tracks, NEW m \in Message
  PROVE  Tracked(t, m) \in Tracks
  BY MessageParts DEF Tracked, Tracks

\* A message writes down a fill that happened and was missing.
LEMMA HandleOrderBook ==
  ASSUME IInv, NEW m, HandleOrder(m)
  PROVE  \A f \in Fills : book'[f] # book[f] =>
           f = FillOf(m) /\ Inserted(m) /\ f \in fills /\ book[f] = Missing
  <1>1. /\ Take(m) /\ BookTyped
        /\ book' = IF Inserted(m)
                   THEN [book EXCEPT ![FillOf(m)] = Owner(m.id, rowLink, Holder)] ELSE book
    BY TypeParts DEF HandleOrder, IInv
  <1>2. Truthful(m)
    BY <1>1, TakeKeeps DEF IInv, Honest
  <1>3. Inserted(m) => FillOf(m) \in fills /\ book[FillOf(m)] = Missing
    BY <1>2 DEF Inserted, NewFill, Truthful
  <1>4. \A f \in Fills : book'[f] # book[f] => Inserted(m) /\ f = FillOf(m)
    BY <1>1 DEF BookTyped
  <1> QED BY <1>3, <1>4

LEMMA HandleOrderInv == ASSUME IInv, NEW m, HandleOrder(m) PROVE IInv'
  <1> DEFINE own == Owner(m.id, rowLink, Holder)
             f == FillOf(m)
  <1>1. /\ Take(m) /\ m.kind = "order" /\ Remember(m)
        /\ trk' = [trk EXCEPT ![m.id] = Tracked(trk[m.id], m)]
        /\ counted' = IF NewFill(m) THEN counted \cup {f} ELSE counted
        /\ row' = IF m.id[2] = "EN" /\ Accepts(trk[m.id], m)
                  THEN [row EXCEPT ![m.id] = m.st] ELSE row
        /\ book' = IF Inserted(m) THEN [book EXCEPT ![f] = own] ELSE book
        /\ \/ pc' = "act" /\ job' = m
           \/ UNCHANGED task
        /\ UNCHANGED <<exchange, rowLink, record, tra, link>>
    BY DEF HandleOrder
  <1>2. /\ NetTyped' /\ CountTyped' /\ net' \subseteq net
        /\ pc = "free" /\ m \in net /\ m \in Message
    BY <1>1, TakeKeeps DEF IInv
  <1>3. /\ m.id \in Orders /\ m.id[1] \in Trades /\ m.st \in Status /\ Truthful(m)
    BY <1>2, MessageParts, OrderParts DEF IInv, Honest
  <1>4. NewFill(m) => f \in fills /\ f \in Fills /\ f[1] = m.id
    BY <1>3, NotPlaced DEF NewFill, Truthful, FillOf
  <1>5. own \in 0..NT + 1
    BY <1>3, OwnerIs, HolderTyped DEF Trades
  <1>6. /\ RowsTyped /\ BookTyped /\ MemoryTyped /\ TaskTyped
    BY TypeParts DEF IInv
  <1> HIDE DEF own, f
  <1>7. TypeOK'
    <2>1. RowsTyped'
      BY <1>1, <1>3, <1>6 DEF RowsTyped
    <2>2. BookTyped'
      BY <1>1, <1>4, <1>5, <1>6 DEF BookTyped, Inserted
    <2>3. MemoryTyped'
      <3>1. trk' \in [Orders -> Tracks]
        BY <1>1, <1>2, <1>3, <1>6, TrackedTyped DEF MemoryTyped
      <3>2. seen' \in Seq(Message)
        BY <1>1, <1>2, <1>6, RememberTyped DEF MemoryTyped
      <3> QED BY <1>1, <1>4, <1>6, <3>1, <3>2 DEF MemoryTyped
    <2>4. TaskTyped'
      BY <1>1, <1>2, <1>6 DEF TaskTyped, task
    <2> QED BY <1>1, <1>2, <2>1, <2>2, <2>3, <2>4, Kept, TypePartsNext DEF IInv
  <1>8. InTurn' /\ Sizes' /\ Settled'
    BY <1>1 DEF IInv, InTurn, Sizes, Settled, Live, Flat, exchange, record
  <1>9. Honest'
    <2>1. /\ plain' = plain /\ fills' = fills /\ marked' = marked /\ link' = link
      BY <1>1 DEF exchange, record
    <2>2. /\ \A x \in net' : Truthful(x)'
          /\ \A x \in Message : Truthful(x) => Truthful(x)'
      BY <1>2, <2>1, NetHonest
    <2>3. pc' = "act" => job' = m
      BY <1>1, <1>2 DEF task
    <2>4. ASSUME pc' = "act"
          PROVE  Truthful(job)' /\ (MarksTarget(job)' => plain'[job'.id].st = "FILLED")
      <3>1. job' = m
        BY <2>3, <2>4
      <3>2. Truthful(job)'
        BY <1>2, <1>3, <2>2, <3>1
      <3>3. MarksTarget(job)' => m.st = "FILLED"
        BY <1>1, <2>1, <3>1 DEF MarksTarget
      <3> QED BY <1>1, <1>3, <2>1, <3>1, <3>2, <3>3 DEF Truthful
    <2> QED BY <2>1, <2>2, <2>4 DEF IInv, Honest
  <1>10. Books'
    <2>1. \A x \in Fills : book'[x] # book[x] =>
            x = f /\ Inserted(m) /\ x \in fills /\ book[x] = Missing
      BY HandleOrderBook DEF f
    <2>3. ASSUME NEW x \in fills, phase[x[1][1]] # "closed"
          PROVE  book'[x] \in {Missing, x[1][1]}
      <3>1. x \in Fills /\ book[x] \in {Missing, x[1][1]}
        BY <2>3, NotPlaced DEF IInv, Books
      <3>2. CASE book'[x] # book[x]
        <4>1. x = f /\ Inserted(m) /\ x[1] = m.id
          BY <2>1, <3>1, <3>2, <1>4 DEF Inserted
        <4>2. book'[x] = own
          BY <1>1, <1>6, <3>1, <4>1 DEF BookTyped
        <4> QED BY <2>3, <4>1, <4>2, OwnerRight DEF own
      <3> QED BY <3>1, <3>2
    <2> QED BY <1>1, <2>1, <2>3, BooksGrow DEF exchange, record, IInv, Books
  <1> QED BY <1>7, <1>8, <1>9, <1>10 DEF IInv

LEMMA HandleAlgoInv == ASSUME IInv, NEW m, HandleAlgo(m) PROVE IInv'
  <1> DEFINE c == m.id
  <1>1. /\ Take(m) /\ m.kind = "algo" /\ Remember(m)
        /\ tra' = [tra EXCEPT ![c] = NewAlgo(tra[c], m)]
        /\ link' = IF m.link THEN link \cup {c} ELSE link
        /\ row' = [row EXCEPT ![c] = m.st]
        /\ rowLink' = IF m.link THEN rowLink \cup {c} ELSE rowLink
        /\ \/ /\ pc' = "act" /\ job' = m
              /\ \/ c[2] = "SL"
                 \/ c[2] = "TP" /\ m.st = "FINISHED" /\ m.cum > 0
           \/ UNCHANGED task
        /\ UNCHANGED <<exchange, record, book, trk, counted>>
    BY DEF HandleAlgo
  <1>2. /\ NetTyped' /\ CountTyped' /\ net' \subseteq net
        /\ pc = "free" /\ m \in net /\ m \in Message
    BY <1>1, TakeKeeps DEF IInv
  <1>3. c \in Conds /\ c \in Orders /\ m.st \in Status /\ Truthful(m)
    BY <1>1, <1>2, MessageParts DEF IInv, Honest, Truthful
  <1>4. RowsTyped /\ MemoryTyped /\ TaskTyped
    BY TypeParts DEF IInv
  <1> HIDE DEF c
  <1>5. TypeOK'
    <2>1. RowsTyped'
      BY <1>1, <1>3, <1>4 DEF RowsTyped
    <2>2. MemoryTyped'
      <3>1. NewAlgo(tra[c], m) \in Status \cup {"none"}
        BY <1>3, <1>4 DEF MemoryTyped, NewAlgo
      <3>2. seen' \in Seq(Message)
        BY <1>1, <1>2, <1>4, RememberTyped DEF MemoryTyped
      <3> QED BY <1>1, <1>3, <1>4, <3>1, <3>2 DEF MemoryTyped
    <2>3. TaskTyped'
      BY <1>1, <1>2, <1>4 DEF TaskTyped, task
    <2> QED BY <1>1, <1>2, <2>1, <2>2, <2>3, Kept, TypePartsNext DEF IInv
  <1>6. InTurn' /\ Sizes' /\ Settled' /\ Books'
    BY <1>1, StandStill DEF record
  <1>7. Honest'
    <2>1. plain' = plain /\ fills' = fills /\ marked' = marked
      BY <1>1 DEF exchange, record
    <2>2. /\ \A x \in net' : Truthful(x)'
          /\ \A x \in Message : Truthful(x) => Truthful(x)'
      BY <1>2, <2>1, NetHonest
    <2>3. ASSUME pc' = "act"
          PROVE  Truthful(job)' /\ (MarksTarget(job)' => plain'[job'.id].st = "FILLED")
      <3>1. /\ job' = m
            /\ \/ c[2] = "SL"
               \/ c[2] = "TP" /\ m.st = "FINISHED" /\ m.cum > 0
        BY <1>1, <1>2, <2>3 DEF task
      <3>2. Truthful(job)'
        BY <1>2, <1>3, <2>2, <3>1
      <3>3. MarksTarget(job)' => c[2] = "TP"
        BY <3>1 DEF MarksTarget, c
      <3> QED BY <1>1, <1>3, <2>1, <3>1, <3>2, <3>3 DEF Truthful, c
    <2> QED BY <2>1, <2>2, <2>3 DEF IInv, Honest
  <1> QED BY <1>5, <1>6, <1>7 DEF IInv

----------------------------------------------------------------------------
(* The theorems. *)

LEMMA InitInv == ASSUME Init PROVE IInv
  <1>1. plain = [o \in Orders |-> NoPlain] /\ \A c \in Conds : c \in Orders
    BY OrderParts DEF Init
  <1>2. TypeOK
    <2>1. ExchangeTyped
      <3>1. NoPlain \in PlainRec
        BY DEF NoPlain, PlainRec
      <3> QED BY <3>1 DEF Init, ExchangeTyped
    <2>2. NetTyped /\ RowsTyped
      BY DEF Init, NetTyped, RowsTyped
    <2>6. CountTyped
      BY DEF Init, CountTyped
    <2>3. BookTyped /\ RecordTyped
      BY DEF Init, BookTyped, RecordTyped, Missing, Phases
    <2>4. MemoryTyped
      BY EmptySeq DEF Init, MemoryTyped, NoTracked, Tracks
    <2>5. TaskTyped
      BY NoJobTyped DEF Init, TaskTyped
    <2> QED BY <2>1, <2>2, <2>3, <2>4, <2>5, <2>6, TypeParts
  <1>3. InTurn
    <2>1. \A i \in Trades : phase[i] = "none" /\ Entry(i) \in Orders
      BY EntryIs DEF Init
    <2>2. \A i \in Trades : \A c \in Guards(i) : algo[c] = "none"
      BY GuardOf DEF Init
    <2> QED BY <1>1, <2>1, <2>2 DEF InTurn
  <1>4. Sizes
    <2>1. \A o \in Orders : plain[o].cum = 0 /\ plain[o].qty = 0 /\ ~Live(o)
      BY <1>1 DEF NoPlain, Live
    <2> QED BY <1>1, <2>1, OrderParts DEF Sizes
  <1>5. Settled
    BY DEF Init, Settled
  <1>6. Honest
    BY DEF Init, Honest
  <1>7. Books
    BY DEF Init, Books, BooksComplete
  <1> QED BY <1>2, <1>3, <1>4, <1>5, <1>6, <1>7 DEF IInv

LEMMA NextInv == ASSUME IInv, [Next]_vars PROVE IInv'
  <1>1. CASE Exchange
    BY <1>1, FillInv, ExpireInv, TriggerInv, FinishInv DEF Exchange
  <1>2. CASE Stream
    BY <1>2, DisconnectInv, ReconnectInv DEF Stream
  <1>3. CASE Handle
    BY <1>3, ActInv, RepeatInv, HandleOrderInv, HandleAlgoInv DEF Handle
  <1>4. CASE Trade
    BY <1>4, PlaceInv, ConfirmInv, GiveUpInv, CloseFlatInv, RefreshRowInv DEF Trade
  <1>5. CASE Crash
    BY <1>5, CrashInv
  <1>6. CASE UNCHANGED vars
    <2>1. UNCHANGED <<exchange, network, orders, record, book, seen, tracker, task, lives,
                      trouble>>
      BY <1>6 DEF vars
    <2>2. TypeOK'
      BY <2>1, Kept, TypePartsNext DEF IInv
    <2>3. Honest'
      BY <2>1, HonestGrows DEF exchange, network, record, tracker, task
    <2>4. InTurn' /\ Sizes' /\ Settled' /\ Books'
      BY <2>1, StandStill DEF record
    <2> QED BY <2>2, <2>3, <2>4 DEF IInv
  <1> QED BY <1>1, <1>2, <1>3, <1>4, <1>5, <1>6 DEF Next, Over

\* The inductive invariant: types, the order of trades and orders, quantities,
\* closed trades at rest, and what messages and marks may be trusted for.
THEOREM Invariant == Spec => []IInv
  <1>1. Init => IInv
    BY InitInv
  <1>2. IInv /\ [Next]_vars => IInv'
    BY NextInv
  <1> QED BY <1>1, <1>2, PTL DEF Spec

\* Every variable keeps its range.
THEOREM TypeCorrect == Spec => []TypeOK
  <1>1. IInv => TypeOK
    BY DEF IInv
  <1> QED BY <1>1, Invariant, PTL

\* A trade whose fills were fetched when it was closed has all of them in the
\* fills table, whatever was lost before (sync_fills, insert_fill).
THEOREM BooksRight == Spec => []BooksComplete
  <1>1. IInv => BooksComplete
    BY DEF IInv, Books
  <1> QED BY <1>1, Invariant, PTL

\* No target is marked before its market order is executed (_mark_tp_filled).
THEOREM MarkedSafe ==
  Spec => [](\A i \in marked : plain[<<i, "TP">>].st = "FILLED")
  <1>1. IInv => \A i \in marked : plain[<<i, "TP">>].st = "FILLED"
    BY DEF IInv, Honest
  <1> QED BY <1>1, Invariant, PTL

----------------------------------------------------------------------------
(* What the tracker knows only goes forward. *)

LEMMA TrackedForward ==
  ASSUME NEW t \in Tracks, NEW m \in Message, t.st # "none"
  PROVE  /\ Tracked(t, m).st # "none" /\ Tracked(t, m).cum >= t.cum
         /\ OrderRank[Tracked(t, m).st] >= OrderRank[t.st]
         /\ OrderRank[t.st] = 2 => Tracked(t, m).st = t.st
  <1>1. /\ t.st \in Status /\ t.cum \in 0..Qty
        /\ m.st \in Status /\ m.cum \in 0..Qty /\ m.st # "none"
    BY MessageParts DEF Tracks, Status, PlainStatus, AlgoStatus
  <1>2. OrderRank[t.st] \in 0..2 /\ OrderRank[m.st] \in 0..2
    BY <1>1, OrderRanks
  <1>3. CASE Accepts(t, m)
    <2>1. Tracked(t, m).st = m.st /\ Tracked(t, m).cum = m.cum
      BY <1>3 DEF Tracked
    <2>2. ~Stale(t, m)
      BY <1>3 DEF Accepts
    <2> QED BY <1>1, <1>2, <2>1, <2>2 DEF Stale
  <1>4. CASE ~Accepts(t, m)
    BY <1>1, <1>2, <1>4 DEF Tracked
  <1> QED BY <1>3, <1>4

LEMMA AlgoForward ==
  ASSUME NEW s \in Status, NEW m \in Message
  PROVE  NewAlgo(s, m) # "none" /\ AlgoRank[NewAlgo(s, m)] >= AlgoRank[s]
  <1>1. m.st \in Status /\ m.st # "none" /\ s # "none"
    BY MessageParts DEF Status, PlainStatus, AlgoStatus
  <1>2. AlgoRank[s] \in 0..3 /\ AlgoRank[m.st] \in 0..3
    BY <1>1, AlgoRanks
  <1> QED BY <1>1, <1>2 DEF NewAlgo, AlgoChanges

LEMMA SameForward ==
  ASSUME TypeOK
  PROVE  /\ trk' = trk => OrdersForward
         /\ tra' = tra => AlgosForward
  <1>1. /\ \A o \in Orders : trk[o].st \in Status \cup {"none"} /\ trk[o].cum \in 0..Qty
        /\ \A c \in Conds : tra[c] \in Status \cup {"none"}
    BY TypeParts DEF MemoryTyped, Tracks
  <1>2. /\ \A o \in Orders : trk[o].st # "none" => OrderRank[trk[o].st] \in 0..2
        /\ \A c \in Conds : tra[c] # "none" => AlgoRank[tra[c]] \in 0..3
    BY <1>1, OrderRanks, AlgoRanks
  <1> QED BY <1>1, <1>2 DEF OrdersForward, AlgosForward

LEMMA StepForward ==
  ASSUME TypeOK, [Next]_vars, lives' = lives
  PROVE  OrdersForward /\ AlgosForward
  <1>1. lives \in Nat /\ MemoryTyped
    BY TypeParts DEF CountTyped
  <1>2. ASSUME NEW m \in net, HandleOrder(m)
        PROVE  OrdersForward /\ AlgosForward
    <2>1. m \in Message /\ m.id \in Orders
      BY <1>2, TypeParts, MessageParts DEF NetTyped
    <2>2. trk' = [trk EXCEPT ![m.id] = Tracked(trk[m.id], m)] /\ tra' = tra
      BY <1>2 DEF HandleOrder
    <2>3. \A o \in Orders : trk'[o] = IF o = m.id THEN Tracked(trk[o], m) ELSE trk[o]
      BY <1>1, <2>2 DEF MemoryTyped
    <2>4. \A o \in Orders : trk[o] \in Tracks
      BY <1>1 DEF MemoryTyped
    <2>5. ASSUME NEW o \in Orders, trk[o].st # "none"
          PROVE  /\ trk'[o].st # "none" /\ trk'[o].cum >= trk[o].cum
                 /\ OrderRank[trk'[o].st] >= OrderRank[trk[o].st]
                 /\ OrderRank[trk[o].st] = 2 => trk'[o].st = trk[o].st
      <3>1. CASE o = m.id
        BY <2>1, <2>3, <2>4, <2>5, <3>1, TrackedForward
      <3>2. CASE o # m.id
        <4>1. trk[o].st \in Status /\ trk[o].cum \in 0..Qty
          BY <2>4, <2>5 DEF Tracks
        <4>2. OrderRank[trk[o].st] \in 0..2
          BY <4>1, OrderRanks
        <4> QED BY <2>3, <2>5, <3>2, <4>1, <4>2
      <3> QED BY <3>1, <3>2
    <2> QED BY <2>2, <2>5, SameForward DEF OrdersForward
  <1>3. ASSUME NEW m \in net, HandleAlgo(m)
        PROVE  OrdersForward /\ AlgosForward
    <2>1. m \in Message
      BY <1>3, TypeParts DEF NetTyped
    <2>2. tra' = [tra EXCEPT ![m.id] = NewAlgo(tra[m.id], m)] /\ trk' = trk
      BY <1>3 DEF HandleAlgo
    <2>3. ASSUME NEW c \in Conds, tra[c] # "none"
          PROVE  tra'[c] # "none" /\ AlgoRank[tra'[c]] >= AlgoRank[tra[c]]
      <3>1. tra[c] \in Status
        BY <1>1, <2>3 DEF MemoryTyped
      <3>2. tra'[c] = IF c = m.id THEN NewAlgo(tra[c], m) ELSE tra[c]
        BY <1>1, <2>2 DEF MemoryTyped
      <3>3. AlgoRank[tra[c]] \in 0..3
        BY <3>1, AlgoRanks
      <3> QED BY <2>1, <2>3, <3>1, <3>2, <3>3, AlgoForward
    <2> QED BY <2>2, <2>3, SameForward DEF AlgosForward
  <1>4. CASE Crash
    BY <1>1, <1>4 DEF Crash
  <1>5. CASE UNCHANGED <<trk, tra>>
    BY <1>5, SameForward
  <1>6. CASE Exchange
    BY <1>6, <1>5 DEF Exchange, Fill, Expire, Trigger, Finish, OnlyExchange, tracker
  <1>7. CASE Stream
    BY <1>7, <1>5 DEF Stream, Disconnect, Reconnect, tracker
  <1>8. CASE Trade
    BY <1>8, <1>5 DEF Trade, Place, Confirm, GiveUp, CloseFlat, Close, RefreshRow, tracker
  <1>9. CASE Act
    BY <1>9, <1>5 DEF Act, Close, tracker
  <1>10. ASSUME NEW m \in net, Repeat(m)
         PROVE  UNCHANGED <<trk, tra>>
    BY <1>10 DEF Repeat, tracker
  <1>11. CASE UNCHANGED vars
    BY <1>11, <1>5 DEF vars, tracker
  <1> QED BY <1>2, <1>3, <1>4, <1>5, <1>6, <1>7, <1>8, <1>9, <1>10, <1>11
          DEF Next, Handle, Over

\* Within the life of a process no message, in whatever order or number it
\* comes, takes back what is known of an order (OrderTracker).
THEOREM OnlyForward == Spec => NeverBack
  <1>1. IInv /\ [Next]_vars =>
          [lives' = lives => OrdersForward /\ AlgosForward]_vars
    BY StepForward DEF IInv
  <1> QED BY <1>1, Invariant, PTL DEF Spec, NeverBack

----------------------------------------------------------------------------
(* The fills table. *)

LEMMA LedgerInit == ASSUME Init PROVE Ledger!Init
  BY DEF Init, Ledger!Init

\* What HandleOrder, and the queries, write.
LEMMA RecordStep ==
  ASSUME IInv, IInv', UNCHANGED fills,
         \A f \in Fills : book'[f] # book[f] => f \in fills /\ book[f] = Missing
  PROVE  Ledger!Record
  <1>1. book' \in [Fills -> 0..NT + 1]
    BY DEF IInv, TypeOK
  <1>2. 0..NT + 1 = (0..NT) \cup {Missing}
    BY DEF Missing
  <1> QED BY <1>1, <1>2 DEF Ledger!Record

LEMMA LedgerStep ==
  ASSUME IInv, IInv', [Next]_vars
  PROVE  [Ledger!Next]_<<fills, book>>
  <1>1. ASSUME NEW o \in Orders, Fill(o)
        PROVE  [Ledger!Next]_<<fills, book>>
    <2>1. PICK c \in 1..Qty : fills' = fills \cup {<<o, c>>} /\ UNCHANGED book
      BY <1>1 DEF Fill, OnlyExchange
    <2>2. CASE <<o, c>> \in fills
      <3>1. fills' = fills
        BY <2>1, <2>2
      <3> QED BY <2>1, <3>1
    <2>3. CASE <<o, c>> \notin fills
      <3>1. Ledger!Execute(<<o, c>>) /\ <<o, c>> \in Fills
        BY <2>1, <2>3, FillTyped DEF Ledger!Execute
      <3> QED BY <3>1 DEF Ledger!Next
    <2> QED BY <2>2, <2>3
  <1>2. ASSUME NEW m \in net, HandleOrder(m)
        PROVE  Ledger!Record
    BY <1>2, HandleOrderBook, RecordStep DEF HandleOrder, exchange
  <1>3. ASSUME NEW i \in Trades, Confirm(i)
        PROVE  [Ledger!Next]_<<fills, book>>
    <2>1. UNCHANGED fills /\ phase[i] = "pending"
      BY <1>3 DEF Confirm
    <2>2. CASE SyncFills(i, rowLink)
      <3>1. \A f \in Fills : book'[f] # book[f] => f \in fills /\ book[f] = Missing
        BY <2>1, <2>2, SyncBook
      <3> QED BY <2>1, <3>1, RecordStep DEF Ledger!Next
    <2>3. CASE UNCHANGED book
      BY <2>1, <2>3
    <2> QED BY <1>3, <2>2, <2>3 DEF Confirm
  <1>4. ASSUME NEW i \in Trades, Close(i)
        PROVE  Ledger!Record
    BY <1>4, CloseKeeps, RecordStep
  <1>5. CASE Exchange
    <2>1. ASSUME NEW i \in Trades, Expire(i) PROVE UNCHANGED <<fills, book>>
      BY <2>1 DEF Expire, OnlyExchange
    <2>2. ASSUME NEW c \in Conds, Trigger(c) \/ Finish(c) PROVE UNCHANGED <<fills, book>>
      BY <2>2 DEF Trigger, Finish, OnlyExchange
    <2> QED BY <1>1, <1>5, <2>1, <2>2 DEF Exchange
  <1>6. CASE Stream
    BY <1>6 DEF Stream, Disconnect, Reconnect, exchange
  <1>7. CASE Act
    <2>1. CASE UNCHANGED <<exchange, network, orders, phase, synced, book, seen, tracker, lives,
                           trouble>>
      BY <2>1 DEF exchange
    <2> QED BY <1>4, <1>7, <2>1 DEF Act, Ledger!Next
  <1>8. ASSUME NEW m \in net, Repeat(m) \/ HandleAlgo(m)
        PROVE  UNCHANGED <<fills, book>>
    BY <1>8 DEF Repeat, HandleAlgo, exchange
  <1>9. CASE Handle
    BY <1>2, <1>7, <1>8, <1>9 DEF Handle, Ledger!Next
  <1>10. CASE Trade
    <2>1. ASSUME NEW i \in Trades, Place(i) \/ GiveUp(i)
          PROVE  UNCHANGED <<fills, book>>
      BY <2>1 DEF Place, GiveUp, exchange
    <2>2. ASSUME NEW i \in Trades, CloseFlat(i)
          PROVE  Ledger!Record
      BY <1>4, <2>2 DEF CloseFlat
    <2>3. ASSUME NEW o \in Orders, RefreshRow(o)
          PROVE  UNCHANGED <<fills, book>>
      BY <2>3 DEF RefreshRow, exchange
    <2> QED BY <1>3, <1>10, <2>1, <2>2, <2>3 DEF Trade, Ledger!Next
  <1>11. CASE Crash
    BY <1>11 DEF Crash, exchange
  <1>12. CASE UNCHANGED vars
    BY <1>12 DEF vars, exchange
  <1> QED BY <1>5, <1>6, <1>9, <1>10, <1>11, <1>12 DEF Next, Over

\* Messages and queries together keep the promise of the fills table: every
\* fill is written down once, for the owner it keeps (insert_fill).
THEOREM LedgerImplemented == Spec => LedgerSpec
  <1>1. Init => Ledger!Init
    BY LedgerInit
  <1>2. IInv /\ IInv' /\ [Next]_vars => [Ledger!Next]_<<fills, book>>
    BY LedgerStep
  <1> QED BY <1>1, <1>2, Invariant, PTL DEF Spec, LedgerSpec, Ledger!Spec

----------------------------------------------------------------------------
(* What the bot was told is never ahead of the exchange, and what it was   *)
(* not told is on the way.                                                 *)

\* What a step of the exchange does to an order, when it does something: it
\* goes on, and to a place no message told of before.
Moved(o) ==
  /\ plain'[o].st \in PlainStatus
  /\ plain[o].st # "none" =>
       /\ plain'[o].cum >= plain[o].cum /\ OrderRank[plain[o].st] < 2
       /\ OrderRank[plain'[o].st] >= OrderRank[plain[o].st]
       /\ plain'[o].cum > plain[o].cum \/ OrderRank[plain'[o].st] = 2
  /\ o \in Conds => algo[o] # "FINISHED"
AlgoMoved(c) ==
  /\ algo'[c] # "none"
  /\ algo[c] # "none" => AlgoRank[algo'[c]] > AlgoRank[algo[c]]

Moves == /\ \A o \in Orders : plain'[o] = plain[o] \/ Moved(o)
         /\ \A c \in Conds : algo'[c] = algo[c] \/ AlgoMoved(c)

LEMMA RankIs ==
  /\ \A s \in Status : OrderRank[s] = 0 => s = "NEW"
  /\ \A s \in Status : OrderRank[s] = 1 => s = "PARTIALLY_FILLED"
  /\ OrderRank["FILLED"] = 2 /\ OrderRank["EXPIRED"] = 2
  /\ AlgoRank["NEW"] = 0 /\ AlgoRank["TRIGGERED"] = 2
  /\ AlgoRank["FINISHED"] = 3 /\ AlgoRank["CANCELED"] = 3
  /\ \A s \in AlgoStatus : AlgoRank[s] = 3 => s \in {"FINISHED", "CANCELED"}
  BY DEF OrderRank, AlgoRank, Status, PlainStatus, AlgoStatus

LEMMA PlainRank ==
  ASSUME TypeOK, NEW o \in Orders, plain[o].st # "none"
  PROVE  plain[o].st \in Status /\ OrderRank[plain[o].st] \in 0..2 /\ plain[o].cum \in Nat
  BY PlainTyped, OrderRanks DEF Status

LEMMA AlgoTyped ==
  ASSUME TypeOK, NEW c \in Conds
  PROVE  /\ algo[c] \in AlgoStatus \cup {"none"}
         /\ algo[c] # "none" => algo[c] \in Status /\ AlgoRank[algo[c]] \in 0..3
  BY TypeParts, AlgoRanks DEF ExchangeTyped, Status

\* x: a message or what the tracker knows of an order.
LEMMA BehindMoved ==
  ASSUME TypeOK, TypeOK', Moves, NEW o \in Orders, NEW x,
         x.cum \in Nat, x.st \in Status, Behind(x, o)
  PROVE  Behind(x, o)' /\ (plain'[o] # plain[o] => ~IsNow(x, o)')
  <1>1. CASE plain'[o] = plain[o]
    BY <1>1 DEF Behind
  <1>2. CASE Moved(o) /\ plain'[o] # plain[o]
    <2>1. /\ plain[o].st # "none" /\ x.cum <= plain[o].cum
          /\ OrderRank[x.st] <= OrderRank[plain[o].st]
          /\ OrderRank[x.st] = 2 => x.st = plain[o].st
      BY DEF Behind
    <2>2. /\ plain'[o].st \in PlainStatus /\ plain'[o].cum >= plain[o].cum
          /\ OrderRank[plain[o].st] < 2
          /\ OrderRank[plain'[o].st] >= OrderRank[plain[o].st]
          /\ plain'[o].cum > plain[o].cum \/ OrderRank[plain'[o].st] = 2
      BY <1>2, <2>1 DEF Moved
    <2>3. /\ OrderRank[plain[o].st] \in 0..2 /\ plain[o].cum \in Nat
          /\ plain'[o].st # "none"
      BY <2>1, <2>2, PlainRank DEF PlainStatus
    <2>4. OrderRank[x.st] \in 0..2
      BY OrderRanks
    <2>5. plain'[o].cum \in Nat /\ OrderRank[plain'[o].st] \in 0..2
      BY <2>2, OrderRanks, TypeParts DEF TypeOK, Status
    <2>6. /\ x.cum <= plain'[o].cum /\ OrderRank[x.st] <= OrderRank[plain'[o].st]
          /\ OrderRank[x.st] # 2
      BY <2>1, <2>2, <2>3, <2>4, <2>5
    <2>7. ~(x.st = plain'[o].st /\ x.cum = plain'[o].cum)
      BY <2>1, <2>2, <2>3, <2>5, <2>6
    <2> QED BY <2>3, <2>6, <2>7 DEF Behind, IsNow
  <1> QED BY <1>1, <1>2 DEF Moves

LEMMA AlgoBehindMoved ==
  ASSUME TypeOK, TypeOK', Moves, NEW c \in Conds, NEW s \in Status, AlgoBehind(s, c)
  PROVE  AlgoBehind(s, c)' /\ (algo'[c] # algo[c] => s # algo'[c])
  <1>1. CASE algo'[c] = algo[c]
    BY <1>1 DEF AlgoBehind
  <1>2. CASE AlgoMoved(c) /\ algo'[c] # algo[c]
    <2>1. algo[c] # "none" /\ AlgoRank[s] <= AlgoRank[algo[c]]
      BY DEF AlgoBehind
    <2>2. algo'[c] # "none" /\ AlgoRank[algo'[c]] > AlgoRank[algo[c]]
      BY <1>2, <2>1 DEF AlgoMoved
    <2>3. AlgoRank[algo[c]] \in 0..3 /\ AlgoRank[s] \in 0..3
      BY <2>1, AlgoTyped, AlgoRanks
    <2>4. AlgoRank[algo'[c]] \in 0..3
      BY <2>2, AlgoRanks, TypeParts DEF TypeOK, Status
    <2> QED BY <2>1, <2>2, <2>3, <2>4 DEF AlgoBehind
  <1> QED BY <1>1, <1>2 DEF Moves

LEMMA PossibleMoved ==
  ASSUME IInv, TypeOK', NewsInv, Moves, NEW m \in Message, Possible(m)
  PROVE  Possible(m)'
  <1>1. m.kind = "order" => Behind(m, m.id)'
    BY MessageParts, BehindMoved DEF Possible, IInv
  <1>2. CASE m.kind = "algo"
    <2>1. m.id \in Conds /\ m.st \in Status /\ AlgoBehind(m.st, m.id)
      BY <1>2, MessageParts DEF Possible
    <2>2. AlgoBehind(m.st, m.id)'
      BY <2>1, AlgoBehindMoved DEF IInv
    <2>3. ASSUME m.st = "FINISHED"
          PROVE  m.cum = plain'[m.id].cum
      <3>1. m.cum = plain[m.id].cum
        BY <1>2, <2>3 DEF Possible
      <3>2. AlgoRank[algo[m.id]] = 3
        BY <2>1, <2>3, AlgoTyped, RankIs DEF AlgoBehind, IInv
      <3>3. algo[m.id] = "FINISHED"
        BY <2>1, <2>3, <3>2, RankIs DEF AlgoBehind
      <3>4. m.id \in Orders
        BY MessageParts
      <3>5. plain'[m.id] = plain[m.id]
        BY <2>1, <3>3, <3>4 DEF Moves, Moved
      <3> QED BY <3>1, <3>5
    <2> QED BY <1>2, <2>1, <2>2, <2>3 DEF Possible
  <1> QED BY <1>1, <1>2, MessageParts DEF Possible

LEMMA TracksTyped ==
  ASSUME TypeOK
  PROVE  /\ \A o \in Orders : trk[o] \in Tracks /\ trk[o].cum \in Nat
         /\ \A o \in Orders : trk[o].st # "none" => trk[o].st \in Status
         /\ \A c \in Conds : tra[c] \in Status \cup {"none"}
         /\ \A k \in DOMAIN seen : seen[k] \in Message
         /\ net \subseteq Message /\ job \in Message
  <1>1. MemoryTyped /\ NetTyped /\ TaskTyped
    BY TypeParts
  <1>2. \A k \in DOMAIN seen : seen[k] \in Message
    BY <1>1, ElementOfSeq DEF MemoryTyped
  <1>3. \A o \in Orders : trk[o] \in Tracks
    BY <1>1 DEF MemoryTyped
  <1> QED BY <1>1, <1>2, <1>3 DEF MemoryTyped, Tracks, NetTyped, TaskTyped

\* What the exchange does is told by a message that is new, or lost.
LEMMA NewsGrow ==
  ASSUME IInv, TypeOK', NewsInv, Moves, UNCHANGED <<seen, trk, tra>>,
         gap => gap', ~gap' => net \subseteq net',
         \A m \in net' : m \in net \/ Possible(m)',
         ~gap' => \A o \in Orders : plain'[o] # plain[o] =>
           \E m \in net' : m.kind = "order" /\ m.id = o /\ IsNow(m, o)',
         ~gap' => \A c \in Conds : algo'[c] # algo[c] =>
           \E m \in net' : m.kind = "algo" /\ m.id = c /\ m.st = algo'[c]
  PROVE  NeverAhead' /\ OnTheWay'
  <1>0. TypeOK
    BY DEF IInv
  <1>1. \A m \in Message : Possible(m) => Possible(m)'
    BY PossibleMoved
  <1>2. \A m \in net' : Possible(m)'
    BY <1>0, <1>1, TracksTyped DEF NewsInv, NeverAhead
  <1>3. ASSUME NEW k \in DOMAIN seen
        PROVE  Possible(seen[k])' /\ TakenIn(seen[k])'
    <2>0. seen'[k] = seen[k]
      OBVIOUS
    <2> DEFINE m == seen[k]
    <2>1. m \in Message /\ Possible(m) /\ TakenIn(m)
      BY <1>0, TracksTyped DEF NewsInv, NeverAhead
    <2> HIDE DEF m
    <2>2. Possible(m)'
      BY <1>1, <2>1, <2>0 DEF m
    <2>3. ASSUME m.kind = "order", IsNow(m, m.id)'
          PROVE  IsNow(trk[m.id], m.id)'
      <3>0. m' = m
        BY <2>0 DEF m
      <3>1. m.id \in Orders /\ m.cum \in Nat /\ m.st \in Status /\ Behind(m, m.id)
        BY <2>1, <2>3, MessageParts DEF Possible
      <3>2. plain'[m.id] = plain[m.id]
        BY <1>0, <2>3, <3>0, <3>1, BehindMoved
      <3>3. IsNow(m, m.id)
        BY <2>3, <3>0, <3>2 DEF IsNow
      <3>4. IsNow(trk[m.id], m.id)
        BY <2>1, <2>3, <3>3 DEF TakenIn
      <3> QED BY <3>0, <3>2, <3>4 DEF IsNow
    <2>4. ASSUME m.kind = "algo", m.st = algo'[m.id]
          PROVE  tra[m.id] = m.st
      <3>1. m.id \in Conds /\ m.st \in Status /\ AlgoBehind(m.st, m.id)
        BY <2>1, <2>4, MessageParts DEF Possible
      <3>2. algo'[m.id] = algo[m.id]
        BY <1>0, <2>4, <3>1, AlgoBehindMoved
      <3> QED BY <2>1, <2>4, <3>2 DEF TakenIn
    <2>5. m' = m
      BY <2>0 DEF m
    <2>6. TakenIn(m)'
      BY <2>3, <2>4, <2>5 DEF TakenIn
    <2> QED BY <2>2, <2>6 DEF m
  <1>4. ASSUME NEW o \in Orders, trk[o].st # "none"
        PROVE  Behind(trk[o], o)'
    BY <1>0, <1>4, TracksTyped, BehindMoved DEF NewsInv, NeverAhead
  <1>5. ASSUME NEW c \in Conds, tra[c] # "none"
        PROVE  AlgoBehind(tra[c], c)'
    BY <1>0, <1>5, TracksTyped, AlgoBehindMoved DEF NewsInv, NeverAhead
  <1>6. NeverAhead'
    BY <1>2, <1>3, <1>4, <1>5 DEF NeverAhead
  <1>7. ASSUME ~gap', NEW o \in Orders, plain'[o].st # "none", ~IsNow(trk[o], o)'
        PROVE  \E m \in net' : m.kind = "order" /\ m.id = o /\ IsNow(m, o)'
    <2>1. CASE plain'[o] # plain[o]
      BY <1>7, <2>1
    <2>2. CASE plain'[o] = plain[o]
      <3>1. PICK m \in net : m.kind = "order" /\ m.id = o /\ IsNow(m, o)
        BY <1>7, <2>2 DEF NewsInv, OnTheWay, IsNow
      <3> QED BY <1>7, <2>2, <3>1 DEF IsNow
    <2> QED BY <2>1, <2>2
  <1>8. ASSUME ~gap', NEW c \in Conds, algo'[c] # "none", tra[c] # algo'[c]
        PROVE  \E m \in net' : m.kind = "algo" /\ m.id = c /\ m.st = algo'[c]
    <2>1. CASE algo'[c] # algo[c]
      BY <1>8, <2>1
    <2>2. CASE algo'[c] = algo[c]
      BY <1>8, <2>2 DEF NewsInv, OnTheWay
    <2> QED BY <2>1, <2>2
  <1> QED BY <1>6, <1>7, <1>8 DEF OnTheWay

LEMMA EmitNews ==
  ASSUME NEW msgs, NEW clock, Emit(msgs, clock), TypeOK
  PROVE  /\ gap => gap'
         /\ ~gap' => net \subseteq net' /\ msgs \subseteq net'
         /\ \A m \in net' : m \in net \/ m \in msgs
  BY TypeParts DEF Emit, NetTyped

LEMMA NewsTold ==
  ASSUME IInv, TypeOK', NewsInv, Moves, UNCHANGED <<seen, trk, tra>>,
         NEW msgs, NEW clock, Emit(msgs, clock),
         \A m \in msgs : Possible(m)',
         \A o \in Orders : plain'[o] # plain[o] =>
           \E m \in msgs : m.kind = "order" /\ m.id = o /\ IsNow(m, o)',
         \A c \in Conds : algo'[c] # algo[c] =>
           \E m \in msgs : m.kind = "algo" /\ m.id = c /\ m.st = algo'[c]
  PROVE  NeverAhead' /\ OnTheWay'
  <1>1. /\ gap => gap'
        /\ ~gap' => net \subseteq net' /\ msgs \subseteq net'
        /\ \A m \in net' : m \in net \/ m \in msgs
    BY EmitNews DEF IInv
  <1>2. \A m \in net' : m \in net \/ Possible(m)'
    BY <1>1
  <1>3. ~gap' => \A o \in Orders : plain'[o] # plain[o] =>
          \E m \in net' : m.kind = "order" /\ m.id = o /\ IsNow(m, o)'
    BY <1>1
  <1>4. ~gap' => \A c \in Conds : algo'[c] # algo[c] =>
          \E m \in net' : m.kind = "algo" /\ m.id = c /\ m.st = algo'[c]
    BY <1>1
  <1> QED BY <1>1, <1>2, <1>3, <1>4, NewsGrow

\* Rows, marks and ends, for the steps that leave the tracker alone.
LEMMA RowsMoved ==
  ASSUME IInv, TypeOK', NewsInv, Moves, trk' = trk,
         \A i \in Trades : \/ row'[Entry(i)] = row[Entry(i)]
                           \/ row'[Entry(i)] = plain'[Entry(i)].st
  PROVE  RowsFollow'
  <1> SUFFICES ASSUME NEW i \in Trades
               PROVE  /\ plain'[Entry(i)].st = "none" => row'[Entry(i)] = "none"
                      /\ plain'[Entry(i)].st # "none" /\ IsNow(trk[Entry(i)], Entry(i))'
                           => row'[Entry(i)] = plain'[Entry(i)].st
    BY DEF RowsFollow
  <1> DEFINE o == Entry(i)
  <1>1. o \in Orders
    BY EntryIs
  <1>2. /\ plain[o].st = "none" => row[o] = "none"
        /\ plain[o].st # "none" /\ IsNow(trk[o], o) => row[o] = plain[o].st
    BY DEF NewsInv, RowsFollow
  <1> HIDE DEF o
  <1>3. CASE row'[o] = plain'[o].st
    BY <1>3 DEF o
  <1>4. CASE row'[o] = row[o] /\ plain'[o] = plain[o]
    BY <1>2, <1>4 DEF o, IsNow
  <1>5. CASE plain'[o] # plain[o]
    <2>1. plain'[o].st # "none"
      BY <1>1, <1>5 DEF Moves, Moved, PlainStatus
    <2>2. ~IsNow(trk[o], o)'
      <3>1. CASE trk[o].st = "none"
        BY <2>1, <3>1 DEF IsNow
      <3>2. CASE trk[o].st # "none"
        <4>1. Behind(trk[o], o) /\ trk[o].st \in Status /\ trk[o].cum \in Nat
          BY <1>1, <3>2, TracksTyped DEF NewsInv, NeverAhead, IInv
        <4>2. ~(trk[o].st = plain'[o].st /\ trk[o].cum = plain'[o].cum)
          BY <1>1, <1>5, <4>1, BehindMoved DEF IInv, IsNow
        <4> QED BY <4>2 DEF IsNow
      <3> QED BY <3>1, <3>2
    <2> QED BY <2>1, <2>2 DEF o
  <1> QED BY <1>3, <1>4, <1>5 DEF o

LEMMA FinishedStays ==
  ASSUME IInv, NewsInv, NEW c \in Conds, tra[c] = "FINISHED"
  PROVE  algo[c] = "FINISHED" /\ AlgoRank[algo[c]] = 3
  <1>1. AlgoBehind(tra[c], c)
    BY DEF NewsInv, NeverAhead
  <1>2. AlgoRank[algo[c]] = 3 /\ algo[c] \in AlgoStatus
    BY <1>1, AlgoTyped, RankIs DEF AlgoBehind, IInv
  <1> QED BY <1>1, <1>2, RankIs DEF AlgoBehind

LEMMA MarksMoved ==
  ASSUME IInv, NewsInv, Moves, tra' = tra, marked \subseteq marked',
         \A i \in Trades : phase'[i] = "open" =>
           phase[i] = "open" \/ algo[<<i, "TP">>] = "none",
         pc = "act" /\ job.kind = "algo" /\ job.id[2] = "TP" =>
           (pc' = "act" /\ job' = job) \/ job.id[1] \in marked'
  PROVE  MarksFollow'
  <1> SUFFICES ASSUME NEW i \in Trades, phase'[i] = "open", tra[<<i, "TP">>] = "FINISHED",
                      plain'[<<i, "TP">>].st = "FILLED"
               PROVE  i \in marked' \/ (pc' = "act" /\ job'.kind = "algo"
                                        /\ job'.id = <<i, "TP">>)
    BY DEF MarksFollow
  <1> DEFINE c == <<i, "TP">>
  <1>1. c \in Conds /\ c \in Orders /\ c[1] = i /\ c[2] = "TP"
    BY OrderParts
  <1>2. algo[c] = "FINISHED"
    BY <1>1, FinishedStays
  <1>3. plain'[c] = plain[c]
    BY <1>1, <1>2 DEF Moves, Moved
  <1>4. phase[i] = "open"
    BY <1>2
  <1>5. i \in marked \/ (pc = "act" /\ job.kind = "algo" /\ job.id = c)
    BY <1>3, <1>4 DEF NewsInv, MarksFollow
  <1> QED BY <1>1, <1>5

LEMMA EndedMoved ==
  ASSUME NewsInv,
         \A o \in Orders : plain'[o] # plain[o] /\ plain'[o].st = "FILLED" => plain'[o].cum > 0,
         \A c \in Conds : algo'[c] = "FINISHED" =>
           (algo[c] = "FINISHED" /\ plain'[c] = plain[c]) \/ ~Live(c)'
  PROVE  Ended'
  <1>1. \A o \in Orders : plain'[o].st = "FILLED" => plain'[o].cum > 0
    BY DEF NewsInv, Ended
  <1>2. \A c \in Conds : algo'[c] = "FINISHED" => ~Live(c)'
    BY DEF NewsInv, Ended, Live
  <1> QED BY <1>1, <1>2 DEF Ended

LEMMA TaskKept ==
  ASSUME UNCHANGED task
  PROVE  pc = "act" /\ job.kind = "algo" /\ job.id[2] = "TP" =>
           (pc' = "act" /\ job' = job) \/ job.id[1] \in marked'
  BY DEF task

LEMMA SameMoves ==
  ASSUME UNCHANGED exchange
  PROVE  Moves
  BY DEF exchange, Moves

----------------------------------------------------------------------------
(* The exchange. *)

LEMMA FillNews == ASSUME IInv, IInv', NewsInv, NEW o \in Orders, Fill(o) PROVE NewsInv'
  <1> DEFINE s(c) == IF c = plain[o].qty THEN "FILLED" ELSE "PARTIALLY_FILLED"
             told(c) == OrderMsg(o, s(c), c, c - plain[o].cum, now + 1)
  <1>1. PICK c \in 1..Qty :
          /\ Live(o) /\ plain[o].cum < c /\ c <= plain[o].qty
          /\ plain' = [plain EXCEPT ![o] = [st |-> s(c), cum |-> c, qty |-> plain[o].qty]]
          /\ Emit({told(c)}, now + 1) /\ UNCHANGED algo /\ OnlyExchange
    BY DEF Fill
  <1>2. plain \in [Orders -> PlainRec] /\ plain[o].cum \in Nat
    BY PlainTyped, TypeParts DEF IInv, ExchangeTyped
  <1>3. /\ plain'[o].st = s(c) /\ plain'[o].cum = c
        /\ \A x \in Orders : x # o => plain'[x] = plain[x]
    BY <1>1, <1>2
  <1>4. s(c) \in PlainStatus /\ OrderRank[s(c)] \in 1..2
    BY RankIs, OrderRanks DEF PlainStatus
  <1>5. Moved(o)
    <2>1. plain[o].st \in {"NEW", "PARTIALLY_FILLED"}
      BY <1>1 DEF Live
    <2>2. OrderRank[plain[o].st] \in 0..1
      BY <2>1, OrderRanks
    <2>3. OrderRank[s(c)] >= OrderRank[plain[o].st]
      BY <1>4, <2>2
    <2>4. o \in Conds => algo[o] # "FINISHED"
      BY <1>1 DEF NewsInv, Ended
    <2> QED BY <1>1, <1>2, <1>3, <1>4, <2>2, <2>3, <2>4 DEF Moved
  <1>6. Moves
    BY <1>1, <1>3, <1>5 DEF Moves
  <1>0. PICK msg : msg = told(c)
    OBVIOUS
  <1>7. IsNow(msg, o)' /\ msg.kind = "order" /\ msg.id = o
    BY <1>0, <1>3 DEF IsNow, OrderMsg
  <1>8. Possible(msg)'
    <2>1. /\ plain'[o].st # "none" /\ msg.st = plain'[o].st /\ msg.cum = plain'[o].cum
          /\ c \in Nat /\ OrderRank[s(c)] \in Nat
      BY <1>0, <1>3, <1>4 DEF PlainStatus, OrderMsg
    <2> QED BY <1>3, <1>7, <2>1 DEF Possible, Behind
  <1>9. Emit({msg}, now + 1)
    BY <1>0, <1>1
  <1>10. UNCHANGED <<seen, trk, tra, phase, marked, row>> /\ UNCHANGED task
    BY <1>1 DEF OnlyExchange, tracker, record, orders
  <1>11. NeverAhead' /\ OnTheWay'
    <2>1. \A x \in Orders : plain'[x] # plain[x] =>
            \E m \in {msg} : m.kind = "order" /\ m.id = x /\ IsNow(m, x)'
      BY <1>3, <1>7
    <2>2. \A x \in Conds : algo'[x] = algo[x]
      BY <1>1
    <2> QED BY <1>6, <1>8, <1>9, <1>10, <2>1, <2>2, NewsTold DEF IInv
  <1>12. RowsFollow'
    BY <1>6, <1>10, RowsMoved DEF IInv
  <1>13. MarksFollow'
    BY <1>6, <1>10, TaskKept, MarksMoved
  <1>14. Ended'
    BY <1>1, <1>3, EndedMoved DEF NewsInv, Ended
  <1> QED BY <1>11, <1>12, <1>13, <1>14 DEF NewsInv

LEMMA ExpireNews ==
  ASSUME IInv, IInv', NewsInv, NEW i \in Trades, Expire(i)
  PROVE  NewsInv'
  <1> DEFINE o == Entry(i)
             new == [st |-> "EXPIRED", cum |-> plain[o].cum, qty |-> plain[o].qty]
             told == OrderMsg(o, "EXPIRED", plain[o].cum, 0, now + 1)
  <1>1. /\ Live(o) /\ plain' = [plain EXCEPT ![o] = new]
        /\ Emit({told}, now + 1) /\ UNCHANGED <<algo, fills>> /\ OnlyExchange
    BY DEF Expire
  <1>2. o \in Orders /\ o \notin Conds
    BY EntryIs
  <1> HIDE DEF o
  <1>3. plain \in [Orders -> PlainRec] /\ plain[o].cum \in Nat
    BY <1>2, PlainTyped, TypeParts DEF IInv, ExchangeTyped
  <1>4. /\ plain'[o].st = "EXPIRED" /\ plain'[o].cum = plain[o].cum
        /\ \A x \in Orders : x # o => plain'[x] = plain[x]
    BY <1>1, <1>2, <1>3
  <1>5. Moved(o)
    <2>1. plain[o].st \in {"NEW", "PARTIALLY_FILLED"}
      BY <1>1 DEF Live
    <2>2. OrderRank[plain[o].st] \in 0..1 /\ OrderRank["EXPIRED"] = 2
      BY <2>1, OrderRanks, RankIs
    <2> QED BY <1>2, <1>3, <1>4, <2>2 DEF Moved, PlainStatus
  <1>6. Moves
    BY <1>1, <1>4, <1>5 DEF Moves
  <1>0. PICK msg : msg = told
    OBVIOUS
  <1>7. IsNow(msg, o)' /\ msg.kind = "order" /\ msg.id = o
    BY <1>0, <1>4 DEF IsNow, OrderMsg
  <1>8. Possible(msg)'
    BY <1>0, <1>3, <1>4, RankIs DEF Possible, Behind, OrderMsg
  <1>9. Emit({msg}, now + 1)
    BY <1>0, <1>1
  <1>10. UNCHANGED <<seen, trk, tra, phase, marked, row>> /\ UNCHANGED task
    BY <1>1 DEF OnlyExchange, tracker, record, orders
  <1>11. NeverAhead' /\ OnTheWay'
    <2>1. \A x \in Orders : plain'[x] # plain[x] =>
            \E m \in {msg} : m.kind = "order" /\ m.id = x /\ IsNow(m, x)'
      BY <1>4, <1>7
    <2>2. \A x \in Conds : algo'[x] = algo[x]
      BY <1>1
    <2> QED BY <1>6, <1>8, <1>9, <1>10, <2>1, <2>2, NewsTold DEF IInv
  <1>12. RowsFollow'
    BY <1>6, <1>10, RowsMoved DEF IInv
  <1>13. MarksFollow'
    BY <1>6, <1>10, TaskKept, MarksMoved
  <1>14. Ended'
    BY <1>1, <1>2, <1>4, EndedMoved DEF NewsInv, Ended
  <1> QED BY <1>11, <1>12, <1>13, <1>14 DEF NewsInv

LEMMA TriggerNews ==
  ASSUME IInv, IInv', NewsInv, NEW c \in Conds, Trigger(c)
  PROVE  NewsInv'
  <1> DEFINE q == IF c[2] = "TP" THEN 1 ELSE Holding(c[1])
             first == AlgoMsg(c, "TRIGGERED", 0, TRUE, now + 1)
             second == OrderMsg(c, "NEW", 0, 0, now + 2)
  <1>1. /\ algo[c] = "NEW" /\ algo' = [algo EXCEPT ![c] = "TRIGGERED"]
        /\ plain' = [plain EXCEPT ![c] = [st |-> "NEW", cum |-> 0, qty |-> q]]
        /\ Emit({first, second}, now + 2) /\ OnlyExchange
    BY DEF Trigger
  <1>2. /\ plain \in [Orders -> PlainRec] /\ algo \in [Conds -> AlgoStatus \cup {"none"}]
        /\ c \in Orders /\ plain[c] = NoPlain
    BY <1>1, CondIs, TypeParts DEF IInv, ExchangeTyped, InTurn
  <1> HIDE DEF q
  <1>3. /\ plain'[c].st = "NEW" /\ plain'[c].cum = 0
        /\ \A x \in Orders : x # c => plain'[x] = plain[x]
        /\ algo'[c] = "TRIGGERED" /\ \A x \in Conds : x # c => algo'[x] = algo[x]
    BY <1>1, <1>2
  <1>4. Moved(c) /\ AlgoMoved(c)
    BY <1>1, <1>2, <1>3, RankIs DEF Moved, AlgoMoved, PlainStatus, NoPlain
  <1>5. Moves
    BY <1>3, <1>4 DEF Moves
  <1>0. PICK told, placed : told = first /\ placed = second
    OBVIOUS
  <1>6. /\ IsNow(placed, c)' /\ placed.kind = "order" /\ placed.id = c
        /\ told.kind = "algo" /\ told.id = c /\ told.st = "TRIGGERED"
    BY <1>0, <1>3 DEF IsNow, OrderMsg, AlgoMsg
  <1>7. Possible(placed)' /\ Possible(told)'
    <2>1. placed.st = "NEW" /\ placed.cum = 0
      BY <1>0 DEF OrderMsg
    <2>2. Possible(placed)'
      BY <1>3, <1>6, <2>1, RankIs, OrderRanks DEF Possible, Behind
    <2>3. Possible(told)'
      BY <1>3, <1>6, RankIs DEF Possible, AlgoBehind
    <2> QED BY <2>2, <2>3
  <1>8. Emit({told, placed}, now + 2)
    BY <1>0, <1>1
  <1>9. UNCHANGED <<seen, trk, tra, phase, marked, row>> /\ UNCHANGED task
    BY <1>1 DEF OnlyExchange, tracker, record, orders
  <1>10. \A m \in {told, placed} : Possible(m)'
    BY <1>7
  <1>11. NeverAhead' /\ OnTheWay'
    <2>1. \A x \in Orders : plain'[x] # plain[x] =>
            \E m \in {told, placed} : m.kind = "order" /\ m.id = x /\ IsNow(m, x)'
      BY <1>3, <1>6
    <2>2. \A x \in Conds : algo'[x] # algo[x] =>
            \E m \in {told, placed} : m.kind = "algo" /\ m.id = x /\ m.st = algo'[x]
      BY <1>3, <1>6
    <2> QED BY <1>5, <1>8, <1>9, <1>10, <2>1, <2>2, NewsTold DEF IInv
  <1>12. RowsFollow'
    BY <1>5, <1>9, RowsMoved DEF IInv
  <1>13. MarksFollow'
    BY <1>5, <1>9, TaskKept, MarksMoved
  <1>14. Ended'
    <2>1. \A x \in Conds : algo'[x] = "FINISHED" =>
            algo[x] = "FINISHED" /\ plain'[x] = plain[x]
      BY <1>3, OrderParts
    <2>2. \A x \in Orders : plain'[x] # plain[x] => plain'[x].st = "NEW"
      BY <1>3
    <2> QED BY <2>1, <2>2, EndedMoved
  <1> QED BY <1>11, <1>12, <1>13, <1>14 DEF NewsInv

LEMMA FinishNews ==
  ASSUME IInv, IInv', NewsInv, NEW c \in Conds, Finish(c)
  PROVE  NewsInv'
  <1> DEFINE told == AlgoMsg(c, "FINISHED", plain[c].cum, plain[c].st # "none", now + 1)
  <1>1. /\ \/ algo[c] = "TRIGGERED" /\ plain[c].st = "FILLED"
           \/ algo[c] = "NEW"
        /\ algo' = [algo EXCEPT ![c] = "FINISHED"]
        /\ Emit({told}, now + 1) /\ UNCHANGED plain /\ OnlyExchange
    BY DEF Finish
  <1>2. /\ algo \in [Conds -> AlgoStatus \cup {"none"}]
        /\ algo[c] = "NEW" => plain[c] = NoPlain
    BY TypeParts DEF IInv, ExchangeTyped, InTurn
  <1>3. algo'[c] = "FINISHED" /\ \A x \in Conds : x # c => algo'[x] = algo[x]
    BY <1>1, <1>2
  <1>4. AlgoMoved(c)
    BY <1>1, <1>3, RankIs DEF AlgoMoved
  <1>5. Moves
    BY <1>1, <1>3, <1>4 DEF Moves
  <1>0. PICK msg : msg = told
    OBVIOUS
  <1>6. /\ msg.kind = "algo" /\ msg.id = c /\ msg.st = "FINISHED" /\ msg.cum = plain[c].cum
    BY <1>0 DEF AlgoMsg
  <1>7. Possible(msg)'
    BY <1>1, <1>3, <1>6, RankIs DEF Possible, AlgoBehind
  <1>8. Emit({msg}, now + 1)
    BY <1>0, <1>1
  <1>9. UNCHANGED <<seen, trk, tra, phase, marked, row>> /\ UNCHANGED task
    BY <1>1 DEF OnlyExchange, tracker, record, orders
  <1>10. NeverAhead' /\ OnTheWay'
    <2>1. \A x \in Orders : plain'[x] = plain[x]
      BY <1>1
    <2>2. \A x \in Conds : algo'[x] # algo[x] =>
            \E m \in {msg} : m.kind = "algo" /\ m.id = x /\ m.st = algo'[x]
      BY <1>3, <1>6
    <2> QED BY <1>5, <1>7, <1>8, <1>9, <2>1, <2>2, NewsTold DEF IInv
  <1>11. RowsFollow'
    BY <1>5, <1>9, RowsMoved DEF IInv
  <1>12. MarksFollow'
    BY <1>5, <1>9, TaskKept, MarksMoved
  <1>13. Ended'
    <2>1. ~Live(c)'
      BY <1>1, <1>2 DEF Live, NoPlain
    <2> QED BY <1>1, <1>3, <2>1, EndedMoved
  <1> QED BY <1>10, <1>11, <1>12, <1>13 DEF NewsInv

----------------------------------------------------------------------------
(* Trades, recovery and the stream. *)

LEMMA PlaceNews ==
  ASSUME IInv, IInv', NewsInv, NEW i \in Trades, Place(i)
  PROVE  NewsInv'
  <1> DEFINE o == Entry(i)
             told == OrderMsg(o, "NEW", 0, 0, now + 1)
  <1>1. /\ phase[i] = "none" /\ pc = "free"
        /\ plain' = [plain EXCEPT ![o] = [st |-> "NEW", cum |-> 0, qty |-> Qty]]
        /\ row' = [row EXCEPT ![o] = "NEW"] /\ phase' = [phase EXCEPT ![i] = "pending"]
        /\ Emit({told}, now + 1) /\ UNCHANGED <<algo, marked, seen, tracker>>
    BY DEF Place
  <1>2. /\ o \in Orders /\ o \notin Conds /\ plain[o] = NoPlain
    BY <1>1, EntryIs DEF IInv, InTurn
  <1>3. plain \in [Orders -> PlainRec] /\ RowsTyped /\ RecordTyped
    BY TypeParts DEF IInv, ExchangeTyped
  <1> HIDE DEF o
  <1>4. /\ plain'[o].st = "NEW" /\ plain'[o].cum = 0 /\ row'[o] = "NEW"
        /\ \A x \in Orders : x # o => plain'[x] = plain[x] /\ row'[x] = row[x]
    BY <1>1, <1>2, <1>3 DEF RowsTyped
  <1>5. Moves
    BY <1>1, <1>2, <1>4 DEF Moves, Moved, PlainStatus, NoPlain
  <1>0. PICK msg : msg = told
    OBVIOUS
  <1>6. /\ IsNow(msg, o)' /\ msg.kind = "order" /\ msg.id = o
        /\ msg.st = "NEW" /\ msg.cum = 0
    BY <1>0, <1>4 DEF IsNow, OrderMsg
  <1>7. Possible(msg)'
    BY <1>4, <1>6, RankIs, OrderRanks DEF Possible, Behind
  <1>8. UNCHANGED <<seen, trk, tra>>
    BY <1>1 DEF tracker
  <1>9. NeverAhead' /\ OnTheWay'
    <2>1. \A x \in Orders : plain'[x] # plain[x] =>
            \E m \in {msg} : m.kind = "order" /\ m.id = x /\ IsNow(m, x)'
      BY <1>4, <1>6
    <2>2. Emit({msg}, now + 1)
      BY <1>0, <1>1
    <2> QED BY <1>1, <1>5, <1>7, <1>8, <2>1, <2>2, NewsTold DEF IInv
  <1>10. RowsFollow'
    <2>1. \A j \in Trades : \/ row'[Entry(j)] = row[Entry(j)]
                            \/ row'[Entry(j)] = plain'[Entry(j)].st
      BY <1>4, EntryIs
    <2> QED BY <1>5, <1>8, <2>1, RowsMoved DEF IInv
  <1>11. MarksFollow'
    <2>1. \A j \in Trades : phase'[j] = "open" => phase[j] = "open"
      BY <1>1, <1>3 DEF RecordTyped
    <2> QED BY <1>1, <1>5, <1>8, <2>1, MarksMoved
  <1>12. Ended'
    <2>1. \A x \in Conds : plain'[x] = plain[x] /\ algo'[x] = algo[x]
      BY <1>1, <1>2, <1>4, OrderParts
    <2>2. \A x \in Orders : plain'[x] # plain[x] => plain'[x].st = "NEW"
      BY <1>4
    <2> QED BY <2>1, <2>2, EndedMoved
  <1> QED BY <1>9, <1>10, <1>11, <1>12 DEF NewsInv

LEMMA ConfirmNews ==
  ASSUME IInv, IInv', NewsInv, NEW i \in Trades, Confirm(i)
  PROVE  NewsInv'
  <1> DEFINE o == Entry(i)
             one == AlgoMsg(<<i, "SL">>, "NEW", 0, FALSE, now + 1)
             two == AlgoMsg(<<i, "TP">>, "NEW", 0, FALSE, now + 2)
  <1>1. /\ pc # "act" /\ phase[i] = "pending" /\ ~Live(o)
        /\ algo' = [c \in Conds |-> IF c \in Guards(i) THEN "NEW" ELSE algo[c]]
        /\ row' = [x \in Orders |-> IF x = o THEN plain[o].st
                                   ELSE IF x \in Guards(i) THEN "NEW" ELSE row[x]]
        /\ phase' = [phase EXCEPT ![i] = "open"]
        /\ Emit({one, two}, now + 2)
        /\ UNCHANGED <<plain, marked, seen, tracker>>
    BY DEF Confirm
  <1>2. /\ RecordTyped /\ \A c \in Guards(i) : c \in Conds /\ algo[c] = "none"
    BY <1>1, GuardOf, TypeParts DEF IInv, InTurn
  <1>3. \A c \in Conds : algo'[c] = algo[c] \/ (c \in Guards(i) /\ algo'[c] = "NEW")
    BY <1>1
  <1>4. Moves
    BY <1>1, <1>2, <1>3 DEF Moves, AlgoMoved
  <1>0. PICK sl, tp : sl = one /\ tp = two
    OBVIOUS
  <1>5. /\ sl.kind = "algo" /\ sl.id = <<i, "SL">> /\ sl.st = "NEW"
        /\ tp.kind = "algo" /\ tp.id = <<i, "TP">> /\ tp.st = "NEW"
    BY <1>0 DEF AlgoMsg
  <1>6. /\ <<i, "SL">> \in Conds /\ <<i, "TP">> \in Conds
        /\ algo'[<<i, "SL">>] = "NEW" /\ algo'[<<i, "TP">>] = "NEW"
    BY <1>1, OrderParts DEF Guards
  <1>7. \A m \in {sl, tp} : Possible(m)'
    BY <1>5, <1>6, RankIs DEF Possible, AlgoBehind
  <1>8. UNCHANGED <<seen, trk, tra>>
    BY <1>1 DEF tracker
  <1>9. NeverAhead' /\ OnTheWay'
    <2>1. \A x \in Conds : algo'[x] # algo[x] =>
            \E m \in {sl, tp} : m.kind = "algo" /\ m.id = x /\ m.st = algo'[x]
      BY <1>3, <1>5 DEF Guards
    <2>2. Emit({sl, tp}, now + 2)
      BY <1>0, <1>1
    <2>3. \A x \in Orders : plain'[x] = plain[x]
      BY <1>1
    <2> QED BY <1>4, <1>7, <1>8, <2>1, <2>2, <2>3, NewsTold DEF IInv
  <1>10. RowsFollow'
    <2>1. \A j \in Trades : \/ row'[Entry(j)] = row[Entry(j)]
                            \/ row'[Entry(j)] = plain'[Entry(j)].st
      <3>1. \A j \in Trades : Entry(j) \in Orders /\ Entry(j) \notin Guards(i)
        BY EntryIs, GuardOf
      <3> QED BY <1>1, <3>1
    <2> QED BY <1>4, <1>8, <2>1, RowsMoved DEF IInv
  <1>11. MarksFollow'
    <2>1. \A j \in Trades : phase'[j] = "open" => phase[j] = "open" \/ j = i
      BY <1>1, <1>2 DEF RecordTyped
    <2>2. algo[<<i, "TP">>] = "none"
      BY <1>2 DEF Guards
    <2> QED BY <1>1, <1>4, <1>8, <2>1, <2>2, MarksMoved
  <1>12. Ended'
    <2>1. \A x \in Conds : algo'[x] = "FINISHED" => algo[x] = "FINISHED"
      BY <1>3
    <2> QED BY <1>1, <2>1, EndedMoved
  <1> QED BY <1>9, <1>10, <1>11, <1>12 DEF NewsInv

\* Steps that do nothing at the exchange.
LEMMA StandNews ==
  ASSUME IInv, IInv', NewsInv, UNCHANGED <<exchange, network, seen, tracker>>
  PROVE  NeverAhead' /\ OnTheWay' /\ Ended'
  <1>1. Moves
    BY SameMoves
  <1>2. UNCHANGED <<plain, algo, net, gap, trk, tra, seen>>
    BY DEF exchange, network, tracker
  <1>3. NeverAhead' /\ OnTheWay'
    <2>1. \A m \in net' : m \in net
      BY <1>2
    <2> QED BY <1>1, <1>2, <2>1, NewsGrow DEF IInv
  <1>4. Ended'
    BY <1>2 DEF NewsInv, Ended, Live
  <1> QED BY <1>3, <1>4

LEMMA GiveUpNews ==
  ASSUME IInv, IInv', NewsInv, NEW i \in Trades, GiveUp(i)
  PROVE  NewsInv'
  <1>1. /\ pc # "act" /\ row' = [row EXCEPT ![Entry(i)] = "EXPIRED"]
        /\ plain[Entry(i)].st = "EXPIRED"
        /\ phase' = [phase EXCEPT ![i] = "closed"]
        /\ UNCHANGED <<exchange, network, marked, seen, tracker>>
    BY DEF GiveUp
  <1>2. NeverAhead' /\ OnTheWay' /\ Ended' /\ Moves
    BY <1>1, StandNews, SameMoves
  <1>3. RowsTyped /\ RecordTyped /\ UNCHANGED <<trk, tra, plain>>
    BY <1>1, TypeParts DEF IInv, tracker, exchange
  <1>4. RowsFollow'
    <2>1. \A j \in Trades : \/ row'[Entry(j)] = row[Entry(j)]
                            \/ row'[Entry(j)] = plain'[Entry(j)].st
      BY <1>1, <1>3, EntryIs DEF RowsTyped
    <2> QED BY <1>2, <1>3, <2>1, RowsMoved DEF IInv
  <1>5. MarksFollow'
    <2>1. \A j \in Trades : phase'[j] = "open" => phase[j] = "open"
      BY <1>1, <1>3 DEF RecordTyped
    <2> QED BY <1>1, <1>2, <1>3, <2>1, MarksMoved
  <1> QED BY <1>2, <1>4, <1>5 DEF NewsInv

\* Closing a trade cancels what is open; whoever closes has marked the target.
LEMMA CloseNews ==
  ASSUME IInv, IInv', NewsInv, NEW i \in Trades, Close(i), marked \subseteq marked',
         pc = "act" /\ job.kind = "algo" /\ job.id[2] = "TP" =>
           (pc' = "act" /\ job' = job) \/ job.id[1] \in marked'
  PROVE  NewsInv'
  <1>1. PICK done \in SUBSET ToCancel(i) :
          LET gone == {c \in done : algo[c] = "NEW"} IN
          /\ algo' = [c \in Conds |-> IF c \in gone THEN "CANCELED" ELSE algo[c]]
          /\ row' = [o \in Orders |-> IF o \in done THEN algo'[o] ELSE row[o]]
          /\ phase' = [phase EXCEPT ![i] = "closed"]
          /\ Emit({AlgoMsg(c, "CANCELED", 0, FALSE,
                           now + IF c[2] = "TP" THEN 1 ELSE 2) : c \in gone}, now + 2)
          /\ UNCHANGED <<plain, seen, tracker>>
    BY DEF Close
  <1> DEFINE gone == {c \in done : algo[c] = "NEW"}
             at(c) == now + IF c[2] = "TP" THEN 1 ELSE 2
             told == {AlgoMsg(c, "CANCELED", 0, FALSE, at(c)) : c \in gone}
  <1>2. \A c \in done : c \in Conds /\ c \in Guards(i)
    BY GuardOf DEF ToCancel
  <1>3. Emit(told, now + 2)
    BY <1>1
  <1>0. PICK G, msgs : G = gone /\ msgs = told
    OBVIOUS
  <1>4. /\ \A c \in Conds : algo'[c] = IF c \in G THEN "CANCELED" ELSE algo[c]
        /\ \A c \in G : c \in Conds /\ algo[c] = "NEW"
    BY <1>0, <1>1, <1>2
  <1>5. Moves
    BY <1>1, <1>4, RankIs DEF Moves, AlgoMoved
  <1>6. /\ \A m \in msgs : m.kind = "algo" /\ m.id \in G /\ m.st = "CANCELED"
        /\ \A c \in G : \E m \in msgs : m.kind = "algo" /\ m.id = c /\ m.st = "CANCELED"
    <2>1. \A c \in G : AlgoMsg(c, "CANCELED", 0, FALSE, at(c)) \in msgs
      BY <1>0
    <2>2. \A m \in msgs : \E c \in G : m = AlgoMsg(c, "CANCELED", 0, FALSE, at(c))
      BY <1>0
    <2>3. \A c \in G : LET m == AlgoMsg(c, "CANCELED", 0, FALSE, at(c)) IN
                       m.kind = "algo" /\ m.id = c /\ m.st = "CANCELED"
      BY DEF AlgoMsg
    <2> HIDE DEF at
    <2>4. ASSUME NEW m \in msgs
          PROVE  m.kind = "algo" /\ m.id \in G /\ m.st = "CANCELED"
      <3>1. PICK c \in G : m = AlgoMsg(c, "CANCELED", 0, FALSE, at(c))
        BY <2>2
      <3> QED BY <3>1 DEF AlgoMsg
    <2>5. \A c \in G : \E m \in msgs : m.kind = "algo" /\ m.id = c /\ m.st = "CANCELED"
      BY <2>1, <2>3
    <2> QED BY <2>4, <2>5
  <1>7. \A m \in msgs : Possible(m)'
    <2> SUFFICES ASSUME NEW m \in msgs PROVE Possible(m)'
      OBVIOUS
    <2>1. m.kind = "algo" /\ m.id \in Conds /\ m.st = "CANCELED" /\ algo'[m.id] = "CANCELED"
      BY <1>4, <1>6
    <2> QED BY <2>1, RankIs DEF Possible, AlgoBehind
  <1>8. UNCHANGED <<seen, trk, tra>>
    BY <1>1 DEF tracker
  <1>9. NeverAhead' /\ OnTheWay'
    <2>1. \A x \in Conds : algo'[x] # algo[x] =>
            \E m \in msgs : m.kind = "algo" /\ m.id = x /\ m.st = algo'[x]
      BY <1>4, <1>6
    <2>2. Emit(msgs, now + 2)
      BY <1>0, <1>3
    <2>3. \A x \in Orders : plain'[x] = plain[x]
      BY <1>1
    <2> QED BY <1>5, <1>7, <1>8, <2>1, <2>2, <2>3, NewsTold DEF IInv
  <1>10. RowsFollow'
    <2>1. \A j \in Trades : row'[Entry(j)] = row[Entry(j)]
      BY <1>1, <1>2, EntryIs
    <2> QED BY <1>5, <1>8, <2>1, RowsMoved DEF IInv
  <1>11. MarksFollow'
    <2>1. \A j \in Trades : phase'[j] = "open" => phase[j] = "open"
      BY <1>1, TypeParts DEF IInv, RecordTyped
    <2> QED BY <1>5, <1>8, <2>1, MarksMoved
  <1>12. Ended'
    <2>1. \A x \in Conds : algo'[x] = "FINISHED" => algo[x] = "FINISHED"
      BY <1>4
    <2> QED BY <1>1, <2>1, EndedMoved
  <1> QED BY <1>9, <1>10, <1>11, <1>12 DEF NewsInv

LEMMA CloseFlatNews ==
  ASSUME IInv, IInv', NewsInv, NEW i \in Trades, CloseFlat(i)
  PROVE  NewsInv'
  BY CloseNews DEF CloseFlat

LEMMA ActNews == ASSUME IInv, IInv', NewsInv, Act PROVE NewsInv'
  <1>1. pc = "act" /\ Mark
    BY DEF Act
  <1>2. /\ marked \subseteq marked'
        /\ job.kind = "algo" /\ job.id[2] = "TP" => job.id[1] \in marked'
    BY <1>1 DEF Mark, MarksTarget
  <1>3. CASE UNCHANGED <<exchange, network, orders, phase, synced, book, seen, tracker,
                         lives, trouble>>
    <2>1. NeverAhead' /\ OnTheWay' /\ Ended' /\ Moves
      BY <1>3, StandNews, SameMoves
    <2>2. UNCHANGED <<trk, tra, row, phase>>
      BY <1>3 DEF tracker, orders
    <2>3. RowsFollow'
      BY <2>1, <2>2, RowsMoved DEF IInv
    <2>4. MarksFollow'
      BY <1>2, <2>1, <2>2, MarksMoved
    <2> QED BY <2>1, <2>3, <2>4 DEF NewsInv
  <1>4. CASE \E i \in Trades : Close(i)
    BY <1>2, <1>4, CloseNews
  <1> QED BY <1>3, <1>4 DEF Act

LEMMA RefreshRowNews ==
  ASSUME IInv, IInv', NewsInv, NEW o \in Orders, RefreshRow(o)
  PROVE  NewsInv'
  <1>1. /\ row' = [row EXCEPT ![o] = IF o \in Conds THEN algo[o] ELSE plain[o].st]
        /\ UNCHANGED <<exchange, network, record, seen, tracker, task>>
    BY DEF RefreshRow
  <1>2. NeverAhead' /\ OnTheWay' /\ Ended' /\ Moves
    BY <1>1, StandNews, SameMoves
  <1>3. RowsTyped /\ UNCHANGED <<trk, tra, plain, phase, marked>>
    BY <1>1, TypeParts DEF IInv, tracker, exchange, record
  <1>4. RowsFollow'
    <2>1. \A j \in Trades : \/ row'[Entry(j)] = row[Entry(j)]
                            \/ row'[Entry(j)] = plain'[Entry(j)].st
      BY <1>1, <1>3, EntryIs DEF RowsTyped
    <2> QED BY <1>2, <1>3, <2>1, RowsMoved DEF IInv
  <1>5. MarksFollow'
    BY <1>1, <1>2, <1>3, TaskKept, MarksMoved
  <1> QED BY <1>2, <1>4, <1>5 DEF NewsInv

\* What is not lost of the messages on the way.
LEMMA StreamNews ==
  ASSUME IInv, IInv', NewsInv, gap => gap', ~gap' => net' = net, net' \subseteq net,
         UNCHANGED <<exchange, orders, record, seen, tracker, task>>
  PROVE  NewsInv'
  <1>1. Moves /\ UNCHANGED <<plain, algo, seen, trk, tra, row, phase, marked>>
    BY SameMoves DEF exchange, orders, record, tracker
  <1>2. NeverAhead' /\ OnTheWay'
    <2>1. ~gap' => net \subseteq net'
      OBVIOUS
    <2>2. \A m \in net' : m \in net
      OBVIOUS
    <2> QED BY <1>1, <2>1, <2>2, NewsGrow DEF IInv
  <1>3. RowsFollow'
    BY <1>1, RowsMoved DEF IInv
  <1>4. MarksFollow'
    BY <1>1, TaskKept, MarksMoved
  <1>5. Ended'
    BY <1>1, EndedMoved
  <1> QED BY <1>2, <1>3, <1>4, <1>5 DEF NewsInv

LEMMA DisconnectNews == ASSUME IInv, IInv', NewsInv, Disconnect PROVE NewsInv'
  <1>1. PICK kept \in SUBSET net : net' = kept /\ gap' = (gap \/ kept # net)
    BY DEF Disconnect
  <1>2. gap \in BOOLEAN
    BY TypeParts DEF IInv, NetTyped
  <1> QED BY <1>1, <1>2, StreamNews DEF Disconnect

LEMMA ReconnectNews == ASSUME IInv, IInv', NewsInv, Reconnect PROVE NewsInv'
  BY StreamNews DEF Reconnect

LEMMA CrashNews == ASSUME IInv, IInv', NewsInv, Crash PROVE NewsInv'
  <1>1. /\ net' = {} /\ gap' = TRUE /\ seen' = <<>>
        /\ trk' = [o \in Orders |-> NoTracked] /\ tra' = [c \in Conds |-> "none"]
        /\ UNCHANGED <<plain, algo, row>>
    BY DEF Crash, exchange, orders
  <1>2. NeverAhead' /\ OnTheWay'
    BY <1>1 DEF NeverAhead, OnTheWay, NoTracked
  <1>3. RowsFollow'
    BY <1>1, EntryIs DEF NewsInv, RowsFollow, NoTracked, IsNow
  <1>4. MarksFollow'
    BY <1>1, OrderParts DEF MarksFollow
  <1>5. Ended'
    BY <1>1 DEF NewsInv, Ended, Live
  <1> QED BY <1>2, <1>3, <1>4, <1>5 DEF NewsInv

----------------------------------------------------------------------------
(* Messages that are taken in. *)

LEMMA RememberSeen ==
  ASSUME TypeOK, NEW m \in Message, Remember(m), NEW k \in DOMAIN seen'
  PROVE  seen'[k] = m \/ \E j \in DOMAIN seen : seen'[k] = seen[j]
  <1>1. seen \in Seq(Message)
    BY TypeParts DEF MemoryTyped
  <1> DEFINE s == Append(seen, m)
  <1>2. /\ s \in Seq(Message) /\ Len(s) = Len(seen) + 1 /\ s # << >>
        /\ \A j \in 1..Len(seen) : s[j] = seen[j]
        /\ s[Len(seen) + 1] = m /\ DOMAIN seen = 1..Len(seen) /\ Len(seen) \in Nat
        /\ DOMAIN s = 1..Len(seen) + 1
    BY <1>1, AppendProperties
  <1>3. \A j \in DOMAIN s : s[j] = m \/ \E l \in DOMAIN seen : s[j] = seen[l]
    BY <1>2
  <1>4. CASE seen' = s
    BY <1>3, <1>4
  <1>5. CASE seen' = Tail(s)
    <2>1. /\ DOMAIN Tail(s) = 1..Len(s) - 1
          /\ \A j \in 1..Len(s) - 1 : Tail(s)[j] = s[j + 1]
      BY <1>2, HeadTailProperties
    <2>2. k + 1 \in DOMAIN s /\ seen'[k] = s[k + 1]
      BY <1>2, <1>5, <2>1
    <2> QED BY <1>3, <2>2
  <1> HIDE DEF s
  <1> QED BY <1>4, <1>5 DEF Remember, s

LEMMA TakeNews ==
  ASSUME IInv, IInv', NewsInv, UNCHANGED exchange, NEW m, Take(m), TakenIn(m)',
         \A k \in DOMAIN seen' : seen'[k] = m \/ \E j \in DOMAIN seen : seen'[k] = seen[j],
         \A o \in Orders : plain[o].st # "none" /\ IsNow(trk[o], o) => IsNow(trk'[o], o),
         \A c \in Conds : tra[c] = algo[c] => tra'[c] = tra[c],
         \A o \in Orders : trk'[o].st # "none" => Behind(trk'[o], o),
         \A c \in Conds : tra'[c] # "none" => AlgoBehind(tra'[c], c)
  PROVE  NeverAhead' /\ OnTheWay'
  <1>1. /\ UNCHANGED <<plain, algo, gap>> /\ m \in net
        /\ net' \subseteq net /\ net \subseteq net' \cup {m}
    BY DEF Take, exchange
  <1>2. \A x : /\ Possible(x) => Possible(x)'
               /\ \A o : IsNow(x, o) <=> IsNow(x, o)'
    BY <1>1 DEF Possible, Behind, AlgoBehind, IsNow
  <1>3. ASSUME NEW x, x \in net \/ \E j \in DOMAIN seen : x = seen[j]
        PROVE  x \in Message /\ Possible(x)'
    BY <1>2, <1>3, TracksTyped DEF NewsInv, NeverAhead, IInv
  <1>4. ASSUME NEW x \in Message, Possible(x), TakenIn(x)
        PROVE  TakenIn(x)'
    <2>1. ASSUME x.kind = "order", IsNow(x, x.id)'
          PROVE  IsNow(trk[x.id], x.id)'
      <3>1. x.id \in Orders /\ plain[x.id].st # "none"
        BY <1>4, <2>1, MessageParts DEF Possible, Behind
      <3>2. IsNow(trk[x.id], x.id)
        BY <1>2, <1>4, <2>1 DEF TakenIn
      <3> QED BY <1>1, <3>1, <3>2 DEF IsNow
    <2>2. x.kind = "algo" /\ x.st = algo'[x.id] => tra'[x.id] = x.st
      BY <1>1, <1>4 DEF TakenIn, Possible
    <2> QED BY <2>1, <2>2 DEF TakenIn
  <1>5. ASSUME NEW k \in DOMAIN seen'
        PROVE  Possible(seen[k])' /\ TakenIn(seen[k])'
    <2>1. PICK x : x = seen'[k]
      OBVIOUS
    <2>2. CASE x = m
      BY <1>1, <1>3, <2>1, <2>2 DEF Possible, TakenIn
    <2>3. CASE \E j \in DOMAIN seen : x = seen[j]
      <3>1. x \in Message /\ Possible(x) /\ TakenIn(x)
        BY <2>3, <1>3 DEF NewsInv, NeverAhead
      <3>2. Possible(x)' /\ TakenIn(x)'
        BY <1>2, <1>4, <3>1
      <3> QED BY <2>1, <3>2
    <2> QED BY <2>1, <2>2, <2>3
  <1>6. NeverAhead'
    <2>1. \A x \in net' : Possible(x)'
      BY <1>1, <1>3
    <2>2. \A o \in Orders : trk'[o].st # "none" => Behind(trk[o], o)'
      BY <1>1 DEF Behind
    <2>3. \A c \in Conds : tra'[c] # "none" => AlgoBehind(tra[c], c)'
      BY <1>1 DEF AlgoBehind
    <2> QED BY <1>5, <2>1, <2>2, <2>3 DEF NeverAhead
  <1>7. ASSUME ~gap', NEW o \in Orders, plain'[o].st # "none", ~IsNow(trk[o], o)'
        PROVE  \E x \in net' : x.kind = "order" /\ x.id = o /\ IsNow(x, o)'
    <2>1. ~IsNow(trk[o], o)
      BY <1>1, <1>7 DEF IsNow
    <2>2. PICK x \in net : x.kind = "order" /\ x.id = o /\ IsNow(x, o)
      BY <1>1, <1>7, <2>1 DEF NewsInv, OnTheWay
    <2>3. x # m
      BY <1>2, <1>7, <2>2 DEF TakenIn
    <2> QED BY <1>1, <1>2, <2>2, <2>3
  <1>8. ASSUME ~gap', NEW c \in Conds, algo'[c] # "none", tra'[c] # algo'[c]
        PROVE  \E x \in net' : x.kind = "algo" /\ x.id = c /\ x.st = algo'[c]
    <2>1. tra[c] # algo[c]
      BY <1>1, <1>8
    <2>2. PICK x \in net : x.kind = "algo" /\ x.id = c /\ x.st = algo[c]
      BY <1>1, <1>8, <2>1 DEF NewsInv, OnTheWay
    <2>3. x # m
      BY <1>1, <1>8, <2>2 DEF TakenIn
    <2> QED BY <1>1, <2>2, <2>3
  <1> QED BY <1>6, <1>7, <1>8 DEF OnTheWay

LEMMA RepeatNews == ASSUME IInv, IInv', NewsInv, NEW m, Repeat(m) PROVE NewsInv'
  <1>1. Take(m) /\ UNCHANGED <<exchange, orders, record, seen, tracker, task>>
    BY DEF Repeat
  <1>2. Moves /\ UNCHANGED <<plain, algo, seen, trk, tra, row, phase, marked>>
    BY <1>1, SameMoves DEF exchange, orders, record, tracker
  <1>3. TakenIn(m)'
    <2>1. PICK k \in DOMAIN seen : seen[k] = m
      BY DEF Repeat, InSeen
    <2>2. TakenIn(m)
      BY <2>1 DEF NewsInv, NeverAhead
    <2> QED BY <1>2, <2>2 DEF TakenIn, IsNow
  <1>4. NeverAhead' /\ OnTheWay'
    BY <1>1, <1>2, <1>3, TakeNews DEF NewsInv, NeverAhead
  <1>5. RowsFollow'
    BY <1>2, RowsMoved DEF IInv
  <1>6. MarksFollow'
    BY <1>1, <1>2, TaskKept, MarksMoved
  <1>7. Ended'
    BY <1>2, EndedMoved
  <1> QED BY <1>4, <1>5, <1>6, <1>7 DEF NewsInv

\* The tracker takes what tells how the order is now, and keeps it.
LEMMA TrackedNow ==
  ASSUME TypeOK, NEW t \in Tracks, NEW m \in Message, Behind(m, m.id),
         t.st # "none" => Behind(t, m.id)
  PROVE  /\ Tracked(t, m).st # "none" => Behind(Tracked(t, m), m.id)
         /\ IsNow(t, m.id) \/ IsNow(m, m.id) => IsNow(Tracked(t, m), m.id)
  <1> DEFINE p == plain[m.id]
  <1>1. /\ m.id \in Orders /\ m.st \in Status /\ m.cum \in Nat
        /\ t.st \in Status \cup {"none"} /\ t.cum \in Nat
    BY MessageParts DEF Tracks
  <1>2. /\ p.st # "none" /\ p.st \in Status /\ p.cum \in Nat /\ OrderRank[p.st] \in 0..2
        /\ OrderRank[m.st] \in 0..2 /\ (t.st # "none" => OrderRank[t.st] \in 0..2)
    BY <1>1, PlainRank, OrderRanks DEF Behind
  <1>3. /\ m.cum <= p.cum /\ OrderRank[m.st] <= OrderRank[p.st]
        /\ OrderRank[m.st] = 2 => m.st = p.st
    BY DEF Behind
  <1>4. t.st # "none" => /\ t.cum <= p.cum /\ OrderRank[t.st] <= OrderRank[p.st]
                         /\ OrderRank[t.st] = 2 => t.st = p.st
    BY DEF Behind
  <1>5. CASE Accepts(t, m)
    <2>1. Tracked(t, m).st = m.st /\ Tracked(t, m).cum = m.cum
      BY <1>5 DEF Tracked
    <2>2. Behind(Tracked(t, m), m.id)
      BY <2>1 DEF Behind
    <2>3. ASSUME t.st = p.st, t.cum = p.cum
          PROVE  m.st = p.st /\ m.cum = p.cum
      <3>1. m.cum >= t.cum /\ OrderRank[m.st] >= OrderRank[t.st]
        BY <1>1, <1>2, <1>5, <2>3 DEF Accepts, Stale
      <3>2. m.cum = p.cum /\ OrderRank[m.st] = OrderRank[p.st]
        BY <1>1, <1>2, <1>3, <2>3, <3>1
      <3> QED BY <1>1, <1>2, <1>3, <3>2, RankIs
    <2> HIDE DEF p
    <2> QED BY <2>1, <2>2, <2>3 DEF IsNow, p
  <1>6. CASE ~Accepts(t, m)
    <2>1. Tracked(t, m) = t
      BY <1>6 DEF Tracked
    <2>2. ASSUME m.st = p.st, m.cum = p.cum
          PROVE  t.st = p.st /\ t.cum = p.cum
      <3>1. CASE m.st = t.st /\ m.cum = t.cum
        BY <2>2, <3>1
      <3>2. CASE t.st # "none" /\ Stale(t, m)
        <4>1. /\ ~(m.cum < t.cum) /\ ~(OrderRank[m.st] < OrderRank[t.st])
              /\ ~(OrderRank[m.st] = 2 /\ OrderRank[t.st] = 2 /\ m.st # t.st)
          BY <1>1, <1>2, <1>4, <2>2, <3>2
        <4>2. m.cum <= t.cum /\ OrderRank[m.st] <= OrderRank[t.st]
          BY <3>2, <4>1 DEF Stale
        <4>3. m.cum = t.cum /\ OrderRank[m.st] = OrderRank[t.st]
          BY <1>1, <1>2, <3>2, <4>1, <4>2
        <4> QED BY <1>1, <1>2, <1>4, <2>2, <3>2, <4>3, RankIs
      <3> QED BY <1>6, <3>1, <3>2 DEF Accepts
    <2>3. t.st # "none" => Behind(t, m.id)
      OBVIOUS
    <2> HIDE DEF p
    <2> QED BY <2>1, <2>2, <2>3 DEF IsNow, p
  <1> QED BY <1>5, <1>6

LEMMA HandleOrderNews ==
  ASSUME IInv, IInv', NewsInv, NEW m, HandleOrder(m)
  PROVE  NewsInv'
  <1> DEFINE o == m.id
  <1>1. /\ Take(m) /\ m.kind = "order" /\ Remember(m)
        /\ trk' = [trk EXCEPT ![o] = Tracked(trk[o], m)]
        /\ row' = IF o[2] = "EN" /\ Accepts(trk[o], m) THEN [row EXCEPT ![o] = m.st] ELSE row
        /\ UNCHANGED <<exchange, record, tra>>
    BY DEF HandleOrder
  <1>2. m \in net /\ m \in Message /\ o \in Orders /\ pc = "free" /\ TypeOK
    BY <1>1, TakeKeeps, MessageParts DEF IInv
  <1>3. /\ Behind(m, o) /\ trk[o] \in Tracks /\ (trk[o].st # "none" => Behind(trk[o], o))
    BY <1>1, <1>2, TracksTyped DEF NewsInv, NeverAhead, Possible
  <1>4. /\ Tracked(trk[o], m).st # "none" => Behind(Tracked(trk[o], m), o)
        /\ IsNow(trk[o], o) \/ IsNow(m, o) => IsNow(Tracked(trk[o], m), o)
    BY <1>2, <1>3, TrackedNow
  <1>5. /\ trk'[o] = Tracked(trk[o], m)
        /\ \A x \in Orders : x # o => trk'[x] = trk[x]
    BY <1>1, <1>2, TypeParts DEF MemoryTyped
  <1>6. Moves /\ UNCHANGED <<plain, algo, tra, phase, marked>>
    BY <1>1, SameMoves DEF exchange, record
  <1> HIDE DEF o
  <1>7. NeverAhead' /\ OnTheWay'
    <2>1. TakenIn(m)'
      BY <1>1, <1>4, <1>5, <1>6 DEF TakenIn, IsNow, o
    <2>2. \A k \in DOMAIN seen' : seen'[k] = m \/ \E j \in DOMAIN seen : seen'[k] = seen[j]
      BY <1>1, <1>2, RememberSeen
    <2>3. \A x \in Orders : IsNow(trk[x], x) => IsNow(trk'[x], x)
      BY <1>4, <1>5
    <2>4. \A x \in Orders : trk'[x].st # "none" => Behind(trk'[x], x)
      BY <1>4, <1>5 DEF NewsInv, NeverAhead
    <2>5. \A c \in Conds : tra'[c] # "none" => AlgoBehind(tra'[c], c)
      BY <1>6 DEF NewsInv, NeverAhead
    <2> QED BY <1>1, <1>6, <2>1, <2>2, <2>3, <2>4, <2>5, TakeNews
  <1>8. RowsFollow'
    <2> SUFFICES ASSUME NEW i \in Trades
                 PROVE  /\ plain'[Entry(i)].st = "none" => row'[Entry(i)] = "none"
                        /\ plain'[Entry(i)].st # "none" /\ IsNow(trk[Entry(i)], Entry(i))'
                             => row'[Entry(i)] = plain'[Entry(i)].st
      BY DEF RowsFollow
    <2> DEFINE e == Entry(i)
    <2>1. /\ e \in Orders /\ RowsTyped
          /\ plain[e].st = "none" => row[e] = "none"
          /\ plain[e].st # "none" /\ IsNow(trk[e], e) => row[e] = plain[e].st
      BY <1>2, EntryIs, TypeParts DEF NewsInv, RowsFollow
    <2> HIDE DEF e
    <2>2. CASE e = o /\ Accepts(trk[o], m)
      <3>1. trk'[e].st = m.st
        BY <1>5, <2>2 DEF Tracked
      <3>2. row'[e] = m.st \/ row'[e] = row[e]
        BY <1>1, <2>1, <2>2 DEF RowsTyped
      <3>3. row'[e] = m.st
        <4>1. e[2] = "EN"
          BY DEF e, Entry
        <4> QED BY <1>1, <2>1, <2>2, <4>1 DEF RowsTyped
      <3>4. plain[e].st # "none"
        BY <1>3, <2>2 DEF Behind
      <3> QED BY <1>6, <3>1, <3>3, <3>4 DEF IsNow, e
    <2>3. CASE ~(e = o /\ Accepts(trk[o], m))
      <3>1. row'[e] = row[e]
        BY <1>1, <2>1, <2>3 DEF RowsTyped
      <3>2. trk'[e] = trk[e]
        BY <1>5, <2>1, <2>3 DEF Tracked
      <3> QED BY <1>6, <2>1, <3>1, <3>2 DEF IsNow, e
    <2> QED BY <2>2, <2>3
  <1>9. MarksFollow'
    BY <1>2, <1>6, MarksMoved
  <1>10. Ended'
    BY <1>6, EndedMoved
  <1> QED BY <1>7, <1>8, <1>9, <1>10 DEF NewsInv

LEMMA HandleAlgoNews ==
  ASSUME IInv, IInv', NewsInv, NEW m, HandleAlgo(m)
  PROVE  NewsInv'
  <1> DEFINE c == m.id
  <1>1. /\ Take(m) /\ m.kind = "algo" /\ Remember(m)
        /\ tra' = [tra EXCEPT ![c] = NewAlgo(tra[c], m)]
        /\ row' = [row EXCEPT ![c] = m.st]
        /\ UNCHANGED <<exchange, record, trk>>
        /\ c[1] \in Active /\ AlgoChanges(tra[c], m) /\ c[2] = "TP" /\ m.st = "FINISHED"
             /\ m.cum > 0 => pc' = "act" /\ job' = m
    BY DEF HandleAlgo
  <1>2. m \in net /\ m \in Message /\ c \in Orders /\ pc = "free" /\ TypeOK
    BY <1>1, TakeKeeps, MessageParts DEF IInv
  <1>3. /\ Possible(m) /\ c \in Conds /\ AlgoBehind(m.st, c) /\ m.st \in Status
        /\ tra[c] # "none" => AlgoBehind(tra[c], c) /\ tra[c] \in Status
    BY <1>1, <1>2, TracksTyped, MessageParts DEF NewsInv, NeverAhead, Possible
  <1>4. Moves /\ UNCHANGED <<plain, algo, trk, phase, marked>>
    BY <1>1, SameMoves DEF exchange, record
  <1> HIDE DEF c
  <1>5. /\ tra'[c] = NewAlgo(tra[c], m)
        /\ \A x \in Conds : x # c => tra'[x] = tra[x]
    BY <1>1, <1>2, <1>3, TypeParts DEF MemoryTyped
  <1>6. /\ algo[c] # "none" /\ AlgoRank[algo[c]] \in 0..3 /\ AlgoRank[m.st] \in 0..3
        /\ tra[c] # "none" => AlgoRank[tra[c]] \in 0..3
    BY <1>2, <1>3, AlgoTyped, AlgoRanks DEF AlgoBehind
  <1>7. /\ NewAlgo(tra[c], m) # "none" => AlgoBehind(NewAlgo(tra[c], m), c)
        /\ tra[c] = algo[c] \/ m.st = algo[c] => NewAlgo(tra[c], m) = algo[c]
    BY <1>3, <1>6 DEF NewAlgo, AlgoChanges, AlgoBehind
  <1>8. NeverAhead' /\ OnTheWay'
    <2>1. TakenIn(m)'
      BY <1>1, <1>4, <1>5, <1>7 DEF TakenIn, c
    <2>2. \A k \in DOMAIN seen' : seen'[k] = m \/ \E j \in DOMAIN seen : seen'[k] = seen[j]
      BY <1>1, <1>2, RememberSeen
    <2>3. \A x \in Conds : tra[x] = algo[x] => tra'[x] = tra[x]
      BY <1>5, <1>7
    <2>4. \A x \in Conds : tra'[x] # "none" => AlgoBehind(tra'[x], x)
      BY <1>5, <1>7 DEF NewsInv, NeverAhead
    <2>5. \A x \in Orders : trk'[x].st # "none" => Behind(trk'[x], x)
      BY <1>4 DEF NewsInv, NeverAhead
    <2> QED BY <1>1, <1>4, <2>1, <2>2, <2>3, <2>4, <2>5, TakeNews
  <1>9. RowsFollow'
    <2>1. \A j \in Trades : row'[Entry(j)] = row[Entry(j)]
      BY <1>1, <1>2, <1>3, EntryIs, TypeParts DEF RowsTyped, c
    <2> QED BY <1>4, <2>1, RowsMoved DEF IInv
  <1>10. MarksFollow'
    <2> SUFFICES ASSUME NEW i \in Trades, phase[i] = "open", tra'[<<i, "TP">>] = "FINISHED",
                        plain[<<i, "TP">>].st = "FILLED"
                 PROVE  i \in marked' \/ (pc' = "act" /\ job'.kind = "algo"
                                          /\ job'.id = <<i, "TP">>)
      BY <1>4 DEF MarksFollow
    <2>1. <<i, "TP">> \in Conds /\ <<i, "TP">>[1] = i /\ <<i, "TP">>[2] = "TP"
      BY OrderParts
    <2>2. CASE tra[<<i, "TP">>] = "FINISHED"
      BY <1>2, <1>4, <2>2 DEF NewsInv, MarksFollow
    <2>3. CASE tra[<<i, "TP">>] # "FINISHED"
      <3>1. c = <<i, "TP">>
        BY <1>5, <2>1, <2>3
      <3>2. AlgoChanges(tra[c], m) /\ m.st = "FINISHED"
        BY <1>5, <2>3, <3>1 DEF NewAlgo
      <3>3. m.cum = plain[c].cum
        BY <1>1, <1>3, <3>2 DEF Possible, c
      <3>4. m.cum > 0
        BY <1>2, <3>1, <3>3 DEF NewsInv, Ended, c
      <3>5. i \in Active
        BY DEF Active
      <3> QED BY <1>1, <2>1, <3>1, <3>2, <3>4, <3>5 DEF c
    <2> QED BY <2>2, <2>3
  <1>11. Ended'
    BY <1>4, EndedMoved
  <1> QED BY <1>8, <1>9, <1>10, <1>11 DEF NewsInv

LEMMA NewsInit == ASSUME Init PROVE NewsInv
  <1>1. NeverAhead /\ OnTheWay
    BY OrderParts DEF Init, NeverAhead, OnTheWay, NoPlain, NoTracked
  <1>2. RowsFollow
    BY EntryIs DEF Init, RowsFollow, NoPlain
  <1>3. MarksFollow
    BY DEF Init, MarksFollow
  <1>4. Ended
    BY DEF Init, Ended, NoPlain
  <1> QED BY <1>1, <1>2, <1>3, <1>4 DEF NewsInv

LEMMA NewsNext == ASSUME IInv, IInv', NewsInv, [Next]_vars PROVE NewsInv'
  <1>1. CASE Exchange
    BY <1>1, FillNews, ExpireNews, TriggerNews, FinishNews DEF Exchange
  <1>2. CASE Stream
    BY <1>2, DisconnectNews, ReconnectNews DEF Stream
  <1>3. CASE Handle
    BY <1>3, ActNews, RepeatNews, HandleOrderNews, HandleAlgoNews DEF Handle
  <1>4. CASE Trade
    BY <1>4, PlaceNews, ConfirmNews, GiveUpNews, CloseFlatNews, RefreshRowNews DEF Trade
  <1>5. CASE Crash
    BY <1>5, CrashNews
  <1>6. CASE UNCHANGED vars
    <2>1. net' = net /\ gap' = gap /\ UNCHANGED <<exchange, orders, record, seen, tracker, task>>
      BY <1>6 DEF vars, network
    <2> QED BY <2>1, StreamNews
  <1> QED BY <1>1, <1>2, <1>3, <1>4, <1>5, <1>6 DEF Next, Over

\* What the bot was told of an order is never ahead of the order, and while no
\* message and no memory was lost, what it was not told is on the way.
THEOREM NewsKnown == Spec => []NewsInv
  <1>1. IInv /\ IInv' /\ NewsInv /\ [Next]_vars => NewsInv'
    BY NewsNext
  <1> QED BY <1>1, NewsInit, Invariant, PTL DEF Spec

\* Once every message has arrived, in any order and repeated or not, the tracker
\* and the entry rows are what the exchange says (OrderTracker, EventDeduper).
THEOREM ConvergedAlways == Spec => []Converged
  <1>1. ASSUME IInv, NewsInv, Quiet
        PROVE  /\ \A o \in Orders : plain[o].st # "none" =>
                    trk[o].st = plain[o].st /\ trk[o].cum = plain[o].cum
               /\ \A c \in Conds : tra[c] = algo[c]
               /\ \A i \in Trades : row[Entry(i)] = plain[Entry(i)].st
    <2>1. /\ \A o \in Orders : plain[o].st # "none" => IsNow(trk[o], o)
          /\ \A c \in Conds : algo[c] # "none" => tra[c] = algo[c]
      BY <1>1 DEF Quiet, NewsInv, OnTheWay
    <2>2. \A c \in Conds : algo[c] = "none" => tra[c] = "none"
      BY <1>1 DEF NewsInv, NeverAhead, AlgoBehind
    <2>3. \A i \in Trades : row[Entry(i)] = plain[Entry(i)].st
      BY <1>1, <2>1, EntryIs DEF NewsInv, RowsFollow
    <2> QED BY <2>1, <2>2, <2>3 DEF IsNow
  <1>2. IInv /\ NewsInv => Converged
    BY <1>1 DEF Converged
  <1> QED BY <1>2, Invariant, NewsKnown, PTL

\* A target is marked only when its market order is executed, and once every
\* message of an open trade has arrived it is marked (_mark_tp_filled).
THEOREM MarkedAsSold == Spec => []MarkedRight
  <1>1. ASSUME IInv, NewsInv
        PROVE  MarkedRight
    <2>1. \A i \in marked : plain[<<i, "TP">>].st = "FILLED"
      BY <1>1 DEF IInv, Honest
    <2>2. ASSUME NEW i \in Trades, Quiet, phase[i] = "open",
                 algo[<<i, "TP">>] = "FINISHED", plain[<<i, "TP">>].st = "FILLED"
          PROVE  i \in marked
      <3>1. <<i, "TP">> \in Conds
        BY OrderParts
      <3>2. tra[<<i, "TP">>] = "FINISHED" /\ pc = "free"
        BY <1>1, <2>2, <3>1 DEF Quiet, NewsInv, OnTheWay
      <3> QED BY <1>1, <2>2, <3>2 DEF NewsInv, MarksFollow
    <2> QED BY <2>1, <2>2 DEF MarkedRight
  <1> QED BY <1>1, Invariant, NewsKnown, PTL

============================================================================
