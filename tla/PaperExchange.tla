---------------------------- MODULE PaperExchange ----------------------------
(***************************************************************************)
(* The simulated COIN-M exchange of the paper mode (exchange/               *)
(* paper_gateway.py with risk/inverse_math.py) and its copy in the database *)
(* of the bot, which is written every ten seconds, while the fills are      *)
(* written as they come (runtime/bot.py, execution/context.py).             *)
(*                                                                         *)
(* One symbol, one isolated position.  A contract of Face dollars is worth  *)
(* Face/p coins at price p: all amounts are whole numbers of a small coin.  *)
(***************************************************************************)
EXTENDS Integers, Sequences, FiniteSets, SequencesExt, Functions

CONSTANTS
  Prices,      \* prices of the market
  Face,        \* value of a contract in dollars
  Lev,         \* leverage
  FeeDiv,      \* the fee is a FeeDiv-th of the value
  MmrDiv,      \* and the maintenance margin a MmrDiv-th
  Slip,        \* price_with_slippage, in ticks
  Qty,         \* contracts of an order
  Wallet0,     \* paper_start_equity_btc
  MaxOpens, MaxAlgos, MaxFunding, MaxRestarts,
  MaxTid       \* fills

ASSUME PaperAssumption ==
  /\ Prices \subseteq Nat \ {0} /\ \A p \in Prices : p > Slip
  /\ {Face, Lev, FeeDiv, MmrDiv, Qty} \subseteq Nat \ {0} /\ MmrDiv > 1
  /\ {Slip, Wallet0, MaxOpens, MaxAlgos, MaxFunding, MaxRestarts, MaxTid} \subseteq Nat
  \* The small coin is small enough for the margin of one contract.
  /\ \A p \in Prices, d \in {Slip, -Slip} : Face \div (p + d) >= Lev

VARIABLES
  gw,        \* PaperGateway: the account, its orders and what it has booked
  quote,     \* last and mark price; 0 before the first ones
  saved,     \* kv paper:paper_state
  fillRows,  \* fills in the database of the bot, by trade id
  trades,      \* history: fills ever made
  rolled,    \* history: a restart went back behind a fill
  opens, algosMade, fundings, restarts

paperLuck == <<opens, algosMade, fundings, restarts>>
paperVars == <<gw, quote, saved, fillRows, trades, rolled, paperLuck>>

PaperSides == {1, -1}
Sgn(x) == IF x > 0 THEN 1 ELSE IF x < 0 THEN -1 ELSE 0
Size(x) == Sgn(x) * x
Smaller(a, b) == IF a < b THEN a ELSE b

Algos == [stop : BOOLEAN, side : PaperSides, trig : Prices, byMark : BOOLEAN, qty : 0..Qty]

PaperTypeOK ==
  /\ {gw, saved} \subseteq
       [wallet : Int, pos : Int, value : Nat, margin : Nat, algos : Seq(Algos),
        income : Int, taken : Nat, tid : 0..MaxTid, fills : Seq(1..trades)]
  /\ Len(gw.fills) = gw.tid
  /\ quote \in [last : Prices \cup {0}, mark : Prices \cup {0}]
  /\ fillRows \in Seq(1..trades) /\ trades \in Nat /\ rolled \in BOOLEAN

New == [wallet |-> Wallet0, pos |-> 0, value |-> 0, margin |-> 0, algos |-> <<>>,
        income |-> 0, taken |-> 0, tid |-> 0, fills |-> <<>>]

PaperInit(on) ==
  /\ gw = New /\ saved = New
  /\ \E p \in IF on THEN Prices ELSE {0} : quote = [last |-> p, mark |-> p]
  /\ fillRows = <<>> /\ trades = 0 /\ rolled = FALSE
  /\ opens = 0 /\ algosMade = 0 /\ fundings = 0 /\ restarts = 0

----------------------------------------------------------------------------
(* The formulas of inverse_math: value, profit, margin, fee, liquidation.   *)

Value(q, p) == q * (Face \div p)

\* The share of what was booked for the position that c of its contracts have.
Share(x, c, pos) == (x * c) \div Size(pos)

\* price_with_slippage: buys are dearer, sales are cheaper.
Slipped(p, side) == p + side * Slip

\* Liquidation: the mark price is at or beyond liquidation_price.
Liquidated(g, m) ==
  LET v == Value(Size(g.pos), m) IN
  \/ g.pos > 0 /\ v * (MmrDiv + 1) >= MmrDiv * (g.margin + g.value)
  \/ g.pos < 0 /\ v * (MmrDiv - 1) <= MmrDiv * (g.value - g.margin)

\* Value of the position at the liquidation price.
LiqValue(g) ==
  IF g.pos > 0 THEN (MmrDiv * (g.margin + g.value)) \div (MmrDiv + 1)
               ELSE (MmrDiv * (g.value - g.margin)) \div (MmrDiv - 1)

----------------------------------------------------------------------------
(* _apply_trade                                                             *)

Released(g, c) == IF c = Size(g.pos) THEN g.margin ELSE Share(g.margin, c, g.pos)

\* A trade of q contracts worth v, on one side: the part against the position
\* closes it, the rest opens.
Trade(g, side, q, v, fee) ==
  LET c    == IF g.pos * side < 0 THEN Smaller(q, Size(g.pos)) ELSE 0
      out  == IF c = 0 THEN 0 ELSE Share(g.value, c, g.pos)
      free == IF c = 0 THEN 0 ELSE Released(g, c)
      vOut == (v * c) \div q
      real == Sgn(g.pos) * (out - vOut)
      vIn  == v - vOut
  IN [g EXCEPT !.pos = @ + side * q,
               !.value = @ - out + vIn,
               !.margin = @ - free + (vIn \div Lev),
               !.wallet = @ + real - fee,
               !.income = @ + real - fee,
               !.tid = @ + 1, !.fills = Append(@, trades + 1 + Len(g.fills) - Len(gw.fills))]

Market(g, side, q, p) ==
  LET v == Value(q, Slipped(p, side)) IN Trade(g, side, q, v, v \div FeeDiv)

----------------------------------------------------------------------------
(* _place_market                                                            *)

\* Mutated form: a reduce-only order is filled as it is.
Reduced_Not(g, q) == q

Reduced(g, q) == Smaller(q, Size(g.pos))

Opening(g, side, q) ==
  IF Sgn(g.pos) \in {0, side} THEN q
  ELSE IF q > Size(g.pos) THEN q - Size(g.pos) ELSE 0

\* Margin and fee of what is opened, at the last price.
Affordable(g, side, q) ==
  LET v == Value(Opening(g, side, q), quote.last) IN
  (v \div Lev) + (v \div FeeDiv) <= g.wallet - g.margin

\* Numbers of the fills of a step.
Numbered == trades' = trades + gw'.tid - gw.tid /\ gw'.tid <= MaxTid

PaperMarket ==
  /\ quote.last # 0 /\ opens < MaxOpens /\ opens' = opens + 1
  /\ \E side \in PaperSides, q \in 1..Qty :
       /\ Opening(gw, side, q) = 0 \/ Affordable(gw, side, q)
       /\ gw' = Market(gw, side, q, quote.last)
  /\ Numbered
  /\ UNCHANGED <<quote, saved, fillRows, rolled, algosMade, fundings, restarts>>

\* -2022 without a position on the other side.
PaperReduce ==
  /\ quote.last # 0 /\ gw.pos # 0
  /\ \E q \in 1..Qty : gw' = Market(gw, -Sgn(gw.pos), Reduced(gw, q), quote.last)
  /\ Numbered
  /\ UNCHANGED <<quote, saved, fillRows, rolled, paperLuck>>

----------------------------------------------------------------------------
(* Conditional orders.                                                      *)

Reference(a, q) == IF a.byMark THEN q.mark ELSE q.last

\* _would_trigger
Reached(a, p) ==
  IF a.stop = (a.side = 1) THEN p >= a.trig ELSE p <= a.trig

\* -2021
Takes(a) == ~Reached(a, Reference(a, quote))

\* A close-position stop or a reduce-only target of the bot.
PaperAlgo ==
  /\ quote.last # 0 /\ algosMade < MaxAlgos /\ algosMade' = algosMade + 1
  /\ \E a \in Algos :
       /\ a.stop = (a.qty = 0) /\ a.byMark = a.stop
       /\ Takes(a)
       /\ gw' = [gw EXCEPT !.algos = Append(@, a)]
  /\ UNCHANGED <<quote, saved, fillRows, trades, rolled, opens, fundings, restarts>>

PaperCancel ==
  /\ \E i \in DOMAIN gw.algos : gw' = [gw EXCEPT !.algos = RemoveAt(@, i)]
  /\ UNCHANGED <<quote, saved, fillRows, trades, rolled, paperLuck>>

\* "Reduce Only reject"
Useless(g, a) == g.pos = 0 \/ Sgn(g.pos) = a.side

\* _trigger_algo: the whole position, or at most its size.
Triggered(g, a, l) ==
  IF Useless(g, a) THEN g
  ELSE Market(g, a.side, IF a.qty = 0 THEN Size(g.pos) ELSE Smaller(a.qty, Size(g.pos)), l)

\* An order whose price is reached is triggered, another one stays.
Visited(g, a, q) ==
  IF Reached(a, Reference(a, q)) THEN Triggered(g, a, q.last)
  ELSE [g EXCEPT !.algos = Append(@, a)]

\* _check_algos, in the order in which they were placed.
Checked(g, q) ==
  LET run[k \in 0..Len(g.algos)] ==
        IF k = 0 THEN [g EXCEPT !.algos = <<>>] ELSE Visited(run[k - 1], g.algos[k], q)
  IN run[Len(g.algos)]

----------------------------------------------------------------------------
(* update_market                                                            *)

Funding(g, m) == -Sgn(g.pos) * (Value(Size(g.pos), m) \div FeeDiv)

\* _process_funding, one interval.  (Its income takes a number of the trades'
\* sequence: fills are numbered without it here.)
Funded(g, m) ==
  LET f == Funding(g, m) IN [g EXCEPT !.wallet = @ + f, !.income = @ + f]

\* _check_liquidation: closed at the liquidation price without a fee; what is
\* left of the margin is gone, and no income tells of it.
LiquidatedAt(g) ==
  LET h    == Trade(g, -Sgn(g.pos), Size(g.pos), LiqValue(g), 0)
      left == g.margin + (h.income - g.income)
      gone == Smaller(IF left > 0 THEN left ELSE 0, IF h.wallet > 0 THEN h.wallet ELSE 0)
  IN [h EXCEPT !.wallet = @ - gone, !.taken = @ + gone]

\* A price of the market: funding, conditional orders, liquidation.
PaperPrice ==
  /\ quote.last # 0 \/ restarts > 0
  /\ \E l, m \in Prices, due \in {0, 1} :
       LET q == [last |-> l, mark |-> m]
           f == IF due = 1 THEN Funded(gw, m) ELSE gw
           c == Checked(f, q)
       IN /\ due = 1 => gw.pos # 0 /\ fundings < MaxFunding
          /\ quote' = q /\ fundings' = fundings + due
          /\ gw' = IF c.pos # 0 /\ Liquidated(c, m) THEN LiquidatedAt(c) ELSE c
  /\ Numbered
  /\ UNCHANGED <<saved, fillRows, rolled, opens, algosMade, restarts>>

----------------------------------------------------------------------------
(* The database.                                                            *)

\* record_fill, in the order of the events: a trade id that has a row is a
\* duplicate.
PaperRecord ==
  /\ Len(fillRows) < gw.tid
  /\ fillRows' = Append(fillRows, gw.fills[Len(fillRows) + 1])
  /\ UNCHANGED <<gw, quote, saved, trades, rolled, paperLuck>>

\* _periodic and shutdown.  (Only a start reads it.)
PaperSave ==
  /\ saved # gw /\ restarts < MaxRestarts /\ saved' = gw
  /\ UNCHANGED <<gw, quote, fillRows, trades, rolled, paperLuck>>

\* Mutated forms: the numbers given start again, with or without the fills.
Loaded_NoIds(st) == [st EXCEPT !.tid = 0, !.fills = <<>>]
\* load_state
Loaded(st) == st

\* A kill and a start: the gateway is the saved one, without prices until the
\* first of them is fetched.
PaperRestart ==
  /\ quote.last # 0 /\ restarts < MaxRestarts /\ restarts' = restarts + 1
  /\ gw' = Loaded(saved) /\ quote' = [last |-> 0, mark |-> 0]
  /\ rolled' = (rolled \/ gw.tid > saved.tid)
  /\ UNCHANGED <<saved, fillRows, trades, opens, algosMade, fundings>>

PaperNext ==
  \/ PaperMarket \/ PaperReduce \/ PaperAlgo \/ PaperCancel \/ PaperPrice
  \/ PaperRecord \/ PaperSave \/ PaperRestart

----------------------------------------------------------------------------
(* Properties.                                                              *)

\* Every change of the wallet is booked as income: the accounting of the bot,
\* which knows the income only, agrees with the account, until a liquidation
\* takes the rest of the margin.
Books == gw.taken = 0 => gw.wallet = Wallet0 + gw.income

\* Margin and entry value belong to the open contracts.
MarginHeld == (gw.pos = 0) = (gw.margin = 0) /\ (gw.pos = 0) = (gw.value = 0)

\* No conditional order rests whose price has been reached.
NoneOverdue ==
  quote.last # 0 => \A i \in DOMAIN gw.algos : ~Reached(gw.algos[i], Reference(gw.algos[i], quote))

\* Only an order that may open does: nothing that reduces, triggers or
\* liquidates ever enlarges or turns the position, also when several do in one
\* update.
OnlyReduces ==
  [][ opens' = opens /\ restarts' = restarts
        => gw'.pos * Sgn(gw.pos) \in 0..Size(gw.pos) /\ (gw.pos = 0 => gw'.pos = 0) ]_paperVars

\* The fills the database has are those of the exchange, after restarts too,
\* unless one of them went back behind a fill.
RowsTrue == ~rolled => IsPrefix(fillRows, gw.fills)

\* The account of the simulated exchange adds up, and the bot's rows agree with
\* it, through liquidations, funding and restarts from an older state.
AccountRight == PaperTypeOK /\ Books /\ MarginHeld /\ NoneOverdue /\ RowsTrue
=============================================================================
