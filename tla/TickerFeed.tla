----------------------------- MODULE TickerFeed -----------------------------
(***************************************************************************)
(* The market stream of the Upbit bot (websocket_feed.py) and what it       *)
(* carries (watch and unwatch of execution_engine.py, called by the naked   *)
(* strategy): the core tickers always, an alt while a live trade is on.     *)
(* The engine knows what it holds from balances it reads every 15 s.        *)
(***************************************************************************)
EXTENDS Naturals, FiniteSets

CONSTANTS
  Alts,        \* tickers outside TARGET_TICKERS
  MaxTrades,   \* live trades in alts
  MaxCuts      \* connections that break or cannot be made

ASSUME TickerFeedAssumption == IsFiniteSet(Alts) /\ {MaxTrades, MaxCuts} \subseteq Nat

VARIABLES
  wanted,      \* ExecutionEngine.extra_tickers, which is WebsocketFeed.tickers
  sock,        \* where connect_and_listen is
  ref,         \* _ws is set
  closing,     \* a task closes the connection
  codes,       \* what the connection is subscribed to
  live,        \* tickers with a live trade, and those of them that hold a position
  seen,        \* positions in ExecutionEngine.balances
  traded, cuts

sockVars == <<sock, ref, closing, codes>>
tickerVars == <<wanted, sockVars, live, seen, traded, cuts>>

TickerTypeOK ==
  /\ wanted \subseteq Alts /\ codes \subseteq Alts /\ seen \subseteq Alts
  /\ sock \in {"off", "connect", "greet", "open", "wait"} /\ {ref, closing} \subseteq BOOLEAN
  /\ live \in [on : SUBSET Alts, held : SUBSET Alts] /\ live.held \subseteq live.on
  /\ traded \in 0..MaxTrades /\ cuts \in 0..MaxCuts
  /\ ref <=> sock \in {"greet", "open"}

TickerInit(on) ==
  /\ wanted = {} /\ codes = {} /\ seen = {} /\ live = [on |-> {}, held |-> {}]
  /\ sock = (IF on THEN "connect" ELSE "off") /\ ref = FALSE /\ closing = FALSE
  /\ traded = (IF on THEN 0 ELSE MaxTrades) /\ cuts = 0

----------------------------------------------------------------------------
(* connect_and_listen                                                       *)

\* Mutated form: the tickers are taken when the connection is begun.
Payload_Old == codes

\* The payload is made of the tickers of this moment.
Payload == wanted

Connect ==
  /\ sock = "connect" /\ sock' = "greet" /\ ref' = TRUE /\ codes' = Payload
  /\ UNCHANGED <<wanted, closing, live, seen, traded, cuts>>

Subscribed ==
  /\ sock = "greet" /\ ~closing /\ sock' = "open"
  /\ UNCHANGED <<wanted, ref, closing, codes, live, seen, traded, cuts>>

\* Mutated form: the reference to the connection stays.
Lost_Kept == UNCHANGED ref /\ closing' = FALSE

Lost == ref' = FALSE /\ closing' = FALSE

\* The connection is not made or breaks: again after a while.
Cut ==
  /\ sock \in {"connect", "greet", "open"} /\ cuts < MaxCuts /\ cuts' = cuts + 1
  /\ sock' = "wait" /\ Lost
  /\ UNCHANGED <<wanted, codes, live, seen, traded>>

Backoff ==
  /\ sock = "wait" /\ sock' = "connect"
  /\ UNCHANGED <<wanted, ref, closing, codes, live, seen, traded, cuts>>

\* The close asked for by set_tickers: again at once, unless it falls into the
\* sending of the payload.
ClosedNow ==
  /\ sock \in {"greet", "open"} /\ closing
  /\ sock' \in {"connect"} \cup (IF sock = "greet" THEN {"wait"} ELSE {})
  /\ Lost
  /\ UNCHANGED <<wanted, codes, live, seen, traded, cuts>>

----------------------------------------------------------------------------
(* watch, unwatch and set_tickers                                           *)

\* The connection, if there is one, is closed to subscribe anew.
Resubscribe == closing' = (closing \/ ref)

SetTickers(s) ==
  /\ wanted' = s
  /\ IF s # wanted THEN Resubscribe ELSE UNCHANGED closing

\* The scan arms a live trade.
Armed(t) ==
  /\ sock # "off" /\ t \notin live.on /\ traded < MaxTrades /\ traded' = traded + 1
  /\ live' = [live EXCEPT !.on = @ \cup {t}]
  /\ SetTickers(wanted \cup {t})
  /\ UNCHANGED <<sock, ref, codes, seen, cuts>>

\* It is bought: the balances are those read before.
Bought(t) ==
  /\ t \in live.on \ live.held /\ live' = [live EXCEPT !.held = @ \cup {t}]
  /\ UNCHANGED <<wanted, sockVars, seen, traded, cuts>>

\* place_market_sell reads the balances itself when they show nothing to sell.
SellReads(t) ==
  /\ t \in live.held \ seen /\ seen' = live.held
  /\ UNCHANGED <<wanted, sockVars, live, traded, cuts>>

\* The sale is accepted; the notice of it is waited for.
Sold(t) ==
  /\ t \in live.held \cap seen /\ live' = [live EXCEPT !.held = @ \ {t}]
  /\ UNCHANGED <<wanted, sockVars, seen, traded, cuts>>

\* _finish_live: the ticker is taken out if the balances show nothing of it, and
\* nobody asks again.
Unwatched(t) == SetTickers(IF t \in seen THEN wanted ELSE wanted \ {t})

Over(t) ==
  /\ t \in live.on \ live.held /\ live' = [live EXCEPT !.on = @ \ {t}]
  /\ Unwatched(t)
  /\ UNCHANGED <<sock, ref, codes, seen, traded, cuts>>

BalancesRead ==
  /\ seen # live.held /\ seen' = live.held
  /\ UNCHANGED <<wanted, sockVars, live, traded, cuts>>

----------------------------------------------------------------------------
Listening == Connect \/ Subscribed \/ Backoff \/ ClosedNow

TickerNext ==
  \/ Listening \/ Cut \/ BalancesRead
  \/ \E t \in Alts : Armed(t) \/ Bought(t) \/ SellReads(t) \/ Sold(t) \/ Over(t)

TickerFairness == WF_tickerVars(Listening) /\ WF_tickerVars(BalancesRead)

----------------------------------------------------------------------------
(* Properties.                                                              *)

\* An open connection carries what is wanted, or is being closed, whenever the
\* tickers change on the way (websocket_feed.py:31-50, 78-100).
CarriesWanted == sock \in {"greet", "open"} /\ ~closing => codes = wanted

\* Whatever is wanted while a connection is made, used or closed is what the
\* connection carries, or it is being replaced.
SubscriptionRight == TickerTypeOK /\ CarriesWanted

\* execution_engine.py:178-180: after the trade, when nothing is left of it, its
\* ticker is taken out.
Released == wanted # {} /\ live.on = {} ~> wanted = {} \/ live.on # {}
=============================================================================
