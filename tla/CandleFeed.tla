----------------------------- MODULE CandleFeed -----------------------------
(***************************************************************************)
(* Where the naked strategy gets its markets from (candle_feed.py): the     *)
(* cache of closed candles, filled anew when one more must have closed, and *)
(* the universe of alts, chosen by value from what is clean and narrow.     *)
(*                                                                         *)
(* Time is in ticks; candle b is made of the trades of ticks (b-1)*Bar to   *)
(* b*Bar.  Markets are numbered by their value, the greatest first.         *)
(***************************************************************************)
EXTENDS Naturals, FiniteSets, FiniteSetsExt

CONSTANTS
  Bar,         \* ticks of a candle
  Grace,       \* grace_sec: a candle this young is not taken
  Extra,       \* the 3 s a candle is waited for
  MinRefetch,  \* MIN_REFETCH_SEC
  Scan,        \* ticks between two scans
  Latency,     \* the longest answer
  MaxTime,
  MaxDeaf,     \* requests that fail
  Markets,     \* KRW markets
  TopN,        \* NAKED_ALT_TOP_N
  Chunk        \* markets of one request for order books

ASSUME CandleFeedAssumption ==
  /\ {Bar, Scan, TopN, Chunk, Markets} \subseteq Nat \ {0}
  /\ {Grace, Extra, MinRefetch, Latency, MaxTime, MaxDeaf} \subseteq Nat

VARIABLES
  tick,        \* time
  made,        \* closed candles with a trade in them
  cache,       \* _cache: the last candle in it and when the exchange was asked for it, _fetched_at
  ask,         \* the request of get_bars: begun, answered by the exchange at
  next,        \* ticks to the next scan
  alts,        \* AltUniverse.tickers
  quote,       \* the refresh of the universe: where it is, what it has found
  deaf         \* requests that failed

candleVars == <<tick, made, cache, ask, next>>
feedVars == <<candleVars, alts, quote, deaf>>

NoAsk == [on |-> FALSE, from |-> 0, read |-> FALSE, at |-> 0]
NoQuote == [at |-> "idle", clean |-> {}, wide |-> {}, known |-> {}, lost |-> {}, rest |-> {}]
Times == 0..MaxTime

FeedTypeOK ==
  /\ tick \in Times /\ made \subseteq Times /\ next \in 0..Scan
  /\ cache \in [last : Times, asof : Times, at : Times, asked : BOOLEAN]
  /\ ask \in [on : BOOLEAN, from : Times, read : BOOLEAN, at : Times]
  /\ alts \subseteq 1..Markets /\ Cardinality(alts) <= TopN
  /\ quote \in [at : {"off", "idle", "books"}, clean : SUBSET (1..Markets), wide : SUBSET (1..Markets),
                known : SUBSET (1..Markets), lost : SUBSET (1..Markets), rest : SUBSET (1..Markets)]
  /\ deaf \in 0..MaxDeaf

\* The candles and the universe share nothing but the requests.
FeedInit(side) ==
  /\ tick = (IF side = "candles" THEN 0 ELSE MaxTime) /\ made = {} /\ next = 0
  /\ cache = [last |-> 0, asof |-> 0, at |-> 0, asked |-> FALSE] /\ ask = NoAsk
  /\ alts = {} /\ quote = [NoQuote EXCEPT !.at = IF side = "universe" THEN "idle" ELSE "off"]
  /\ deaf = 0

On == tick < MaxTime

----------------------------------------------------------------------------
(* CandleFeed.get_bars, called by a scan, one scan at a time.               *)

Ends(b) == b * Bar

\* An hour without a trade makes no candle.
FeedTick ==
  /\ On /\ next > 0 /\ (ask.on => tick < ask.from + Latency)
  /\ tick' = tick + 1 /\ next' = next - 1
  /\ IF (tick + 1) % Bar = 0
     THEN made' \in {made, made \cup {(tick + 1) \div Bar}} ELSE UNCHANGED made
  /\ UNCHANGED <<cache, ask, alts, quote, deaf>>

\* _stale: the candle after the last one must have closed.
Outdated == cache.last = 0 \/ tick >= Ends(cache.last + 1) + Extra

Rested == ~cache.asked \/ tick - cache.at >= MinRefetch

FeedScan ==
  /\ On /\ next = 0 /\ next' = Scan
  /\ IF ~ask.on /\ Outdated /\ Rested
     THEN /\ ask' = [on |-> TRUE, from |-> tick, read |-> FALSE, at |-> 0]
          /\ cache' = [cache EXCEPT !.at = tick, !.asked = TRUE]
     ELSE UNCHANGED <<ask, cache>>
  /\ UNCHANGED <<tick, made, alts, quote, deaf>>

\* The exchange reads its candles somewhere on the way.
FeedRead ==
  /\ On /\ ask.on /\ ~ask.read
  /\ ask' = [ask EXCEPT !.read = TRUE, !.at = tick]
  /\ UNCHANGED <<tick, made, cache, next, alts, quote, deaf>>

\* Mutated form: what has closed when the answer is there.
ClosedBy_Answer == tick

\* candles_to_bars: what had closed when the request began.
ClosedBy == ask.from

Closed == {b \in made : Ends(b) + Grace <= ClosedBy}

FeedAnswer ==
  /\ On /\ ask.on /\ ask.read /\ ask' = NoAsk
  /\ cache' = (IF Closed = {} THEN cache ELSE [cache EXCEPT !.last = Max(Closed), !.asof = ask.at])
  /\ UNCHANGED <<tick, made, next, alts, quote, deaf>>

FeedDeaf ==
  /\ On /\ ask.on /\ deaf < MaxDeaf /\ deaf' = deaf + 1 /\ ask' = NoAsk
  /\ UNCHANGED <<tick, made, cache, next, alts, quote>>

----------------------------------------------------------------------------
(* AltUniverse.refresh and select.                                          *)

\* Mutated form: all of them.
Foremost_All(s, n) == s

\* The n first markets of a set.
Foremost(s, n) == {m \in s : Cardinality({k \in s : k < m}) < n}

\* The first choice: twice as many, as some will be too wide.
First2(clean) == Foremost(clean, 2 * TopN)

\* Without flags, not a stable coin and traded enough; spreads are as they are.
Refresh ==
  /\ quote.at = "idle"
  /\ \E clean, wide \in SUBSET (1..Markets) :
       quote' = [NoQuote EXCEPT !.at = "books", !.clean = clean, !.wide = wide, !.rest = First2(clean)]
  /\ UNCHANGED <<candleVars, alts, deaf>>

\* The lists cannot be read: the universe stays as it is.
RefreshFails ==
  /\ quote.at = "idle" /\ alts # {} /\ deaf < MaxDeaf
  /\ deaf' = deaf + 1
  /\ UNCHANGED <<candleVars, alts, quote>>

\* The spreads of one chunk, or none of them.
Spreads ==
  /\ quote.at = "books" /\ quote.rest # {}
  /\ LET part == Foremost(quote.rest, Chunk) IN
     \/ /\ quote' = [quote EXCEPT !.rest = @ \ part, !.known = @ \cup part]
        /\ UNCHANGED deaf
     \/ /\ deaf < MaxDeaf /\ deaf' = deaf + 1
        /\ quote' = [quote EXCEPT !.rest = @ \ part, !.lost = @ \cup part]
  /\ UNCHANGED <<candleVars, alts>>

\* A market whose spread is not known counts as narrow.
Narrow == quote.clean \ (quote.known \cap quote.wide)

Chosen ==
  /\ quote.at = "books" /\ quote.rest = {}
  /\ alts' = Foremost(Narrow, TopN)
  /\ quote' = [quote EXCEPT !.at = "idle"]
  /\ UNCHANGED <<candleVars, deaf>>

----------------------------------------------------------------------------
FeedNext ==
  \/ FeedTick \/ FeedScan \/ FeedRead \/ FeedAnswer \/ FeedDeaf
  \/ Refresh \/ RefreshFails \/ Spreads \/ Chosen

----------------------------------------------------------------------------
(* Properties.                                                              *)

\* A candle in the cache was read from the exchange after it had closed: no
\* rule is applied to one that is forming (candle_feed.py:33-46).
FinalOnly == cache.last > 0 => cache.asof >= Ends(cache.last)

\* A candle is in the cache soon after its close, whatever hours were empty
\* and however long the answers took, if no request failed (candle_feed.py:90-117).
SeenSoon ==
  deaf = 0 => \A b \in made :
    tick >= Ends(b) + Grace + Extra + MinRefetch + Scan + 2 * Latency => cache.last >= b

\* With all spreads read, what is wide is not in the universe, unless more than
\* half of the first choice is; and nothing narrow of more value is left out for
\* it (candle_feed.py:190-259).
UniverseRight ==
  quote.at = "idle" /\ quote.lost = {}
      /\ Cardinality(quote.wide \cap First2(quote.clean)) <= TopN =>
    /\ alts \cap quote.wide = {}
    /\ \A m \in alts, k \in quote.clean \ quote.wide : k < m => k \in alts

\* The strategy sees closed candles, soon, of the markets that are worth it.
FeedRight == FeedTypeOK /\ FinalOnly /\ SeenSoon /\ UniverseRight
=============================================================================
