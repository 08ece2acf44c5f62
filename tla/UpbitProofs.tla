----------------------------- MODULE UpbitProofs -----------------------------
(***************************************************************************)
(* Proofs about the Upbit bot around its trades: what the operator is told, *)
(* what the market stream carries, the evidence for real orders, the base   *)
(* line of the circuit breaker, the ticks, and the candles and the universe *)
(* of alts.  The parts share no state, so each has an inductive invariant   *)
(* of its own, and a step of another part leaves it alone.                  *)
(***************************************************************************)
EXTENDS MCUpbit, FiniteSetTheorems, SequenceTheorems, WellFoundedInduction, TLAPS

(***************************************************************************)
(* The watchdog.                                                            *)
(***************************************************************************)

\* What the file and the history say of each other: the operator knows of every
\* check with a stamp, and of no other as long as nothing was lost; the stamp is
\* the time since the last alert as long as the file was not lost.
DogInv ==
  /\ mute \in Nat /\ losses \in Nat
  /\ bad \subseteq Checks /\ heard \subseteq Checks
  /\ stamps \in [Checks -> 0..Never] /\ gap \in [Checks -> 0..Quiet]
  /\ \A c \in Checks : stamps[c] # Never => c \in heard
  /\ mute = 0 /\ losses = 0 => \A c \in heard : stamps[c] # Never
  /\ losses = 0 => \A c \in Checks :
       /\ gap[c] = IF stamps[c] < Quiet THEN stamps[c] ELSE Quiet
       /\ turn => gap[c] > 0

LEMMA DogNumbers == Quiet \in Nat /\ Quiet > 0 /\ Never \in Nat /\ Never = Quiet + 1
  BY WatchdogAssumption DEF Never

LEMMA DogFirst == Init => DogInv
<1>1. Init => /\ bad = {} /\ heard = {} /\ turn = FALSE /\ mute = 0 /\ losses = 0
              /\ stamps = [c \in Checks |-> Never] /\ gap = [c \in Checks |-> Quiet]
  BY Zenon DEF Init, WatchdogInit
<1>2. Init => /\ stamps \in [Checks -> 0..Never] /\ gap \in [Checks -> 0..Quiet]
              /\ \A c \in Checks : stamps[c] = Never /\ gap[c] = Quiet
  BY <1>1, DogNumbers
<1> QED
  BY <1>1, <1>2, DogNumbers DEF DogInv

LEMMA DogStep == DogInv /\ [WatchdogNext]_dogVars => DogInv'
<1> SUFFICES ASSUME DogInv, [WatchdogNext]_dogVars PROVE DogInv'
  OBVIOUS
<1> USE DogNumbers
<1>1. CASE World
  BY <1>1 DEF World, DogInv
<1>2. CASE Alerts
  <2>1. PICK sent \in SUBSET {c \in bad : ~Silent(c)} :
          /\ mute' = IF sent = {c \in bad : ~Silent(c)} THEN mute ELSE mute + 1
          /\ stamps' = [c \in Checks |-> IF c \in {d \in bad : ~Silent(d)} /\ Stamped(c, sent)
                                         THEN 0 ELSE stamps[c]]
          /\ heard' = heard \cup sent
          /\ gap' = [c \in Checks |-> IF c \in sent THEN 0 ELSE gap[c]]
    BY <1>2 DEF Alerts
  <2>2. /\ turn /\ turn' = FALSE
        /\ UNCHANGED <<dogs, bad, losses>>
    BY <1>2 DEF Alerts
  <2>3. stamps' = [c \in Checks |-> IF c \in sent THEN 0 ELSE stamps[c]]
    BY <2>1 DEF Stamped
  <2>4. \A c \in sent : c \in Checks /\ stamps[c] >= Quiet
    BY <2>1 DEF Silent, DogInv
  <2>5. /\ mute' \in Nat /\ losses' \in Nat
        /\ bad' \subseteq Checks /\ heard' \subseteq Checks
    BY <2>1, <2>2, <2>4 DEF DogInv
  <2>9. stamps' \in [Checks -> 0..Never] /\ gap' \in [Checks -> 0..Quiet]
    BY <2>1, <2>3 DEF DogInv
  <2>6. \A c \in Checks : stamps'[c] # Never => c \in heard'
    BY <2>1, <2>3 DEF DogInv
  <2>7. mute' = 0 /\ losses' = 0 => \A c \in heard' : stamps'[c] # Never
    BY <2>1, <2>2, <2>3, <2>4 DEF DogInv
  <2>8. losses' = 0 => \A c \in Checks :
          gap'[c] = IF stamps'[c] < Quiet THEN stamps'[c] ELSE Quiet
    BY <2>1, <2>2, <2>3, <2>4 DEF DogInv
  <2> QED
    BY <2>2, <2>5, <2>6, <2>7, <2>8, <2>9 DEF DogInv
<1>3. CASE AllClear
  <2>1. turn' = FALSE /\ UNCHANGED <<bad, losses>>
    BY <1>3 DEF AllClear
  <2>2. CASE ~AnyTold
    <3>1. UNCHANGED <<stamps, heard, gap, mute>>
      BY <1>3, <2>2 DEF AllClear
    <3> QED
      BY <2>1, <3>1 DEF DogInv
  <2>3. CASE AnyTold
    <3>1. /\ stamps' = [c \in Checks |-> Never] /\ gap' = [c \in Checks |-> Quiet]
          /\ \/ heard' = {} /\ mute' = mute
             \/ heard' = heard /\ mute' = mute + 1
      BY <1>3, <2>3 DEF AllClear
    <3> QED
      BY <2>1, <3>1 DEF DogInv
  <2> QED
    BY <2>2, <2>3
<1>4. CASE StateLost
  BY <1>4 DEF StateLost, DogInv
<1>5. CASE UNCHANGED dogVars
  BY <1>5 DEF dogVars, DogInv
<1> QED
  BY <1>1, <1>2, <1>3, <1>4, <1>5 DEF WatchdogNext

\* What a run of the job does to what the operator believes.
LEMMA DogTells ==
  ASSUME DogInv, [WatchdogNext]_dogVars
  PROVE  /\ [turn /\ ~turn' /\ mute' = mute => bad \subseteq heard']_dogVars
         /\ [losses = 0 /\ turn /\ ~turn' =>
              \A c \in Checks : gap'[c] = 0 => gap[c] >= Quiet]_dogVars
         /\ [turn /\ ~turn' /\ bad = {} /\ mute' + losses' = 0 => heard' = {}]_dogVars
<1> USE DogNumbers
<1>1. CASE UNCHANGED dogVars
  BY <1>1
<1>2. CASE World \/ StateLost
  BY <1>2 DEF World, StateLost
<1>3. CASE Alerts
  <2>1. PICK sent \in SUBSET {c \in bad : ~Silent(c)} :
          /\ mute' = IF sent = {c \in bad : ~Silent(c)} THEN mute ELSE mute + 1
          /\ heard' = heard \cup sent
          /\ gap' = [c \in Checks |-> IF c \in sent THEN 0 ELSE gap[c]]
    BY <1>3 DEF Alerts
  <2>2. turn /\ bad # {}
    BY <1>3 DEF Alerts
  <2>3. \A c \in bad : Silent(c) => c \in heard
    BY DEF Silent, DogInv
  <2>4. mute' = mute => bad \subseteq heard'
    BY <2>1, <2>3 DEF DogInv
  <2>5. losses = 0 => \A c \in Checks : gap'[c] = 0 => gap[c] >= Quiet
    BY <2>1, <2>2 DEF Silent, DogInv
  <2> QED
    BY <2>2, <2>4, <2>5
<1>4. CASE AllClear
  BY <1>4 DEF AllClear, AnyTold, DogInv
<1> QED
  BY <1>1, <1>2, <1>3, <1>4 DEF WatchdogNext

\* What the operator believes is what is the case: a run whose messages come
\* through leaves nothing wrong untold, nothing is told twice within the quiet
\* time, and what is well again is told (deploy/watchdog.py).
THEOREM AlertsHold == Spec => AlertsRight
<1>1. [Next]_vars => [WatchdogNext]_dogVars
  BY DEF Next, vars
<1> QED
  BY <1>1, DogFirst, DogStep, DogTells, PTL DEF Spec, AlertsRight, WrongTold, NoSpam, ClearTold

(***************************************************************************)
(* The market stream.                                                       *)
(***************************************************************************)

\* The parts of SubscriptionRight: what the engine and the strategy know, and the
\* state of the connection.
Known ==
  /\ wanted \subseteq Alts /\ codes \subseteq Alts /\ seen \subseteq Alts
  /\ live \in [on : SUBSET Alts, held : SUBSET Alts] /\ live.held \subseteq live.on
  /\ traded \in 0..MaxTrades /\ cuts \in 0..MaxCuts
Wired == sock \in {"off", "connect", "greet", "open", "wait"}
Flags ==
  /\ ref \in BOOLEAN /\ closing \in BOOLEAN
  /\ ref <=> sock \in {"greet", "open"}

LEMMA TickerParts == TickerTypeOK <=> Known /\ Wired /\ Flags
  BY Zenon DEF TickerTypeOK, Known, Wired, Flags

LEMMA TickerStep == SubscriptionRight /\ [TickerNext]_tickerVars => SubscriptionRight'
<1> SUFFICES ASSUME Known, Wired, Flags, CarriesWanted, [TickerNext]_tickerVars
             PROVE  Known' /\ Wired' /\ Flags' /\ CarriesWanted'
  <2>1. TickerTypeOK' <=> Known' /\ Wired' /\ Flags'
    BY Zenon DEF TickerTypeOK, Known, Wired, Flags
  <2> QED
    BY <2>1, TickerParts DEF SubscriptionRight
<1> USE TickerFeedAssumption
<1>1. CASE Connect
  <2>1. Known' /\ Wired' /\ CarriesWanted'
    BY <1>1 DEF Connect, Payload, Known, Wired, CarriesWanted
  <2>2. Flags'
    BY <1>1, Zenon DEF Connect, Flags
  <2> QED
    BY <2>1, <2>2
<1>2. CASE Subscribed \/ Backoff
  <2>1. Known' /\ Wired' /\ CarriesWanted'
    BY <1>2 DEF Subscribed, Backoff, Known, Wired, CarriesWanted
  <2>2. Flags'
    BY <1>2 DEF Subscribed, Backoff, Flags
  <2> QED
    BY <2>1, <2>2
<1>3. CASE ClosedNow \/ Cut
  <2>1. Known' /\ sock' \in {"connect", "wait"}
    BY <1>3 DEF ClosedNow, Cut, Known
  <2>2. Flags'
    BY <1>3, <2>1 DEF ClosedNow, Cut, Lost, Flags
  <2> QED
    BY <2>1, <2>2 DEF Wired, CarriesWanted
<1>4. CASE BalancesRead
  BY <1>4 DEF BalancesRead, sockVars, Known, Wired, Flags, CarriesWanted
<1>5. ASSUME NEW t \in Alts, NEW s \in SUBSET Alts, SetTickers(s), UNCHANGED <<sock, ref, codes>>
      PROVE  Wired' /\ Flags' /\ CarriesWanted'
  <2>1. CASE s # wanted
    <3>1. closing' = (closing \/ ref)
      BY <1>5, <2>1 DEF SetTickers, Resubscribe
    <3> QED
      BY <1>5, <3>1 DEF Wired, Flags, CarriesWanted
  <2>2. CASE s = wanted
    BY <1>5, <2>2 DEF SetTickers, Wired, Flags, CarriesWanted
  <2> QED
    BY <2>1, <2>2
<1>6. ASSUME NEW t \in Alts, Armed(t) PROVE Known' /\ Wired' /\ Flags' /\ CarriesWanted'
  <2>1. wanted \cup {t} \in SUBSET Alts
    BY DEF Known
  <2>2. Wired' /\ Flags' /\ CarriesWanted'
    BY <1>5, <1>6, <2>1 DEF Armed
  <2>3. Known'
    BY <1>6 DEF Armed, SetTickers, Known
  <2> QED
    BY <2>2, <2>3
<1>7. ASSUME NEW t \in Alts, Bought(t) \/ SellReads(t) \/ Sold(t)
      PROVE  Known' /\ Wired' /\ Flags' /\ CarriesWanted'
  BY <1>7 DEF Bought, SellReads, Sold, sockVars, Known, Wired, Flags, CarriesWanted
<1>8. ASSUME NEW t \in Alts, Over(t) PROVE Known' /\ Wired' /\ Flags' /\ CarriesWanted'
  <2>1. (IF t \in seen THEN wanted ELSE wanted \ {t}) \in SUBSET Alts
    BY DEF Known
  <2>2. Wired' /\ Flags' /\ CarriesWanted'
    BY <1>5, <1>8, <2>1 DEF Over, Unwatched
  <2>3. Known'
    BY <1>8 DEF Over, Unwatched, SetTickers, Known
  <2> QED
    BY <2>2, <2>3
<1>9. CASE UNCHANGED tickerVars
  BY <1>9 DEF tickerVars, sockVars, Known, Wired, Flags, CarriesWanted
<1> QED
  BY <1>1, <1>2, <1>3, <1>4, <1>6, <1>7, <1>8, <1>9 DEF TickerNext, Listening

LEMMA TickerFirst == Init => SubscriptionRight
<1> SUFFICES ASSUME Init PROVE Known /\ Wired /\ Flags /\ CarriesWanted
  BY TickerParts DEF SubscriptionRight
<1>1. PICK side \in Sides : TickerInit(side = "tickers")
  BY DEF Init
<1>2. Known
  BY <1>1, TickerFeedAssumption DEF TickerInit, Known
<1>3. sock \in {"connect", "off"} /\ ref = FALSE /\ closing = FALSE
  BY <1>1 DEF TickerInit
<1> QED
  BY <1>2, <1>3 DEF Wired, Flags, CarriesWanted

\* An open connection carries the tickers that are wanted or is being replaced,
\* whenever they change (websocket_feed.py:31-50, 78-100).
THEOREM StreamCarries == Spec => []SubscriptionRight
<1>1. [Next]_vars => [TickerNext]_tickerVars
  BY DEF Next, vars
<1> QED
  BY <1>1, TickerFirst, TickerStep, PTL DEF Spec

(***************************************************************************)
(* The evidence for real orders.                                            *)
(***************************************************************************)

\* The gate, its last verdict and its last notice say the same.
GateSays ==
  /\ prev = "none" => ~open /\ notice = "none"
  /\ prev = "ok" => open /\ notice # "off"
  /\ prev = "no" => ~open /\ notice = "off"

\* Trades and description are of one backtest unless a kill tore them or the
\* description is about to be written, and those the report is made of next are
\* of the rules in force.
FilesAgree ==
  /\ meta.is /\ whole # "torn" /\ val # "meta" => trades.rules = meta.rules
  /\ val = "meta" => trades.rules = set.rules
  /\ val = "evaluate" /\ whole # "torn" => trades.rules = set.rules
  /\ whole = "yes" => val \in {"apply", "done"} /\ report.rules = set.rules

\* The types of NakedGate, the Boolean ones apart.
GateWords ==
  /\ set \in [live : Lives, rules : Rules]
  /\ trades \in [is : BOOLEAN, rules : Rules, good : SUBSET Lives]
  /\ meta \in [is : BOOLEAN, rules : Rules, age : 0..RefreshDays + 1]
  /\ report \in [is : BOOLEAN, live : Lives, rules : Rules, passed : BOOLEAN, age : 0..MaxAge + 1]
  /\ prev \in {"none", "ok", "no"} /\ notice \in {"none", "on", "off"}
  /\ val \in {"off", "stale", "backtest", "meta", "evaluate", "apply", "done"}
  /\ today \in [maint : BOOLEAN, valid : BOOLEAN] /\ whole \in {"no", "yes", "torn"}
  /\ restarts \in 0..MaxRestarts /\ misses \in 0..MaxMisses /\ hands \in 0..MaxHand
GateFlags == paper \in BOOLEAN /\ open \in BOOLEAN

GateInv == GateWords /\ GateFlags /\ GateSays /\ GateSound /\ FilesAgree

LEMMA GateTypes == GateTypeOK <=> GateWords /\ GateFlags
  BY Zenon DEF GateTypeOK, GateWords, GateFlags

\* Where a behaviour of another part begins, and one of this part.
LEMMA GateFirst == Init => GateInv
<1> SUFFICES ASSUME Init PROVE GateInv
  OBVIOUS
<1>1. PICK side \in Sides : GateInit(side = "gate")
  BY DEF Init
<1>2. NoTrades.rules \in Rules /\ NoReport.live \in Lives
  BY NakedGateAssumption DEF NoTrades, NoReport
<1>3. NoTrades.rules = NoMeta.rules /\ NoTrades.rules = NoReport.rules
  BY DEF NoTrades, NoMeta, NoReport
<1>4. /\ set \in [live : Lives, rules : Rules] /\ set.rules = NoTrades.rules
      /\ trades = NoTrades /\ meta = NoMeta /\ report = NoReport
      /\ open = FALSE /\ prev = "none" /\ notice = "none" /\ val \in {"apply", "off"}
      /\ today = [maint |-> TRUE, valid |-> TRUE] /\ whole = "no"
      /\ restarts = 0 /\ misses = 0 /\ hands = 0
  BY <1>1, <1>2 DEF GateInit
<1>5. paper \in BOOLEAN
  BY <1>1 DEF GateInit
<1>6. GateWords
  BY <1>2, <1>3, <1>4, NakedGateAssumption DEF GateWords, NoTrades, NoMeta, NoReport
<1>7. GateSays /\ GateSound /\ FilesAgree /\ GateFlags
  BY <1>3, <1>4, <1>5 DEF GateSays, GateSound, FilesAgree, NoMeta, GateFlags
<1> QED
  BY <1>6, <1>7 DEF GateInv

\* Applying the gate.
LEMMA GateApplied ==
  ASSUME GateInv, Applied
  PROVE  /\ open' \in BOOLEAN /\ prev' \in {"ok", "no"} /\ notice' \in {"none", "on", "off"}
         /\ open' => report.is /\ report.age <= MaxAge /\ report.live = set.live /\ report.passed
         /\ GateSays'
<1>1. CASE Valid
  <2>1. open' /\ open' \in BOOLEAN /\ prev' = "ok"
    BY <1>1 DEF Applied
  <2>2. notice' # "off" /\ notice' \in {"none", "on", "off"}
    BY <1>1 DEF Applied, Speaks, GateInv, GateSays, GateWords
  <2> QED
    BY <1>1, <2>1, <2>2 DEF Valid, GateSays
<1>2. CASE ~Valid
  <2>1. ~open' /\ open' \in BOOLEAN /\ prev' = "no"
    <3>1. open' = FALSE
      BY <1>2, Zenon DEF Applied, Valid
    <3> QED
      BY <1>2, <3>1 DEF Applied
  <2>2. notice' = "off"
    BY <1>2 DEF Applied, Speaks, GateInv, GateSays, GateWords
  <2> QED
    BY <2>1, <2>2 DEF GateSays
<1> QED
  BY <1>1, <1>2

LEMMA GateStep == GateInv /\ [GateNext]_nakedVars => GateInv'
<1> SUFFICES ASSUME GateInv, [GateNext]_nakedVars PROVE GateInv'
  OBVIOUS
<1> USE NakedGateAssumption DEF fileVars, gateVars, gateBounds
<1>0. USE DEF GateInv
<1>1. CASE Judge
  <2>1. GateWords' /\ GateFlags'
    BY <1>1 DEF Judge, GateWords, GateFlags
  <2>2. GateSays' /\ GateSound'
    BY <1>1 DEF Judge, GateSays, GateSound
  <2>3. FilesAgree'
    BY <1>1 DEF Judge, Stale, FilesAgree
  <2> QED
    BY <2>1, <2>2, <2>3
<1>2. CASE Backtested
  <2>1. GateWords' /\ GateFlags'
    BY <1>2 DEF Backtested, GateWords, GateFlags
  <2>2. GateSays' /\ GateSound'
    BY <1>2 DEF Backtested, GateSays, GateSound
  <2>3. FilesAgree'
    BY <1>2 DEF Backtested, FilesAgree
  <2> QED
    BY <2>1, <2>2, <2>3
<1>3. CASE Described
  <2>1. GateWords' /\ GateFlags'
    BY <1>3 DEF Described, GateWords, GateFlags
  <2>2. GateSays' /\ GateSound'
    BY <1>3 DEF Described, GateSays, GateSound
  <2>3. FilesAgree'
    BY <1>3 DEF Described, FilesAgree
  <2> QED
    BY <2>1, <2>2, <2>3
<1>4. CASE NoneFound
  <2>1. GateWords' /\ GateFlags'
    BY <1>4 DEF NoneFound, GateMiss, GateWords, GateFlags
  <2>2. GateSays' /\ GateSound'
    BY <1>4 DEF NoneFound, GateSays, GateSound
  <2>3. FilesAgree'
    BY <1>4 DEF NoneFound, FilesAgree
  <2> QED
    BY <2>1, <2>2, <2>3
<1>5. CASE Evaluated
  <2>1. CASE trades.is
    <3>1. PICK p \in BOOLEAN :
            report' = [is |-> TRUE, live |-> set.live, rules |-> trades.rules, passed |-> p, age |-> 0]
      BY <1>5, <2>1, Zenon DEF Evaluated, GateFlags
    <3>2. /\ val = "evaluate" /\ val' = "apply" /\ whole' = IF whole = "torn" THEN "torn" ELSE "yes"
          /\ UNCHANGED <<set, trades, meta, paper, gateVars, today, gateBounds>>
      BY <1>5, <2>1 DEF Evaluated
    <3>3. GateWords' /\ GateFlags'
      BY <3>1, <3>2 DEF GateWords, GateFlags
    <3>4. GateSays' /\ GateSound'
      BY <3>1, <3>2 DEF GateSays, GateSound
    <3>5. FilesAgree'
      BY <3>1, <3>2 DEF FilesAgree
    <3> QED
      BY <3>3, <3>4, <3>5
  <2>2. CASE ~trades.is
    <3>1. GateWords' /\ GateFlags'
      BY <1>5, <2>2 DEF Evaluated, GateWords, GateFlags
    <3>2. GateSays' /\ GateSound'
      BY <1>5, <2>2 DEF Evaluated, GateSays, GateSound
    <3>3. FilesAgree'
      BY <1>5, <2>2 DEF Evaluated, FilesAgree
    <3> QED
      BY <3>1, <3>2, <3>3
  <2> QED
    BY <2>1, <2>2
<1>6. CASE ValidateFails
  <2>1. GateWords' /\ GateFlags'
    BY <1>6 DEF ValidateFails, AfterFailure, GateMiss, GateWords, GateFlags
  <2>2. GateSays' /\ GateSound'
    BY <1>6 DEF ValidateFails, AfterFailure, GateSays, GateSound
  <2>3. FilesAgree'
    BY <1>6 DEF ValidateFails, AfterFailure, FilesAgree
  <2> QED
    BY <2>1, <2>2, <2>3
<1>7. CASE ValidateEnds
  <2>1. Applied /\ val = "apply" /\ val' = "done"
        /\ UNCHANGED <<set, fileVars, paper, today, whole, gateBounds>>
    BY <1>7 DEF ValidateEnds
  <2>2. /\ open' \in BOOLEAN /\ prev' \in {"ok", "no"} /\ notice' \in {"none", "on", "off"}
        /\ open' => report.is /\ report.age <= MaxAge /\ report.live = set.live /\ report.passed
        /\ GateSays'
    BY <2>1, GateApplied
  <2>3. GateWords' /\ GateFlags'
    BY <2>1, <2>2 DEF GateWords, GateFlags
  <2>4. GateSound' /\ FilesAgree'
    BY <2>1, <2>2 DEF GateSound, FilesAgree
  <2> QED
    BY <2>2, <2>3, <2>4
<1>8. CASE ValidateDue
  <2>1. GateWords' /\ GateFlags'
    BY <1>8 DEF ValidateDue, GateWords, GateFlags
  <2>2. GateSays' /\ GateSound'
    BY <1>8 DEF ValidateDue, GateSays, GateSound
  <2>3. FilesAgree'
    BY <1>8 DEF ValidateDue, FilesAgree
  <2> QED
    BY <2>1, <2>2, <2>3
<1>9. CASE DayPasses
  <2>1. PICK a \in 0..RefreshDays + 1, b \in 0..MaxAge + 1 :
          meta' = [meta EXCEPT !.age = a] /\ report' = [report EXCEPT !.age = b]
    <3>1. meta' = [meta EXCEPT !.age = IF meta.is /\ @ <= RefreshDays THEN @ + 1 ELSE @]
      BY <1>9 DEF DayPasses, Aged
    <3>2. report' = [report EXCEPT !.age = IF report.is /\ @ <= MaxAge THEN @ + 1 ELSE @]
      BY <1>9 DEF DayPasses, Aged
    <3>3. meta.age \in 0..RefreshDays + 1 /\ report.age \in 0..MaxAge + 1
      BY DEF GateWords
    <3>4. /\ (IF meta.is /\ meta.age <= RefreshDays THEN meta.age + 1 ELSE meta.age) \in 0..RefreshDays + 1
          /\ (IF report.is /\ report.age <= MaxAge THEN report.age + 1 ELSE report.age) \in 0..MaxAge + 1
      BY <3>3
    <3> QED
      BY <3>1, <3>2, <3>4
  <2>2. /\ val = "done" /\ today' = [maint |-> FALSE, valid |-> FALSE] /\ paper' \in BOOLEAN
        /\ UNCHANGED <<set, trades, gateVars, val, whole, gateBounds>>
    BY <1>9 DEF DayPasses
  <2>3. GateWords' /\ GateFlags'
    BY <2>1, <2>2 DEF GateWords, GateFlags
  <2>4. /\ meta'.is = meta.is /\ meta'.rules = meta.rules
        /\ report'.is = report.is /\ report'.live = report.live
        /\ report'.rules = report.rules /\ report'.passed = report.passed
    BY <2>1 DEF GateWords
  <2>5. GateSays' /\ GateSound'
    BY <2>2, <2>4 DEF GateSays, GateSound
  <2>6. FilesAgree'
    BY <2>2, <2>4 DEF FilesAgree
  <2> QED
    BY <2>3, <2>5, <2>6
<1>10. CASE Maintained
  <2>1. /\ today' = [today EXCEPT !.maint = TRUE] /\ (Applied \/ UNCHANGED gateVars)
        /\ UNCHANGED <<set, fileVars, paper, val, whole, gateBounds>>
    BY <1>10 DEF Maintained
  <2>2. CASE Applied
    <3>1. /\ open' \in BOOLEAN /\ prev' \in {"ok", "no"} /\ notice' \in {"none", "on", "off"}
          /\ open' => report.is /\ report.age <= MaxAge /\ report.live = set.live /\ report.passed
          /\ GateSays'
      BY <2>2, GateApplied
    <3>2. GateWords' /\ GateFlags'
      BY <2>1, <3>1, ZenonT(30) DEF GateWords, GateFlags
    <3>3. GateSound' /\ FilesAgree'
      BY <2>1, <3>1 DEF GateSound, FilesAgree
    <3> QED
      BY <3>1, <3>2, <3>3
  <2>3. CASE UNCHANGED gateVars
    <3>4. open' = open /\ prev' = prev /\ notice' = notice
      BY <2>3
    <3>1. GateWords' /\ GateFlags'
      <4>1. GateFlags'
        BY <2>1, <3>4 DEF GateFlags
      <4>2. today' \in [maint : BOOLEAN, valid : BOOLEAN]
        BY <2>1 DEF GateWords
      <4>3. GateWords'
        BY <2>1, <3>4, <4>2 DEF GateWords
      <4> QED
        BY <4>1, <4>3
    <3>2. today'.valid = today.valid
      BY <2>1 DEF GateWords
    <3>3. GateSays' /\ GateSound' /\ FilesAgree'
      BY <2>1, <2>3, <3>2 DEF GateSays, GateSound, FilesAgree
    <3> QED
      BY <3>1, <3>3
  <2> QED
    BY <2>1, <2>2, <2>3
<1>11. CASE Reborn
  <2>1. /\ set' \in [live : Lives, rules : Rules] /\ val' = "stale"
        /\ meta' \in {meta} \cup (IF val = "meta" THEN {NoMeta} ELSE {})
        /\ whole' = IF val = "meta" \/ whole = "torn" THEN "torn" ELSE "no"
        /\ restarts < MaxRestarts /\ restarts' = restarts + 1
        /\ UNCHANGED <<trades, report, paper, today, misses, hands>>
    BY <1>11 DEF Reborn
  <2>2. open' = (report.is /\ report.age <= MaxAge /\ report.live = set'.live /\ report.passed)
    BY <1>11 DEF Reborn
  <2>3. prev' = (IF open' THEN "ok" ELSE "no") /\ notice' = (IF open' THEN "none" ELSE "off")
    BY <1>11 DEF Reborn
  <2>4. open' \in BOOLEAN
    BY <2>2
  <2>5. open' => report.is /\ report.age <= MaxAge /\ report.live = set'.live /\ report.passed
    BY <2>2
  <2>6. NoMeta \in [is : BOOLEAN, rules : Rules, age : 0..RefreshDays + 1] /\ ~NoMeta.is
    BY DEF NoMeta
  <2>7. GateWords' /\ GateFlags'
    BY <2>1, <2>3, <2>4, <2>6 DEF GateWords, GateFlags
  <2>8. GateSays' /\ GateSound'
    BY <2>1, <2>3, <2>5 DEF GateSays, GateSound
  <2>9. FilesAgree'
    BY <2>1, <2>6 DEF FilesAgree
  <2> QED
    BY <2>7, <2>8, <2>9
<1>12. CASE ByHand
  <2>1. /\ val \in {"done", "backtest"} /\ hands < MaxHand /\ hands' = hands + 1
        /\ meta' = [is |-> TRUE, rules |-> set.rules, age |-> 0] /\ whole' = "no"
        /\ UNCHANGED <<set, paper, gateVars, val, today, restarts, misses>>
    BY <1>12 DEF ByHand
  <2>2. /\ trades' \in [is : BOOLEAN, rules : Rules, good : SUBSET Lives] /\ trades'.rules = set.rules
        /\ \/ report' = report
           \/ \E p \in BOOLEAN :
                report' = [is |-> TRUE, live |-> set.live, rules |-> set.rules, passed |-> p, age |-> 0]
    <3>1. CASE trades' = [NoTrades EXCEPT !.rules = set.rules] /\ UNCHANGED report
      BY <3>1 DEF NoTrades, GateWords
    <3>2. CASE \E good \in SUBSET Lives :
                 /\ trades' = [is |-> TRUE, rules |-> set.rules, good |-> good]
                 /\ report' = [is |-> TRUE, live |-> set.live, rules |-> set.rules,
                               passed |-> paper /\ set.live \in good, age |-> 0]
      <4>1. PICK good \in SUBSET Lives :
              /\ trades' = [is |-> TRUE, rules |-> set.rules, good |-> good]
              /\ report' = [is |-> TRUE, live |-> set.live, rules |-> set.rules,
                            passed |-> paper /\ set.live \in good, age |-> 0]
        BY <3>2
      <4>2. (paper /\ set.live \in good) \in BOOLEAN
        OBVIOUS
      <4>3. \E p \in BOOLEAN :
              report' = [is |-> TRUE, live |-> set.live, rules |-> set.rules, passed |-> p, age |-> 0]
        BY <4>1, <4>2, Zenon
      <4>4. trades' \in [is : BOOLEAN, rules : Rules, good : SUBSET Lives] /\ trades'.rules = set.rules
        BY <4>1 DEF GateWords
      <4> QED
        BY <4>3, <4>4
    <3> QED
      BY <1>12, <3>1, <3>2 DEF ByHand
  <2>3. GateWords' /\ GateFlags'
    <3>1. meta' \in [is : BOOLEAN, rules : Rules, age : 0..RefreshDays + 1]
      BY <2>1 DEF GateWords
    <3>2. report' \in [is : BOOLEAN, live : Lives, rules : Rules, passed : BOOLEAN, age : 0..MaxAge + 1]
      <4>1. ASSUME NEW p \in BOOLEAN,
                   report' = [is |-> TRUE, live |-> set.live, rules |-> set.rules, passed |-> p, age |-> 0]
            PROVE  report' \in [is : BOOLEAN, live : Lives, rules : Rules, passed : BOOLEAN, age : 0..MaxAge + 1]
        BY <4>1 DEF GateWords
      <4>2. ASSUME report' = report
            PROVE  report' \in [is : BOOLEAN, live : Lives, rules : Rules, passed : BOOLEAN, age : 0..MaxAge + 1]
        BY <4>2 DEF GateWords
      <4> QED
        BY <2>2, <4>1, <4>2
    <3>3. hands' \in 0..MaxHand
      BY <2>1 DEF GateWords
    <3> QED
      BY <2>1, <2>2, <3>1, <3>2, <3>3 DEF GateWords, GateFlags
  <2>4. GateSays' /\ GateSound'
    BY <2>1, <2>2 DEF GateSays, GateSound, GateWords
  <2>5. FilesAgree'
    BY <2>1, <2>2 DEF FilesAgree
  <2> QED
    BY <2>3, <2>4, <2>5
<1>13. CASE UNCHANGED nakedVars
  BY <1>13 DEF nakedVars, GateWords, GateFlags, GateSays, GateSound, FilesAgree
<1> QED
  BY <1>1, <1>2, <1>3, <1>4, <1>5, <1>6, <1>7, <1>8, <1>9, <1>10, <1>11, <1>12, <1>13 DEF GateNext

\* Real orders rest on a report of what is traded that had passed when the gate
\* was last applied, the operator knows how the gate stands, and the report of a
\* validation that went through is about the rules in force (main.py:521-553).
THEOREM EvidenceStands == Spec => []EvidenceHolds
<1>1. GateInv => EvidenceHolds
  BY GateTypes DEF GateInv, EvidenceHolds, GateSays, GateTold, FilesAgree, EvidenceRight, GateWords
<1>2. [Next]_vars => [GateNext]_nakedVars
  BY DEF Next, vars
<1> QED
  BY <1>1, <1>2, GateFirst, GateStep, PTL DEF Spec

(***************************************************************************)
(* The base line of the circuit breaker.                                    *)
(***************************************************************************)

LEMMA BaselineNumbers ==
  /\ Levels \in Nat \ {0} /\ Persist \in Nat \ {0} /\ Keep \in Nat \ {0} /\ MaxSaves \in Nat \ {0}
  /\ MaxOld \in Nat /\ MaxBirths \in Nat /\ MaxLooks \in Nat
  BY BaselineAssumption

\* A ladder of so many gaps falls into one piece more at most.
LEMMA PiecesRange == Counts \subseteq 1..Levels + 1
<1> SUFFICES ASSUME NEW gaps \in [1..Levels -> Gaps] PROVE Pieces(gaps) \in 1..Levels + 1
  BY DEF Counts
<1>1. \A unit : Cardinality({i \in DOMAIN gaps : 2 * gaps[i] > GapMultiple * unit}) \in 0..Levels
  <2> TAKE unit
  <2>1. {i \in DOMAIN gaps : 2 * gaps[i] > GapMultiple * unit} \in SUBSET (1..Levels)
    OBVIOUS
  <2>2. IsFiniteSet(1..Levels) /\ Cardinality(1..Levels) = Levels
    BY FS_Interval, BaselineNumbers
  <2> QED
    BY <2>1, <2>2, FS_Subset, FS_CardinalityType, BaselineNumbers
<1>2. CASE Pieces(gaps) = 1
  BY <1>2, BaselineNumbers
<1>3. CASE \E unit : Pieces(gaps) = Cardinality({i \in DOMAIN gaps : 2 * gaps[i] > GapMultiple * unit}) + 1
  <2>1. PICK unit : Pieces(gaps) = Cardinality({i \in DOMAIN gaps : 2 * gaps[i] > GapMultiple * unit}) + 1
    BY <1>3
  <2>2. PICK n \in 0..Levels : n = Cardinality({i \in DOMAIN gaps : 2 * gaps[i] > GapMultiple * unit})
    BY <1>1
  <2> QED
    BY <2>1, <2>2, BaselineNumbers
<1> QED
  BY <1>2, <1>3, Zenon DEF Pieces

\* The types of Baseline, with the length of every history that is written down.
Hists  == {h \in Seq(1..Levels + 1) : Len(h) <= Keep}
Saves  == [at : {"off", "idle", "open", "written"}, hist : Hists]
Papers == [st : {"none", "whole", "torn"}, hist : Hists, old : 0..MaxOld + 1]
BaseWords ==
  /\ hist \in Hists /\ streak \in 0..Persist - 1 /\ apart \in 0..Persist
  /\ saver \in Saves /\ final \in Saves /\ tmp \in Papers /\ file \in Papers
  /\ clash \subseteq 1..MaxBirths
  /\ births \in 0..MaxBirths /\ saves \in 0..MaxSaves /\ looks \in 0..MaxLooks

LEMMA BaseTypes == BaseWords => BaselineTypeOK
<1> SUFFICES ASSUME BaseWords PROVE BaselineTypeOK
  OBVIOUS
<1>1. \A h \in Hists : h \in Seq(1..Levels + 1) /\ Len(h) <= Keep
  BY DEF Hists
<1>2. Saves \subseteq [at : {"off", "idle", "open", "written"}, hist : Seq(1..Levels + 1)]
  BY <1>1 DEF Saves
<1>3. Papers \subseteq Files
  BY <1>1 DEF Papers, Files
<1> QED
  BY <1>1, <1>2, <1>3 DEF BaselineTypeOK, BaseWords

LEMMA NoHistory ==
  /\ <<>> \in Hists
  /\ NoSave \in Saves /\ NoSave.at = "idle" /\ [NoSave EXCEPT !.at = "off"] \in Saves
  /\ NoFile \in Papers /\ NoFile.st = "none" /\ Torn \in Papers /\ Torn.st = "torn"
<1>1. <<>> \in Hists
  BY EmptySeq, BaselineNumbers DEF Hists
<1> QED
  BY <1>1, BaselineNumbers DEF NoSave, NoFile, Torn, Saves, Papers

\* A history grows by one value and keeps its length.
LEMMA RememberedType ==
  ASSUME NEW h \in Hists, NEW v \in 1..Levels + 1
  PROVE  Remembered(h, v) \in Hists
<1>1. h \in Seq(1..Levels + 1) /\ Len(h) <= Keep /\ Len(h) \in Nat
  BY DEF Hists
<1>2. CASE Len(h) < Keep
  <2>1. Append(h, v) \in Seq(1..Levels + 1) /\ Len(Append(h, v)) = Len(h) + 1
    BY <1>1
  <2> QED
    BY <1>1, <1>2, <2>1, BaselineNumbers DEF Remembered, Hists
<1>3. CASE Len(h) = Keep
  <2>1. h # <<>>
    BY <1>3, EmptySeq, BaselineNumbers
  <2>2. Tail(h) \in Seq(1..Levels + 1) /\ Len(Tail(h)) = Keep - 1
    BY <1>1, <1>3, <2>1
  <2>3. Append(Tail(h), v) \in Seq(1..Levels + 1) /\ Len(Append(Tail(h), v)) = Keep
    BY <2>2, BaselineNumbers
  <2> QED
    BY <1>3, <2>3, BaselineNumbers DEF Remembered, Hists
<1> QED
  BY <1>1, <1>2, <1>3, BaselineNumbers

\* Two saves at once are the thread's and the one of the end, and the process is
\* remembered for it; a single save writes a whole file; after the last save of a
\* process its history stays, until that save is in place.
DiskInv ==
  /\ clash \subseteq 1..births
  /\ clash = {} =>
       /\ file.st # "torn"
       /\ saver.at = "idle" \/ final.at \in {"idle", "off"}
       /\ saver.at = "written" \/ final.at = "written" => tmp.st = "whole"
  /\ births > 0 /\ saves = MaxSaves /\ births \notin clash /\ final.at # "off" =>
       /\ saver.at = "idle"
       /\ final.at = "open" => final.hist = hist
       /\ final.at = "written" => tmp.st = "whole" /\ tmp.hist = hist
       /\ final.at = "idle" => file.st = "whole" /\ file.hist = hist

\* A part that is off has no process and no save.
BaseOff == final.at = "off" => births = MaxBirths /\ saves = MaxSaves /\ saver.at = "idle"

BaseInv == BaseWords /\ FiringsApart /\ DiskInv /\ BaseOff

LEMMA BaseFirst == Init => BaseInv
<1> SUFFICES ASSUME Init PROVE BaseInv
  OBVIOUS
<1> USE BaselineNumbers
<1>1. PICK side \in Sides : BaselineInit(side = "baseline")
  BY DEF Init
<1>2. /\ hist = <<>> /\ streak = 0 /\ apart = Persist
      /\ saver = NoSave /\ tmp = NoFile /\ file = NoFile /\ clash = {}
      /\ saves = MaxSaves /\ looks = 0
      /\ \/ final = [NoSave EXCEPT !.at = "idle"] /\ births = 0
         \/ final = [NoSave EXCEPT !.at = "off"] /\ births = MaxBirths
  BY <1>1 DEF BaselineInit
<1>3. [NoSave EXCEPT !.at = "idle"] = NoSave
  BY DEF NoSave
<1>4. BaseWords
  BY <1>2, <1>3, NoHistory DEF BaseWords
<1> QED
  BY <1>2, <1>4 DEF BaseInv, FiringsApart, DiskInv, BaseOff, NoSave, NoFile

LEMMA BaseStep == BaseInv /\ [BaselineNext]_baseVars => BaseInv'
<1> SUFFICES ASSUME BaseInv, [BaselineNext]_baseVars PROVE BaseInv'
  OBVIOUS
<1> USE BaselineNumbers DEF diskVars
<1>0. BaseWords /\ FiringsApart /\ DiskInv /\ BaseOff
  BY DEF BaseInv
<1>1. CASE Observe
  <2>1. PICK v \in Counts :
          LET h == Remembered(hist, v)
              n == IF Beyond(h, v) THEN streak + 1 ELSE 0
          IN /\ hist' = h /\ streak' = Recount(n)
             /\ apart' = IF n >= Persist THEN 0 ELSE IF apart < Persist THEN apart + 1 ELSE apart
    BY <1>1 DEF Observe
  <2>2. /\ births > 0 /\ saves < MaxSaves /\ looks < MaxLooks /\ looks' = looks + 1
        /\ UNCHANGED <<diskVars, births, saves>>
    BY <1>1 DEF Observe
  <2>3. hist' \in Hists
    BY <1>0, <2>1, PiecesRange, RememberedType DEF BaseWords
  <2>4. PICK n \in {0, streak + 1} :
          /\ streak' = IF n >= Persist THEN 0 ELSE n
          /\ apart' = IF n >= Persist THEN 0 ELSE IF apart < Persist THEN apart + 1 ELSE apart
    BY <2>1 DEF Recount
  <2>5. streak' \in 0..Persist - 1 /\ apart' \in 0..Persist /\ streak' <= apart'
    BY <1>0, <2>4 DEF BaseWords, FiringsApart
  <2>6. BaseWords' /\ FiringsApart'
    BY <1>0, <2>2, <2>3, <2>5 DEF BaseWords, FiringsApart
  <2>7. DiskInv' /\ BaseOff'
    BY <1>0, <2>2 DEF DiskInv, BaseOff
  <2> QED
    BY <2>6, <2>7 DEF BaseInv
<1>2. CASE SaveDue
  <2>1. /\ births > 0 /\ saves < MaxSaves - 1 /\ saver.at = "idle" /\ final.at = "idle"
        /\ saves' = saves + 1 /\ saver' = [at |-> "open", hist |-> hist] /\ tmp' = Torn
        /\ UNCHANGED <<hist, streak, apart, final, file, clash, births, looks>>
    BY <1>2 DEF SaveDue, Saving, Begin, Opened
  <2>2. BaseWords' /\ FiringsApart'
    <3>1. saver' \in Saves
      BY <1>0, <2>1 DEF BaseWords, Saves
    <3>2. tmp' \in Papers
      BY <2>1, NoHistory
    <3> QED
      BY <1>0, <2>1, <3>1, <3>2 DEF BaseWords, FiringsApart
  <2>3. DiskInv' /\ BaseOff'
    BY <1>0, <2>1 DEF DiskInv, BaseOff, BaseWords
  <2> QED
    BY <2>2, <2>3 DEF BaseInv
<1>3. CASE FinalSave
  <2>1. /\ births > 0 /\ saves < MaxSaves /\ final.at = "idle"
        /\ saves' = MaxSaves /\ final' = [at |-> "open", hist |-> hist] /\ tmp' = Torn
        /\ clash' = IF saver.at # "idle" THEN clash \cup {births} ELSE clash
        /\ UNCHANGED <<hist, streak, apart, saver, file, births, looks>>
    BY <1>3 DEF FinalSave, Saving, Begin, Opened
  <2>2. BaseWords' /\ FiringsApart'
    <3>1. final' \in Saves
      BY <1>0, <2>1 DEF BaseWords, Saves
    <3>2. tmp' \in Papers
      BY <2>1, NoHistory
    <3> QED
      BY <1>0, <2>1, <3>1, <3>2 DEF BaseWords, FiringsApart
  <2>3. DiskInv' /\ BaseOff'
    BY <1>0, <2>1 DEF DiskInv, BaseOff, BaseWords
  <2> QED
    BY <2>2, <2>3 DEF BaseInv
<1>4. CASE SaverWrites
  <2>1. /\ saver.at = "open" /\ saver' = [saver EXCEPT !.at = "written"]
        /\ tmp' = IF final.at = "idle" THEN Whole(saver.hist) ELSE Torn
        /\ UNCHANGED <<hist, streak, apart, final, file, clash, births, saves, looks>>
    BY <1>4 DEF SaverWrites, Write
  <2>2. BaseWords' /\ FiringsApart'
    <3>1. saver' \in Saves /\ saver.hist \in Hists
      BY <1>0, <2>1 DEF BaseWords, Saves
    <3>2. Whole(saver.hist) \in Papers
      BY <3>1 DEF Whole, Papers
    <3>3. tmp' \in Papers
      BY <2>1, <3>2, NoHistory
    <3> QED
      BY <1>0, <2>1, <3>1, <3>3 DEF BaseWords, FiringsApart
  <2>3. DiskInv' /\ BaseOff'
    BY <1>0, <2>1 DEF DiskInv, BaseOff, BaseWords, Whole
  <2> QED
    BY <2>2, <2>3 DEF BaseInv
<1>5. CASE FinalWrites
  <2>1. /\ final.at = "open" /\ final' = [final EXCEPT !.at = "written"]
        /\ tmp' = IF saver.at = "idle" THEN Whole(final.hist) ELSE Torn
        /\ UNCHANGED <<hist, streak, apart, saver, file, clash, births, saves, looks>>
    BY <1>5 DEF FinalWrites, Write
  <2>2. BaseWords' /\ FiringsApart'
    <3>1. final' \in Saves /\ final.hist \in Hists
      BY <1>0, <2>1 DEF BaseWords, Saves
    <3>2. Whole(final.hist) \in Papers
      BY <3>1 DEF Whole, Papers
    <3>3. tmp' \in Papers
      BY <2>1, <3>2, NoHistory
    <3> QED
      BY <1>0, <2>1, <3>1, <3>3 DEF BaseWords, FiringsApart
  <2>3. DiskInv' /\ BaseOff'
    BY <1>0, <2>1 DEF DiskInv, BaseOff, BaseWords, Whole
  <2> QED
    BY <2>2, <2>3 DEF BaseInv
<1>6. CASE SaverPuts
  <2>1. /\ saver.at = "written" /\ tmp' = NoFile /\ saver' = NoSave
        /\ file' = IF tmp.st # "none" THEN tmp ELSE file
        /\ UNCHANGED <<hist, streak, apart, final, clash, births, saves, looks>>
    BY <1>6 DEF SaverPuts, Put
  <2>2. BaseWords' /\ FiringsApart'
    BY <1>0, <2>1, NoHistory DEF BaseWords, FiringsApart, Saves, Papers, Whole
  <2>3. DiskInv' /\ BaseOff'
    BY <1>0, <2>1 DEF DiskInv, BaseOff, BaseWords, NoFile, NoSave
  <2> QED
    BY <2>2, <2>3 DEF BaseInv
<1>7. CASE FinalPuts
  <2>1. /\ final.at = "written" /\ tmp' = NoFile /\ final' = NoSave
        /\ file' = IF tmp.st # "none" THEN tmp ELSE file
        /\ UNCHANGED <<hist, streak, apart, saver, clash, births, saves, looks>>
    BY <1>7 DEF FinalPuts, Put
  <2>2. BaseWords' /\ FiringsApart'
    BY <1>0, <2>1, NoHistory DEF BaseWords, FiringsApart, Saves, Papers, Whole
  <2>3. DiskInv' /\ BaseOff'
    BY <1>0, <2>1 DEF DiskInv, BaseOff, BaseWords, NoFile, NoSave
  <2> QED
    BY <2>2, <2>3 DEF BaseInv
<1>8. CASE Birth
  <2>1. PICK late \in 0..MaxOld + 1 :
          /\ file' = [file EXCEPT !.old = IF file.st = "whole" THEN late ELSE 0]
          /\ hist' = Restored(file')
    BY <1>8 DEF Birth
  <2>2. /\ births < MaxBirths /\ births' = births + 1
        /\ saves' = 0 /\ streak' = 0 /\ apart' = Persist /\ saver' = NoSave /\ final' = NoSave
        /\ UNCHANGED <<tmp, clash, looks>>
    BY <1>8 DEF Birth
  <2>3. file' \in Papers /\ file'.st = file.st
    BY <1>0, <2>1 DEF BaseWords, Papers
  <2>4. hist' \in Hists
    BY <1>0, <2>1, <2>3, NoHistory DEF Restored, Papers
  <2>5. BaseWords' /\ FiringsApart'
    BY <1>0, <2>2, <2>3, <2>4, NoHistory, SMTT(30) DEF BaseWords, FiringsApart
  <2>6. DiskInv' /\ BaseOff'
    BY <1>0, <2>2, <2>3 DEF DiskInv, BaseOff, BaseWords, NoSave
  <2> QED
    BY <2>5, <2>6 DEF BaseInv
<1>9. CASE UNCHANGED baseVars
  BY <1>9 DEF baseVars, BaseInv, BaseWords, FiringsApart, DiskInv, BaseOff
<1> QED
  BY <1>1, <1>2, <1>3, <1>4, <1>5, <1>6, <1>7, <1>8, <1>9 DEF BaselineNext

\* The base line survives kills and restarts: a torn file needs two saves at once,
\* after an orderly end the file is the history; and the topology does not fire on
\* every tick of one danger (circuit_breaker.py:187-201, 255-287).
THEOREM BaselineKept == Spec => []BaselineRight
<1>1. BaseInv => BaselineRight
  BY BaseTypes DEF BaseInv, BaselineRight, DiskInv, FileWhole, LastWins, Saving
<1>2. [Next]_vars => [BaselineNext]_baseVars
  BY DEF Next, vars
<1> QED
  BY <1>1, <1>2, BaseFirst, BaseStep, PTL DEF Spec

(***************************************************************************)
(* The ticks.                                                               *)
(***************************************************************************)

LEMMA PipeNumbers ==
  /\ Cooling \in Nat \ {0} /\ Patience \in Nat \ {0}
  /\ EquityEvery \in Nat \ {0} /\ LlmEvery \in Nat \ {0}
  /\ MaxPend \in Nat /\ MaxTrips \in Nat /\ MaxGaps \in Nat /\ MaxHalts \in Nat /\ MaxSlips \in Nat
  BY PipelineAssumption

\* The types of Pipeline in parts.
PipeWords ==
  /\ mode \in {"llm", "naked"} /\ life \in {"off", "up", "drain", "stop", "last", "down"}
  /\ pt \in {"start", "cancel", "notice", "books", "halt", "tasks", "done"} /\ ptAge \in 0..Patience
  /\ nt \in {"start", "drive", "done"} /\ ntAge \in 0..Patience
  /\ cool \in 0..Cooling /\ llm \in {"none", "asking", "sent"} /\ pend \in 0..MaxPend
  /\ since \in [notice : 0..Cooling, llm : 0..LlmEvery, owed : 0..MaxPend + 1]
  /\ leak \in 0..MaxPend + 1
DriveType == drive \in [on : BOOLEAN, may : BOOLEAN, left : 0..MaxPend, sent : BOOLEAN]
BooksType == told \in BOOLEAN /\ books \in [halted : BOOLEAN, fresh : BOOLEAN, heard : BOOLEAN]
SchedType ==
  /\ DOMAIN sched \subseteq Jobs
  /\ sched \in [DOMAIN sched -> 0..EquityEvery + LlmEvery]
  /\ \A j \in DOMAIN sched : sched[j] <= Every(j)
Bounds == {"trips", "gaps", "halts", "slips", "cuts"}
SpentType == spent \in [Bounds -> Nat] /\ \A b \in Bounds : spent[b] <= Limit[b]

\* Past the breaker a tick goes on only outside a cool-down; so in one neither a
\* decision nor a drive that may buy begins, and the buys made and still under
\* way are those that were under way at its begin.
TickCool == pt \in {"cancel", "notice", "books", "halt", "tasks"} => cool = 0
LeakOwed == (cool = 0 => leak = 0) /\ (cool > 0 => leak + UnderWay <= since.owed)
DriveKnown ==
  /\ drive.sent => drive.on /\ drive.left > 0
  /\ drive.on => mode = "naked" /\ drive.left <= pend

\* The time since the notice and the rest of the cool-down make at least a whole
\* one, and so with the decisions and their deadline.
NoticeAge == cool + since.notice >= Cooling
LlmAge == IF "llm" \in DOMAIN sched THEN since.llm + sched["llm"] >= LlmEvery ELSE since.llm = LlmEvery

PipeInv ==
  /\ PipeWords /\ DriveType /\ BooksType /\ SchedType /\ SpentType
  /\ TickCool /\ LeakOwed /\ DriveKnown /\ NoticeAge /\ LlmAge /\ SavedWhole

LEMMA LimitType == DOMAIN Limit = Bounds /\ \A b \in Bounds : Limit[b] \in Nat
  BY PipeNumbers DEF Limit, Bounds

LEMMA PipeTypes == PipeInv => PipeTypeOK
<1> SUFFICES ASSUME PipeInv PROVE PipeTypeOK
  OBVIOUS
<1>1. \E jobs \in SUBSET Jobs : sched \in [jobs -> 0..EquityEvery + LlmEvery]
  BY DEF PipeInv, SchedType
<1>2. \A b \in DOMAIN Limit : spent[b] \in 0..Limit[b]
  BY LimitType DEF PipeInv, SpentType
<1>3. leak \in 0..2 * MaxPend + 2
  BY PipeNumbers DEF PipeInv, PipeWords
<1>4. told \in BOOLEAN
  BY DEF PipeInv, BooksType
<1> QED
  BY <1>1, <1>2, <1>3, <1>4 DEF PipeTypeOK, PipeInv, PipeWords, DriveType, BooksType, SchedType

\* What is spent of a bound.
LEMMA SpendType ==
  ASSUME SpentType, NEW b \in Bounds, Spend(b)
  PROVE  /\ SpentType'
         /\ b = "cuts" => spent'.cuts > 0
         /\ b # "cuts" => spent'.cuts = spent.cuts
<1>1. spent' = [spent EXCEPT ![b] = spent[b] + 1] /\ spent[b] < Limit[b]
  BY DEF Spend
<1>2. Limit' = Limit
  BY DEF Limit
<1>3. "cuts" \in Bounds
  BY DEF Bounds
<1>4. spent' \in [Bounds -> Nat] /\ \A c \in Bounds : spent'[c] = IF c = b THEN spent[c] + 1 ELSE spent[c]
  BY <1>1 DEF SpentType
<1> QED
  BY <1>1, <1>2, <1>3, <1>4, LimitType DEF SpentType

\* The scheduler asked for a job.
LEMMA AskedType ==
  ASSUME SchedType, NEW j \in Jobs, Asked(j)
  PROVE  /\ SchedType'
         /\ DOMAIN sched' = DOMAIN sched \cup {j}
         /\ \A k \in DOMAIN sched : k # j => sched'[k] = sched[k]
         /\ sched'[j] = IF Due(j) \/ j \notin DOMAIN sched THEN Every(j) ELSE sched[j]
<1>1. Every(j) \in 0..EquityEvery + LlmEvery
  BY PipeNumbers DEF Every
<1>2. Every(j)' = Every(j)
  BY DEF Every
<1>3. CASE Due(j) \/ j \notin DOMAIN sched
  <2>1. sched' = [k \in DOMAIN sched \cup {j} |-> IF k = j THEN Every(j) ELSE sched[k]]
    BY <1>3 DEF Asked, Rearmed
  <2>2. /\ DOMAIN sched' = DOMAIN sched \cup {j}
        /\ \A k \in DOMAIN sched : k # j => sched'[k] = sched[k]
        /\ sched'[j] = Every(j)
    BY <2>1
  <2>3. sched' \in [DOMAIN sched' -> 0..EquityEvery + LlmEvery]
    BY <1>1, <2>1, <2>2 DEF SchedType
  <2>4. \A k \in DOMAIN sched' : sched'[k] <= Every(k)
    BY <1>1, <2>2 DEF SchedType
  <2> QED
    BY <1>3, <2>2, <2>3, <2>4 DEF SchedType, Every
<1>4. CASE ~(Due(j) \/ j \notin DOMAIN sched)
  BY <1>4 DEF Asked, SchedType, Every
<1> QED
  BY <1>3, <1>4

LEMMA PipeFirst == Init => PipeInv
<1> SUFFICES ASSUME Init PROVE PipeInv
  OBVIOUS
<1> USE PipeNumbers
<1>1. PICK side \in Sides : PipeInit(side = "pipe")
  BY DEF Init
<1>2. /\ mode \in {"llm", "naked"} /\ life \in {"up", "off"}
      /\ pt = "start" /\ ptAge = 0 /\ nt = "start" /\ ntAge = 0
      /\ sched = [j \in {} |-> 0] /\ cool = 0 /\ told = FALSE
      /\ llm = "none" /\ pend = 0 /\ drive = NoDrive
      /\ since = [notice |-> Cooling, llm |-> LlmEvery, owed |-> 0] /\ leak = 0
      /\ spent = [b \in DOMAIN Limit |-> 0]
  BY <1>1 DEF PipeInit
<1>3. books \in [halted : BOOLEAN, fresh : BOOLEAN, heard : BOOLEAN]
  BY <1>1 DEF PipeInit
<1>4. PipeWords
  BY <1>2 DEF PipeWords
<1>5. DriveType /\ DriveKnown /\ SavedWhole
  BY <1>2 DEF DriveType, DriveKnown, SavedWhole, NoDrive
<1>6. SchedType /\ LlmAge
  BY <1>2 DEF SchedType, LlmAge
<1>7. SpentType
  BY <1>2, LimitType DEF SpentType
<1>8. TickCool /\ LeakOwed /\ NoticeAge
  BY <1>2 DEF TickCool, LeakOwed, NoticeAge
<1>9. BooksType
  BY <1>2, <1>3 DEF BooksType
<1> QED
  BY <1>4, <1>5, <1>6, <1>7, <1>8, <1>9 DEF PipeInv

LEMMA PassKeeps == PipeInv /\ Pass => PipeInv'
<1> SUFFICES ASSUME PipeInv, Pass PROVE PipeInv'
  OBVIOUS
<1> USE PipeNumbers
<1>0. /\ PipeWords /\ DriveType /\ BooksType /\ SchedType /\ SpentType
      /\ TickCool /\ LeakOwed /\ DriveKnown /\ NoticeAge /\ LlmAge /\ SavedWhole
  BY DEF PipeInv
<1>1. /\ Waits(pt, ptAge) /\ Waits(nt, ntAge)
      /\ ptAge' = Older(pt, ptAge) /\ ntAge' = Older(nt, ntAge)
      /\ sched' = [j \in DOMAIN sched |-> Down(sched[j])]
      /\ cool' = Down(cool) /\ leak' = (IF cool <= 1 THEN 0 ELSE leak)
      /\ since' = [notice |-> Atmost(since.notice + 1, Cooling), llm |-> Atmost(since.llm + 1, LlmEvery),
                   owed |-> IF cool <= 1 THEN 0 ELSE since.owed]
      /\ UNCHANGED <<mode, life, pt, nt, books, told, taskVars, spent>>
  BY DEF Pass
<1>2. ptAge' \in 0..Patience /\ ntAge' \in 0..Patience
  BY <1>0, <1>1 DEF Waits, Older, PipeWords
<1>3. since' \in [notice : 0..Cooling, llm : 0..LlmEvery, owed : 0..MaxPend + 1]
  BY <1>0, <1>1 DEF Atmost, PipeWords
<1>4. PipeWords'
  BY <1>0, <1>1, <1>2, <1>3 DEF PipeWords, Down, taskVars
<1>5. DriveType' /\ BooksType' /\ DriveKnown' /\ SavedWhole'
  BY <1>0, <1>1 DEF DriveType, BooksType, DriveKnown, SavedWhole, taskVars
<1>6. SpentType'
  BY <1>0, <1>1 DEF SpentType, Limit
<1>7. SchedType'
  <2>1. DOMAIN sched' = DOMAIN sched /\ \A j \in DOMAIN sched : sched'[j] = Down(sched[j])
    BY <1>1
  <2>2. \A j \in DOMAIN sched : sched[j] \in 0..EquityEvery + LlmEvery /\ Down(sched[j]) <= sched[j]
                                /\ Down(sched[j]) \in 0..EquityEvery + LlmEvery
    BY <1>0 DEF SchedType, Down
  <2>3. \A j \in DOMAIN sched : Every(j) \in Nat /\ Every(j)' = Every(j)
    BY DEF Every
  <2> QED
    BY <1>0, <1>1, <2>1, <2>2, <2>3 DEF SchedType
<1>8. TickCool' /\ LeakOwed'
  BY <1>0, <1>1 DEF TickCool, LeakOwed, UnderWay, Down, PipeWords, taskVars
<1>9. NoticeAge'
  BY <1>0, <1>1 DEF NoticeAge, Down, Atmost, PipeWords
<1>10. LlmAge'
  <2>1. CASE "llm" \in DOMAIN sched
    <3>1. sched["llm"] \in Nat /\ sched'["llm"] = Down(sched["llm"]) /\ "llm" \in DOMAIN sched'
      BY <1>0, <1>1, <2>1 DEF SchedType
    <3>2. since'.llm = Atmost(since.llm + 1, LlmEvery)
      BY <1>1
    <3> QED
      BY <1>0, <2>1, <3>1, <3>2 DEF LlmAge, Down, Atmost, PipeWords
  <2>2. CASE "llm" \notin DOMAIN sched
    BY <1>0, <1>1, <2>2 DEF LlmAge, Atmost
  <2> QED
    BY <2>1, <2>2
<1> QED
  BY <1>4, <1>5, <1>6, <1>7, <1>8, <1>9, <1>10 DEF PipeInv

\* The buys under way.
LEMMA UnderWayType == PipeInv => UnderWay \in 0..MaxPend + 1
<1> SUFFICES ASSUME PipeInv PROVE UnderWay \in 0..MaxPend + 1
  OBVIOUS
<1>1. drive.left \in 0..MaxPend /\ (drive.sent => drive.left > 0)
  BY DEF PipeInv, DriveType, DriveKnown
<1> QED
  BY <1>1, PipeNumbers DEF UnderWay

\* A step that leaves the parts it does not name alone: the calls of the clock,
\* the cool-down and what is spent may change.
LEMMA ClockFrame ==
  ASSUME PipeInv, UNCHANGED <<mode, drive, llm, pend, leak>>, UNCHANGED <<books, told>>,
         UNCHANGED <<sched, since>>, SpentType', spent'.cuts = spent.cuts, life' = life,
         pt' \in {"start", "cancel", "notice", "books", "halt", "tasks", "done"}, ptAge' \in 0..Patience,
         nt' \in {"start", "drive", "done"}, ntAge' \in 0..Patience,
         \/ cool' = cool
         \/ cool > 0 /\ cool' = Cooling,
         TickCool'
  PROVE  PipeInv'
<1>1. PipeWords'
  BY PipeNumbers DEF PipeInv, PipeWords
<1>2. DriveType' /\ BooksType' /\ DriveKnown' /\ SavedWhole'
  BY DEF PipeInv, DriveType, BooksType, DriveKnown, SavedWhole
<1>3. SchedType' /\ LlmAge'
  BY DEF PipeInv, SchedType, LlmAge, Every
<1>4. LeakOwed' /\ NoticeAge'
  BY PipeNumbers DEF PipeInv, PipeWords, LeakOwed, NoticeAge, UnderWay
<1> QED
  BY <1>1, <1>2, <1>3, <1>4 DEF PipeInv

LEMMA ClockKeeps ==
  ASSUME PipeInv, NextTick \/ DropProcess \/ DropNaked \/ Blind \/ Watch \/ CancelledAll
  PROVE  PipeInv'
<1> USE PipeNumbers
<1>0. PipeWords /\ SpentType /\ TickCool
  BY DEF PipeInv
<1>1. {"slips", "gaps", "trips"} \subseteq Bounds
  BY DEF Bounds
<1>2. UNCHANGED spent => SpentType' /\ spent'.cuts = spent.cuts
  BY <1>0 DEF SpentType, Limit
<1>3. \A b \in {"slips", "gaps", "trips"} : Spend(b) => SpentType' /\ spent'.cuts = spent.cuts
  BY <1>0, <1>1, SpendType
<1>4. CASE NextTick
  <2>1. /\ pt' = "start" /\ nt' = "start" /\ ptAge' = 0 /\ ntAge' = 0
        /\ UNCHANGED <<mode, life, sched, cool, books, told, taskVars, since, leak, spent>>
    BY <1>4 DEF NextTick
  <2>2. TickCool'
    BY <2>1 DEF TickCool
  <2> QED
    BY <1>2, <2>1, <2>2, ClockFrame DEF taskVars
<1>5. CASE DropProcess
  <2>1. /\ pt' = "done" /\ ptAge' = 0 /\ Spend("slips")
        /\ UNCHANGED <<mode, life, nt, ntAge, sched, cool, books, told, taskVars, since, leak>>
    BY <1>5 DEF DropProcess
  <2>2. TickCool'
    BY <2>1 DEF TickCool
  <2> QED
    BY <1>0, <1>3, <2>1, <2>2, ClockFrame DEF taskVars, PipeWords
<1>6. CASE DropNaked
  <2>1. /\ nt' = "done" /\ ntAge' = 0 /\ Spend("slips")
        /\ UNCHANGED <<mode, life, pt, ptAge, sched, cool, books, told, taskVars, since, leak>>
    BY <1>6 DEF DropNaked
  <2>2. TickCool'
    BY <1>0, <2>1 DEF TickCool
  <2> QED
    BY <1>0, <1>3, <2>1, <2>2, ClockFrame DEF taskVars, PipeWords
<1>7. CASE Blind
  <2>1. /\ pt' = "done" /\ Spend("gaps")
        /\ UNCHANGED <<mode, life, ptAge, nt, ntAge, sched, cool, books, told, taskVars, since, leak>>
    BY <1>7 DEF Blind
  <2>2. TickCool'
    BY <2>1 DEF TickCool
  <2> QED
    BY <1>0, <1>3, <2>1, <2>2, ClockFrame DEF taskVars, PipeWords
<1>8. CASE Watch
  <2>1. UNCHANGED <<mode, life, ptAge, nt, ntAge, sched, books, told, taskVars, since, leak>>
    BY <1>8 DEF Watch
  <2>2. \/ cool > 0 /\ pt' = "done" /\ cool' = Cooling /\ Spend("trips")
        \/ ~(cool > 0) /\ pt' = "cancel" /\ UNCHANGED cool /\ Spend("trips")
        \/ cool > 0 /\ pt' = "done" /\ UNCHANGED <<cool, spent>>
        \/ ~(cool > 0) /\ pt' = "books" /\ UNCHANGED <<cool, spent>>
    BY <1>8 DEF Watch, Alarm, Onwards
  <2>3. TickCool'
    BY <1>0, <2>2 DEF TickCool, PipeWords
  <2>4. SpentType' /\ spent'.cuts = spent.cuts
    BY <1>2, <1>3, <2>2
  <2>5. pt' \in {"done", "cancel", "books"} /\ (cool' = cool \/ (cool > 0 /\ cool' = Cooling))
    BY <2>2
  <2> QED
    BY <1>0, <2>1, <2>3, <2>4, <2>5, ClockFrame DEF taskVars, PipeWords
<1>9. CASE CancelledAll
  <2>1. /\ pt = "cancel" /\ pt' = "notice"
        /\ UNCHANGED <<mode, life, ptAge, nt, ntAge, sched, cool, books, told, taskVars, since, leak, spent>>
    BY <1>9 DEF CancelledAll
  <2>2. TickCool'
    BY <1>0, <2>1 DEF TickCool
  <2> QED
    BY <1>0, <1>2, <2>1, <2>2, ClockFrame DEF taskVars, PipeWords
<1> QED
  BY <1>4, <1>5, <1>6, <1>7, <1>8, <1>9

\* The notice begins the cool-down: what is owed is what is under way.
LEMMA ToldKeeps == PipeInv /\ Told => PipeInv'
<1> SUFFICES ASSUME PipeInv, Told PROVE PipeInv'
  OBVIOUS
<1> USE PipeNumbers
<1>1. /\ pt = "notice" /\ pt' = "done" /\ ptAge' = 0
      /\ cool' = Cooling /\ since' = [since EXCEPT !.notice = 0, !.owed = UnderWay]
      /\ UNCHANGED <<mode, life, nt, ntAge, sched, books, told, llm, pend, drive, leak, spent>>
  BY DEF Told, taskVars
<1>2. UnderWay \in 0..MaxPend + 1 /\ UnderWay' = UnderWay
  BY <1>1, UnderWayType DEF UnderWay
<1>3. since' \in [notice : 0..Cooling, llm : 0..LlmEvery, owed : 0..MaxPend + 1]
      /\ since'.notice = 0 /\ since'.llm = since.llm /\ since'.owed = UnderWay
  <2>1. since \in [notice : 0..Cooling, llm : 0..LlmEvery, owed : 0..MaxPend + 1]
    BY DEF PipeInv, PipeWords
  <2>2. 0 \in 0..Cooling
    OBVIOUS
  <2> QED
    BY <1>1, <1>2, <2>1, <2>2
<1>4. PipeWords'
  BY <1>1, <1>3 DEF PipeInv, PipeWords
<1>5. DriveType' /\ BooksType' /\ DriveKnown' /\ SavedWhole' /\ SpentType'
  BY <1>1 DEF PipeInv, DriveType, BooksType, DriveKnown, SavedWhole, SpentType, Limit
<1>6. SchedType' /\ LlmAge'
  BY <1>1, <1>3 DEF PipeInv, SchedType, LlmAge, Every
<1>7. leak = 0
  BY <1>1 DEF PipeInv, TickCool, LeakOwed
<1>8. TickCool' /\ LeakOwed' /\ NoticeAge'
  BY <1>1, <1>2, <1>3, <1>7 DEF TickCool, LeakOwed, NoticeAge
<1> QED
  BY <1>4, <1>5, <1>6, <1>8 DEF PipeInv

\* The books of the day.
LEMMA BooksKeep ==
  ASSUME PipeInv, Midnight \/ Books \/ HaltTold
  PROVE  PipeInv'
<1> USE PipeNumbers
<1>1. /\ UNCHANGED <<mode, life, ptAge, nt, ntAge, cool, llm, pend, drive, since, leak>>
      /\ pt' \in {pt, "tasks", "halt"} /\ (pt' # pt => pt \in {"books", "halt"})
  BY DEF Midnight, Books, HaltTold, tickVars, taskVars
<1>2. SpentType' /\ spent'.cuts = spent.cuts
  <2>1. "halts" \in Bounds
    BY DEF Bounds
  <2>2. UNCHANGED spent \/ Spend("halts")
    BY DEF Midnight, Books, HaltTold
  <2> QED
    BY <2>1, <2>2, SpendType DEF PipeInv, SpentType, Limit
<1>3. BooksType'
  <2>1. PICK h \in BOOLEAN, f \in BOOLEAN, d \in BOOLEAN : books = [halted |-> h, fresh |-> f, heard |-> d]
    BY Zenon DEF PipeInv, BooksType
  <2>2. told \in BOOLEAN
    BY DEF PipeInv, BooksType
  <2>3. books' \in [halted : BOOLEAN, fresh : BOOLEAN, heard : BOOLEAN]
    <3>1. CASE Midnight
      BY <3>1 DEF Midnight
    <3>2. CASE Books
      <4>1. \/ UNCHANGED books
            \/ books' = [books EXCEPT !.fresh = FALSE]
            \/ books' = [books EXCEPT !.halted = TRUE]
        BY <3>2 DEF Books
      <4>2. CASE books' = [books EXCEPT !.fresh = FALSE]
        BY <2>1, <4>2
      <4>3. CASE books' = [books EXCEPT !.halted = TRUE]
        BY <2>1, <4>3
      <4> QED
        BY <2>1, <4>1, <4>2, <4>3
    <3>3. CASE HaltTold
      <4>1. (d \/ h) \in BOOLEAN
        BY Zenon
      <4>2. books' = [halted |-> h, fresh |-> f, heard |-> (d \/ h)]
        BY <2>1, <3>3 DEF HaltTold
      <4> QED
        BY <4>1, <4>2, Zenon
    <3> QED
      BY <3>1, <3>2, <3>3
  <2>4. told' \in BOOLEAN
    BY <2>2 DEF Midnight, Books, HaltTold, StillTold
  <2> QED
    BY <2>3, <2>4 DEF BooksType
<1>4. SchedType' /\ LlmAge'
  <2>1. CASE UNCHANGED sched
    BY <1>1, <2>1 DEF PipeInv, SchedType, LlmAge, Every
  <2>2. CASE Asked("equity")
    <3>1. "equity" \in Jobs /\ "equity" # "llm"
      BY DEF Jobs
    <3>2. SchedType' /\ DOMAIN sched' = DOMAIN sched \cup {"equity"}
          /\ \A k \in DOMAIN sched : k # "equity" => sched'[k] = sched[k]
      BY <2>2, <3>1, AskedType DEF PipeInv
    <3> QED
      BY <1>1, <3>1, <3>2 DEF PipeInv, LlmAge
  <2> QED
    BY <2>1, <2>2 DEF Midnight, Books, HaltTold
<1>5. PipeWords' /\ TickCool'
  BY <1>1 DEF PipeInv, PipeWords, TickCool
<1>6. DriveType' /\ DriveKnown' /\ SavedWhole'
  BY <1>1, <1>2 DEF PipeInv, DriveType, DriveKnown, SavedWhole
<1>7. LeakOwed' /\ NoticeAge'
  BY <1>1 DEF PipeInv, LeakOwed, NoticeAge, UnderWay
<1> QED
  BY <1>2, <1>3, <1>4, <1>5, <1>6, <1>7 DEF PipeInv

\* The decision begins outside a cool-down, an interval after the last one.
LEMMA TasksKeep == PipeInv /\ Tasks => PipeInv'
<1> SUFFICES ASSUME PipeInv, Tasks PROVE PipeInv'
  OBVIOUS
<1> USE PipeNumbers
<1>1. /\ pt = "tasks" /\ pt' = "done" /\ ptAge' = 0 /\ Asked("llm")
      /\ \/ Due("llm") /\ llm' = "asking" /\ since' = [since EXCEPT !.llm = 0]
         \/ UNCHANGED <<llm, since>>
      /\ UNCHANGED <<mode, life, nt, ntAge, cool, books, told, pend, drive, leak, spent>>
  BY DEF Tasks
<1>2. "llm" \in Jobs
  BY DEF Jobs
<1>3. SchedType' /\ DOMAIN sched' = DOMAIN sched \cup {"llm"}
      /\ sched'["llm"] = IF Due("llm") \/ "llm" \notin DOMAIN sched THEN Every("llm") ELSE sched["llm"]
  BY <1>1, <1>2, AskedType DEF PipeInv
<1>4. since' \in [notice : 0..Cooling, llm : 0..LlmEvery, owed : 0..MaxPend + 1]
      /\ since'.notice = since.notice /\ since'.llm \in {0, since.llm}
      /\ (since'.llm # since.llm => Due("llm"))
  BY <1>1 DEF PipeInv, PipeWords
<1>5. PipeWords' /\ TickCool'
  BY <1>1, <1>4 DEF PipeInv, PipeWords, TickCool
<1>6. LlmAge'
  BY <1>3, <1>4 DEF PipeInv, PipeWords, LlmAge, Every
<1>7. DriveType' /\ BooksType' /\ DriveKnown' /\ SavedWhole' /\ SpentType'
  BY <1>1 DEF PipeInv, DriveType, BooksType, DriveKnown, SavedWhole, SpentType, Limit
<1>8. cool = 0
  BY <1>1 DEF PipeInv, TickCool
<1>9. LeakOwed' /\ NoticeAge'
  BY <1>1, <1>4, <1>8 DEF PipeInv, LeakOwed, NoticeAge
<1> QED
  BY <1>3, <1>5, <1>6, <1>7, <1>9 DEF PipeInv

\* What remains of a sum when a part shrinks, and its bound.
LEMMA SumShrinks == \A a, b, c \in Nat : b <= c => a + b <= a + c
  OBVIOUS

LEMMA SumBounded ==
  \A a, b, c, e, p \in Nat : a + b <= c /\ c <= e /\ e <= p => a + b <= e /\ a <= p
  OBVIOUS

\* A step of the decision or of the driving task: each buy takes one off those
\* under way.
LEMMA TaskFrame ==
  ASSUME PipeInv, UNCHANGED <<mode, life, pt, ptAge, sched, cool, books, told, since, spent>>,
         nt' \in {"start", "drive", "done"}, ntAge' \in 0..Patience,
         llm' \in {"none", "asking", "sent"}, pend' \in 0..MaxPend,
         leak' \in Nat, UnderWay' \in Nat, DriveType', DriveKnown',
         cool = 0 => leak' = 0,
         cool > 0 => leak' + UnderWay' <= leak + UnderWay,
         drive'.sent => drive.sent \/ life # "down"
  PROVE  PipeInv'
<1> USE PipeNumbers
<1>1. LeakOwed' /\ leak' \in 0..MaxPend + 1
  <2>1. leak \in Nat /\ UnderWay \in Nat /\ since.owed \in 0..MaxPend + 1 /\ cool \in Nat
    BY UnderWayType DEF PipeInv, PipeWords
  <2>2. (cool = 0 => leak = 0) /\ (cool > 0 => leak + UnderWay <= since.owed)
    BY DEF PipeInv, LeakOwed
  <2>3. since.owed \in Nat /\ since.owed <= MaxPend + 1
    BY <2>1
  <2>4. CASE cool = 0
    BY <2>4 DEF LeakOwed
  <2>5. CASE cool > 0
    <3>1. leak' + UnderWay' <= leak + UnderWay /\ leak + UnderWay <= since.owed
      BY <2>2, <2>5
    <3>2. leak + UnderWay \in Nat /\ MaxPend + 1 \in Nat
      BY <2>1
    <3>3. leak' + UnderWay' <= since.owed /\ leak' <= MaxPend + 1
      BY <2>3, <3>1, <3>2, SumBounded
    <3>4. leak' \in 0..MaxPend + 1
      BY <3>3
    <3> QED
      BY <2>5, <3>3, <3>4 DEF LeakOwed
  <2> QED
    BY <2>1, <2>4, <2>5
<1>2. PipeWords'
  BY <1>1 DEF PipeInv, PipeWords
<1>3. BooksType' /\ SpentType' /\ SavedWhole'
  BY DEF PipeInv, BooksType, SpentType, Limit, SavedWhole
<1>4. SchedType' /\ LlmAge'
  BY DEF PipeInv, SchedType, LlmAge, Every
<1>5. TickCool' /\ NoticeAge'
  BY DEF PipeInv, TickCool, NoticeAge
<1> QED
  BY <1>1, <1>2, <1>3, <1>4, <1>5 DEF PipeInv

LEMMA TasksRun ==
  ASSUME PipeInv, LlmBuys \/ LlmEnds \/ Scanned \/ NakedTick \/ DriveBuys
  PROVE  PipeInv'
<1> USE PipeNumbers
<1>0. /\ pt \in {"start", "cancel", "notice", "books", "halt", "tasks", "done"} /\ ptAge \in 0..Patience
      /\ nt \in {"start", "drive", "done"} /\ ntAge \in 0..Patience
      /\ cool \in Nat /\ llm \in {"none", "asking", "sent"} /\ pend \in 0..MaxPend /\ leak \in Nat
      /\ UnderWay \in Nat /\ (cool = 0 => leak = 0) /\ drive.left \in 0..MaxPend
  BY UnderWayType DEF PipeInv, PipeWords, LeakOwed, DriveType
<1>1. DriveType /\ DriveKnown
  BY DEF PipeInv
<1>2. CASE LlmBuys
  <2>1. /\ llm = "asking" /\ mode = "llm" /\ llm' = "sent" /\ leak' = (IF cool > 0 THEN leak + 1 ELSE leak)
        /\ UNCHANGED <<mode, life, pt, ptAge, nt, ntAge, sched, cool, books, told, pend, drive, since, spent>>
    BY <1>2 DEF LlmBuys, Buys, tickVars
  <2>2. UnderWay = 1 /\ UnderWay' = 0
    BY <2>1 DEF UnderWay
  <2>3. DriveType' /\ DriveKnown'
    BY <1>1, <2>1 DEF DriveType, DriveKnown
  <2>4. leak' \in Nat /\ (cool = 0 => leak' = 0) /\ (cool > 0 => leak' + UnderWay' <= leak + UnderWay)
    BY <1>0, <2>1, <2>2
  <2> QED
    BY <1>0, <2>1, <2>2, <2>3, <2>4, TaskFrame
<1>3. CASE LlmEnds
  <2>1. /\ llm' = "none"
        /\ UNCHANGED <<mode, life, pt, ptAge, nt, ntAge, sched, cool, books, told, pend, drive, since, leak, spent>>
    BY <1>3 DEF LlmEnds, tickVars
  <2>2. UnderWay' \in Nat /\ UnderWay' <= UnderWay
    BY <1>0, <2>1 DEF UnderWay
  <2>3. DriveType' /\ DriveKnown'
    BY <1>1, <2>1 DEF DriveType, DriveKnown
  <2>4. leak' = leak /\ leak' + UnderWay' <= leak + UnderWay
    BY <1>0, <2>1, <2>2, SumShrinks
  <2> QED
    BY <1>0, <2>1, <2>2, <2>3, <2>4, TaskFrame
<1>4. CASE Scanned
  <2>1. /\ pend < MaxPend /\ pend' = pend + 1
        /\ UNCHANGED <<mode, life, pt, ptAge, nt, ntAge, sched, cool, books, told, llm, drive, since, leak, spent>>
    BY <1>4 DEF Scanned, tickVars
  <2>2. UnderWay' = UnderWay
    BY <2>1 DEF UnderWay
  <2>3. DriveType' /\ DriveKnown'
    BY <1>0, <1>1, <2>1 DEF DriveType, DriveKnown
  <2> QED
    BY <1>0, <2>1, <2>2, <2>3, TaskFrame
<1>5. CASE NakedTick
  <2>1. UNCHANGED <<mode, life, pt, ptAge, ntAge, sched, cool, books, told, llm, pend, since, leak, spent>>
    BY <1>5 DEF NakedTick
  <2>2. CASE ~drive.on /\ mode = "naked" /\ pend > 0 /\ Drives(CanEnter)
    <3>1. drive' = [on |-> TRUE, may |-> CanEnter, left |-> pend, sent |-> FALSE] /\ nt' = "drive"
      BY <2>2 DEF Drives
    <3>2. CanEnter \in BOOLEAN
      BY DEF CanEnter
    <3>3. DriveType' /\ DriveKnown'
      BY <1>0, <2>1, <2>2, <3>1, <3>2 DEF DriveType, DriveKnown
    <3>4. cool > 0 => ~drive'.may
      <4>1. drive'.may = CanEnter
        BY <3>1, Zenon
      <4>2. cool > 0 => cool # 0
        OBVIOUS
      <4> QED
        BY <4>1, <4>2, Zenon DEF CanEnter
    <3>5. drive'.left = pend /\ drive'.sent = FALSE
      BY <3>1
    <3>6. UnderWay = 0
      BY <2>2 DEF UnderWay
    <3>7. UnderWay' \in {0, pend} /\ (~drive'.may => UnderWay' = 0)
      BY <2>1, <2>2, <3>5 DEF UnderWay
    <3>8. UnderWay' \in Nat /\ (cool > 0 => UnderWay' <= UnderWay)
      BY <1>0, <3>4, <3>6, <3>7
    <3>9. leak' = leak /\ (cool > 0 => leak' + UnderWay' <= leak + UnderWay)
      BY <1>0, <2>1, <3>8, SumShrinks
    <3> QED
      BY <1>0, <2>1, <3>1, <3>3, <3>5, <3>8, <3>9, TaskFrame
  <2>3. CASE nt' = "done" /\ UNCHANGED drive
    <3>1. UnderWay' = UnderWay
      BY <2>1, <2>3 DEF UnderWay
    <3>2. DriveType' /\ DriveKnown'
      BY <1>1, <2>1, <2>3 DEF DriveType, DriveKnown
    <3> QED
      BY <1>0, <2>1, <2>3, <3>1, <3>2, TaskFrame
  <2> QED
    BY <1>5, <2>2, <2>3 DEF NakedTick
<1>6. CASE DriveBuys
  <2>1. /\ drive.on /\ drive.may /\ drive.left > 0 /\ ~drive.sent /\ life # "down"
        /\ drive' = [drive EXCEPT !.sent = TRUE] /\ leak' = (IF cool > 0 THEN leak + 1 ELSE leak)
        /\ UNCHANGED <<mode, life, pt, ptAge, nt, ntAge, sched, cool, books, told, llm, pend, since, spent>>
    BY <1>6 DEF DriveBuys, Buys, tickVars, Running
  <2>2. /\ drive'.on = drive.on /\ drive'.may = drive.may /\ drive'.left = drive.left /\ drive'.sent = TRUE
        /\ DriveType'
    BY <1>1, <2>1 DEF DriveType
  <2>3. DriveKnown' /\ mode = "naked"
    BY <1>1, <2>1, <2>2 DEF DriveKnown
  <2>4. UnderWay = drive.left /\ UnderWay' = drive.left - 1
    BY <2>1, <2>2, <2>3 DEF UnderWay
  <2>5. leak' \in Nat /\ UnderWay' \in Nat
        /\ (cool = 0 => leak' = 0) /\ (cool > 0 => leak' + UnderWay' <= leak + UnderWay)
    BY <1>0, <2>1, <2>4
  <2> QED
    BY <1>0, <2>1, <2>2, <2>3, <2>5, TaskFrame
<1> QED
  BY <1>2, <1>3, <1>4, <1>5, <1>6

LEMMA DrivingKeeps == PipeInv /\ Driving => PipeInv'
<1> SUFFICES ASSUME PipeInv, Driving PROVE PipeInv'
  OBVIOUS
<1> USE PipeNumbers
<1>0. /\ pt \in {"start", "cancel", "notice", "books", "halt", "tasks", "done"} /\ ptAge \in 0..Patience
      /\ nt \in {"start", "drive", "done"} /\ ntAge \in 0..Patience
      /\ cool \in Nat /\ llm \in {"none", "asking", "sent"} /\ pend \in 0..MaxPend /\ leak \in Nat
      /\ UnderWay \in Nat /\ (cool = 0 => leak = 0) /\ drive.left \in 0..MaxPend
  BY UnderWayType DEF PipeInv, PipeWords, LeakOwed, DriveType
<1>1. DriveType /\ DriveKnown
  BY DEF PipeInv
<1>2. CASE DriveNext
  <2>1. /\ drive.on /\ drive.left > 0
        /\ drive' = [drive EXCEPT !.sent = FALSE, !.left = drive.left - 1]
        /\ pend' \in {pend - 1, pend}
        /\ UNCHANGED <<mode, life, pt, ptAge, nt, ntAge, sched, cool, books, told, llm, since, leak, spent>>
    BY <1>2 DEF DriveNext, tickVars
  <2>2. /\ drive'.on = drive.on /\ drive'.may = drive.may /\ drive'.left = drive.left - 1 /\ drive'.sent = FALSE
        /\ DriveType'
    <3>1. drive.left - 1 \in 0..MaxPend
      BY <1>0, <2>1
    <3>2. drive \in [on : BOOLEAN, may : BOOLEAN, left : 0..MaxPend, sent : BOOLEAN]
      BY <1>1 DEF DriveType
    <3> QED
      BY <2>1, <3>1, <3>2 DEF DriveType
  <2>3. DriveKnown' /\ pend' \in 0..MaxPend /\ mode = "naked"
    BY <1>0, <1>1, <2>1, <2>2 DEF DriveKnown
  <2>4. UnderWay' \in Nat /\ UnderWay' <= UnderWay
    BY <1>0, <2>1, <2>2, <2>3 DEF UnderWay
  <2>5. leak' = leak /\ leak' + UnderWay' <= leak + UnderWay
    BY <1>0, <2>1, <2>4, SumShrinks
  <2> QED
    BY <1>0, <2>1, <2>2, <2>3, <2>4, <2>5, TaskFrame
<1>3. CASE DriveEnds
  <2>1. /\ drive' = NoDrive
        /\ \/ nt' = "done" /\ ntAge' = 0
           \/ UNCHANGED <<nt, ntAge>>
        /\ UNCHANGED <<mode, life, pt, ptAge, sched, cool, books, told, llm, pend, since, leak, spent>>
    BY <1>3 DEF DriveEnds
  <2>2. drive'.on = FALSE /\ drive'.sent = FALSE /\ DriveType' /\ DriveKnown'
    BY <2>1 DEF NoDrive, DriveType, DriveKnown
  <2>3. UnderWay' \in Nat /\ UnderWay' <= UnderWay
    BY <1>0, <2>1, <2>2 DEF UnderWay
  <2>4. nt' \in {"start", "drive", "done"} /\ ntAge' \in 0..Patience
    BY <1>0, <2>1
  <2>5. leak' = leak /\ leak' + UnderWay' <= leak + UnderWay
    BY <1>0, <2>1, <2>3, SumShrinks
  <2> QED
    BY <1>0, <2>1, <2>2, <2>3, <2>4, <2>5, TaskFrame
<1> QED
  BY <1>2, <1>3 DEF Driving

\* The end of the process: a task that is given up is spent.
LEMMA EndKeeps ==
  ASSUME PipeInv, StopAsked \/ EngineStops \/ ClockStops \/ Goodbye
  PROVE  PipeInv'
<1> USE PipeNumbers
<1>1. /\ UNCHANGED <<mode, sched, cool, books, told, pend, drive, since, leak>>
      /\ llm' \in {llm, "none"} /\ life' \in {"drain", "stop", "last", "down"}
      /\ pt' \in {pt, "done"} /\ nt' \in {nt, "done"} /\ ptAge' \in {ptAge, 0} /\ ntAge' \in {ntAge, 0}
  BY DEF StopAsked, EngineStops, ClockStops, Goodbye, tickVars, taskVars
<1>2. SpentType'
  <2>1. {"cuts", "slips"} \subseteq Bounds
    BY DEF Bounds
  <2>2. UNCHANGED spent \/ Spend("cuts") \/ Spend("slips")
    BY DEF StopAsked, EngineStops, ClockStops, Goodbye
  <2> QED
    BY <2>1, <2>2, SpendType DEF PipeInv, SpentType, Limit
<1>3. SavedWhole'
  <2>1. CASE Goodbye
    <3>1. "cuts" \in Bounds
      BY DEF Bounds
    <3>2. CASE Spend("cuts")
      BY <3>1, <3>2, SpendType DEF PipeInv, SavedWhole
    <3>3. CASE ~drive.on
      BY <1>1, <3>3 DEF PipeInv, DriveKnown, SavedWhole
    <3> QED
      BY <2>1, <3>2, <3>3 DEF Goodbye, Drained
  <2>2. CASE ~Goodbye
    BY <2>2 DEF StopAsked, EngineStops, ClockStops, SavedWhole
  <2> QED
    BY <2>1, <2>2
<1>4. PipeWords' /\ TickCool'
  BY <1>1 DEF PipeInv, PipeWords, TickCool
<1>5. DriveType' /\ BooksType' /\ DriveKnown'
  BY <1>1 DEF PipeInv, DriveType, BooksType, DriveKnown
<1>6. SchedType' /\ LlmAge'
  BY <1>1 DEF PipeInv, SchedType, LlmAge, Every
<1>7. LeakOwed' /\ NoticeAge'
  <2>1. UnderWay \in Nat /\ UnderWay' \in Nat /\ UnderWay' <= UnderWay
    BY <1>1, UnderWayType DEF UnderWay
  <2>2. leak \in Nat /\ since.owed \in Nat
    BY DEF PipeInv, PipeWords
  <2> QED
    BY <1>1, <2>1, <2>2 DEF PipeInv, LeakOwed, NoticeAge
<1> QED
  BY <1>2, <1>3, <1>4, <1>5, <1>6, <1>7 DEF PipeInv

LEMMA PipeStep == PipeInv /\ [PipeNext]_pipeVars => PipeInv'
<1> SUFFICES ASSUME PipeInv, [PipeNext]_pipeVars PROVE PipeInv'
  OBVIOUS
<1>1. CASE UNCHANGED pipeVars
  <2>1. UNCHANGED <<mode, life, pt, ptAge, nt, ntAge, sched, cool, books, told, llm, pend, drive, since, leak, spent>>
    BY <1>1 DEF pipeVars, tickVars, taskVars
  <2>2. UnderWay' = UnderWay
    BY <2>1 DEF UnderWay
  <2> QED
    BY <2>1, <2>2 DEF PipeInv, PipeWords, DriveType, BooksType, SchedType, SpentType, Limit, Every,
                      TickCool, LeakOwed, DriveKnown, NoticeAge, LlmAge, SavedWhole
<1> QED
  BY <1>1, PassKeeps, ClockKeeps, ToldKeeps, BooksKeep, TasksKeep, TasksRun, DrivingKeeps, EndKeeps
     DEF PipeNext, Steps, Ending

\* In a cool-down only that buys which was under way when it began, and the last
\* state saved holds every accepted buy unless the wait for it was given up
\* (main.py:268, 594, 733-780).
THEOREM PipelineKept == Spec => []PipelineSafe
<1>1. PipeInv => PipelineSafe
  BY PipeTypes, UnderWayType DEF PipeInv, PipelineSafe, LeakBounded, LeakOwed, PipeWords
<1>2. [Next]_vars => [PipeNext]_pipeVars
  BY DEF Next, vars
<1> QED
  BY <1>1, <1>2, PipeFirst, PipeStep, PTL DEF Spec

\* The breaker tells of itself once in a cool-down and two decisions are an
\* interval apart, however late, dropped or repeated the ticks are
\* (main.py:57-62, 259-266).
THEOREM TicksSpaced == Spec => NoticeSpaced /\ LlmSpaced
<1>1. PipeInv /\ [PipeNext]_pipeVars
      => [pt = "notice" /\ cool' = Cooling /\ spent.slips = 0 => since.notice = Cooling]_pipeVars
  <2> SUFFICES ASSUME PipeInv, pt = "notice" PROVE since.notice = Cooling
    OBVIOUS
  <2> QED
    BY PipeNumbers DEF PipeInv, PipeWords, TickCool, NoticeAge
<1>2. PipeInv /\ [PipeNext]_pipeVars => [llm = "none" /\ llm' = "asking" => since.llm = LlmEvery]_pipeVars
  <2> SUFFICES ASSUME PipeInv, PipeNext, llm = "none", llm' = "asking" PROVE since.llm = LlmEvery
    BY DEF pipeVars, taskVars
  <2>1. Tasks
    BY DEF PipeNext, Pass, Steps, NextTick, DropProcess, DropNaked, Watch, CancelledAll, Told, Books, HaltTold,
           NakedTick, Blind, Midnight, LlmBuys, LlmEnds, Scanned, DriveBuys, Driving, DriveNext, DriveEnds,
           StopAsked, Ending, EngineStops, ClockStops, Goodbye, taskVars
  <2>2. Due("llm")
    BY <2>1 DEF Tasks
  <2> QED
    BY <2>2, PipeNumbers DEF PipeInv, PipeWords, LlmAge, Due
<1>3. [Next]_vars => [PipeNext]_pipeVars
  BY DEF Next, vars
<1> QED
  BY <1>1, <1>2, <1>3, PipeFirst, PipeStep, PTL DEF Spec, NoticeSpaced, LlmSpaced

(***************************************************************************)
(* The candles and the universe of alts.                                    *)
(***************************************************************************)

LEMMA FeedNumbers ==
  /\ Bar \in Nat /\ Bar > 0 /\ Scan \in Nat /\ Scan > 0 /\ TopN \in Nat /\ Markets \in Nat
  /\ Grace \in Nat /\ Extra \in Nat /\ MinRefetch \in Nat /\ Latency \in Nat
  /\ MaxTime \in Nat /\ MaxDeaf \in Nat
  BY CandleFeedAssumption

\* A bounded set of numbers has a greatest one.
LEMMA GreatestExists ==
  ASSUME NEW n \in Nat, NEW S \in SUBSET (0..n), S # {}
  PROVE  Max(S) \in S /\ \A x \in S : x <= Max(S)
<1> DEFINE Above(x) == {y \in S : y > x}
           Aboves == {Above(x) : x \in S}
<1>1. IsFiniteSet(S) /\ \A x \in S : x \in Nat
  <2>1. IsFiniteSet(0..n)
    BY FS_Interval
  <2>2. IsFiniteSet(S)
    BY <2>1, FS_Subset, Zenon
  <2> QED
    BY <2>2
<1>2. Aboves \subseteq FiniteSubsetsOf(S) /\ Aboves # {}
  <2>1. \A x \in S : IsFiniteSet(Above(x)) /\ Above(x) \subseteq S
    BY <1>1, FS_Subset
  <2> QED
    BY <2>1 DEF FiniteSubsetsOf
<1>3. IsWellFoundedOn(StrictSubsetOrdering(S), FiniteSubsetsOf(S))
  BY FS_StrictSubsetOrderingWellFounded
<1>4. PICK A \in Aboves : \A B \in Aboves : ~(<<B, A>> \in StrictSubsetOrdering(S))
  BY <1>2, <1>3, WFMin
<1>5. PICK m \in S : A = Above(m)
  BY <1>4
<1>6. ASSUME NEW x \in S, x > m PROVE FALSE
  <2>1. Above(x) \subseteq Above(m) /\ x \in Above(m) /\ x \notin Above(x)
    <3>1. \A y \in S : y > x => y > m
      BY <1>1, <1>6
    <3>2. ~(x > x)
      BY <1>1
    <3> QED
      BY <1>6, <3>1, <3>2
  <2>2. Above(x) \in Aboves /\ Above(x) \subseteq S /\ Above(m) \subseteq S
    OBVIOUS
  <2> HIDE DEF Above, Aboves
  <2> QED
    BY <1>4, <1>5, <2>1, <2>2 DEF StrictSubsetOrdering
<1>7. \A x \in S : m >= x
  BY <1>1, <1>6
<1>8. Max(S) \in S /\ \A x \in S : Max(S) >= x
  BY <1>7 DEF Max
<1> QED
  BY <1>1, <1>8

\* When a candle ends.
LEMMA EndsType == \A b \in Nat : Ends(b) \in Nat /\ Ends(b + 1) = Ends(b) + Bar
  BY FeedNumbers DEF Ends

LEMMA EndsGrow ==
  ASSUME NEW a \in Nat, NEW b \in Nat, a <= b
  PROVE  Ends(a) <= Ends(b) /\ b <= Ends(b)
<1>1. PICK d \in Nat : b = a + d
  <2>1. b - a \in Nat /\ b = a + (b - a)
    OBVIOUS
  <2> QED
    BY <2>1
<1>2. b * Bar = a * Bar + d * Bar /\ d * Bar \in Nat /\ a * Bar \in Nat
  BY <1>1, FeedNumbers
<1>3. PICK k \in Nat : Bar = 1 + k
  <2>1. Bar - 1 \in Nat /\ Bar = 1 + (Bar - 1)
    BY FeedNumbers
  <2> QED
    BY <2>1
<1>4. b * Bar = b + b * k /\ b * k \in Nat
  BY <1>3
<1> QED
  BY <1>2, <1>4 DEF Ends

LEMMA EndsHere ==
  ASSUME NEW n \in Nat, n % Bar = 0
  PROVE  n \div Bar \in Nat /\ Ends(n \div Bar) = n
  BY FeedNumbers DEF Ends

\* The first markets of a set are no more than they should be.
LEMMA ForemostFew ==
  ASSUME NEW s \in SUBSET (1..Markets), NEW n \in Nat
  PROVE  Foremost(s, n) \subseteq s /\ Cardinality(Foremost(s, n)) <= n
<1> USE FeedNumbers
<1> DEFINE F == Foremost(s, n)
           Before(m) == {k \in s : k < m}
           f == [m \in F |-> Cardinality(Before(m))]
<1>1. IsFiniteSet(s) /\ s \subseteq Nat
  <2>1. IsFiniteSet(1..Markets)
    BY FS_Interval
  <2>2. IsFiniteSet(s)
    BY <2>1, FS_Subset, Zenon
  <2> QED
    BY <2>2
<1>2. \A m \in s : IsFiniteSet(Before(m)) /\ Cardinality(Before(m)) \in Nat
  <2> SUFFICES ASSUME NEW m \in s PROVE IsFiniteSet(Before(m)) /\ Cardinality(Before(m)) \in Nat
    OBVIOUS
  <2>1. Before(m) \in SUBSET s
    OBVIOUS
  <2> HIDE DEF Before
  <2> QED
    BY <1>1, <2>1, FS_Subset, FS_CardinalityType
<1>3. F \subseteq s /\ \A m \in F : Cardinality(Before(m)) < n
  BY DEF Foremost
<1>5. ASSUME NEW a \in F, NEW b \in F, a < b
      PROVE  Cardinality(Before(a)) # Cardinality(Before(b))
  <2>1. a \in s /\ b \in s /\ a \in Nat /\ b \in Nat
    BY <1>1, <1>3
  <2>2. \A k \in s : k < a => k < b
    BY <1>1, <1>5, <2>1
  <2>3. Before(a) \in SUBSET Before(b) /\ a \in Before(b) /\ a \notin Before(a)
    <3>1. ~(a < a)
      BY <2>1
    <3> QED
      BY <1>5, <2>1, <2>2, <3>1
  <2>4. IsFiniteSet(Before(b))
    BY <1>2, <2>1
  <2> HIDE DEF Before, F
  <2> QED
    BY <2>3, <2>4, FS_Subset
<1> HIDE DEF F, Before
<1>4. f \in [F -> 0..n - 1] /\ \A m \in F : f[m] = Cardinality(Before(m))
  <2>1. \A m \in F : Cardinality(Before(m)) \in 0..n - 1
    BY <1>2, <1>3
  <2> QED
    BY <2>1
<1> HIDE DEF f
<1>6. f \in Injection(F, 0..n - 1)
  <2>1. \A a, b \in F : f[a] = f[b] => a = b
    <3> SUFFICES ASSUME NEW a \in F, NEW b \in F, a # b PROVE f[a] # f[b]
      OBVIOUS
    <3>1. a < b \/ b < a
      BY <1>1, <1>3
    <3>2. Cardinality(Before(a)) # Cardinality(Before(b))
      BY <1>5, <3>1
    <3> QED
      BY <1>4, <3>2
  <2> QED
    BY <1>4, <2>1 DEF Injection, IsInjective
<1>7. IsFiniteSet(0..n - 1) /\ Cardinality(0..n - 1) = n
  <2>1. 0 \in Int /\ n - 1 \in Int /\ n - 1 - 0 + 1 = n /\ (0 > n - 1 => n = 0)
    OBVIOUS
  <2> QED
    BY <2>1, FS_Interval
<1>8. Cardinality(F) <= n
  BY <1>6, <1>7, FS_Injection
<1> QED
  BY <1>3, <1>8 DEF F

\* The types of CandleFeed in parts.
FeedWords ==
  /\ tick \in 0..MaxTime /\ made \subseteq 0..MaxTime /\ next \in 0..Scan /\ deaf \in 0..MaxDeaf
  /\ cache \in [last : 0..MaxTime, asof : 0..MaxTime, at : 0..MaxTime, asked : BOOLEAN]
  /\ ask \in [on : BOOLEAN, from : 0..MaxTime, read : BOOLEAN, at : 0..MaxTime]
QuoteType ==
  /\ quote \in [at : {"off", "idle", "books"}, clean : SUBSET (1..Markets), wide : SUBSET (1..Markets),
                known : SUBSET (1..Markets), lost : SUBSET (1..Markets), rest : SUBSET (1..Markets)]
  /\ alts \subseteq 1..Markets /\ Cardinality(alts) <= TopN

\* A candle is made at its end; the one in the cache had ended when the last
\* request began, and a request is answered in time.
TimesKnown ==
  /\ \A b \in made : b > 0 /\ Ends(b) <= tick
  /\ cache.at <= tick
  /\ cache.last > 0 => /\ cache.last \in made /\ Ends(cache.last) + Grace <= cache.at
                       /\ Ends(cache.last) <= cache.asof
  /\ ask.on => ask.from = cache.at /\ tick <= ask.from + Latency
  /\ ask.on /\ ask.read => ask.from <= ask.at

\* What a candle that is not in the cache waits for: the request that will bring
\* it began in time, or the scan that will make this request is near.
Late == Grace + Extra + MinRefetch + Latency + Scan
Awaited(b) ==
  IF ask.on /\ ask.from >= Ends(b) + Grace THEN ask.from < Ends(b) + Late
  ELSE tick + next < Ends(b) + Late /\ (cache.asked => cache.at < Ends(b) + Grace)
SeenInv == deaf = 0 => \A b \in made : b > cache.last => Awaited(b)

\* The spreads of the first choice are known, lost, or still to be read; the
\* universe is chosen of what they leave.
UniverseKnown ==
  IF quote.at = "books" THEN quote.known \cup quote.lost \cup quote.rest = First2(quote.clean)
  ELSE /\ quote.known \cup quote.lost = First2(quote.clean)
       /\ alts = Foremost(Narrow, TopN)

FeedInv == FeedWords /\ QuoteType /\ TimesKnown /\ SeenInv /\ UniverseKnown

LEMMA LateType == Late \in Nat /\ Scan <= Late
  BY FeedNumbers DEF Late

LEMMA NoMarkets == \A n : Foremost({}, n) = {}
  BY DEF Foremost

LEMMA FeedFirst == Init => FeedInv
<1> SUFFICES ASSUME Init PROVE FeedInv
  OBVIOUS
<1> USE FeedNumbers
<1>1. PICK side \in Sides : FeedInit(side)
  BY DEF Init
<1>2. /\ tick \in {0, MaxTime} /\ made = {} /\ next = 0
      /\ cache = [last |-> 0, asof |-> 0, at |-> 0, asked |-> FALSE] /\ ask = NoAsk
      /\ alts = {} /\ deaf = 0
      /\ quote \in {[NoQuote EXCEPT !.at = "idle"], [NoQuote EXCEPT !.at = "off"]}
  BY <1>1 DEF FeedInit
<1>3. /\ quote.at \in {"idle", "off"} /\ quote.clean = {} /\ quote.wide = {} /\ quote.known = {}
      /\ quote.lost = {} /\ quote.rest = {}
      /\ quote \in [at : {"off", "idle", "books"}, clean : SUBSET (1..Markets), wide : SUBSET (1..Markets),
                    known : SUBSET (1..Markets), lost : SUBSET (1..Markets), rest : SUBSET (1..Markets)]
  BY <1>2 DEF NoQuote
<1>4. FeedWords /\ TimesKnown /\ SeenInv
  BY <1>2 DEF FeedWords, TimesKnown, SeenInv, NoAsk
<1>5. QuoteType
  BY <1>2, <1>3, FS_EmptySet DEF QuoteType
<1>6. UniverseKnown
  BY <1>2, <1>3, NoMarkets DEF UniverseKnown, First2, Narrow
<1> QED
  BY <1>4, <1>5, <1>6 DEF FeedInv

\* A tick, with the candle that ends at it.
LEMMA TickKeeps ==
  ASSUME FeedWords, TimesKnown, SeenInv, FeedTick
  PROVE  FeedWords' /\ TimesKnown' /\ SeenInv'
<1> USE FeedNumbers
<1>1. /\ tick < MaxTime /\ next > 0 /\ (ask.on => tick < ask.from + Latency)
      /\ tick' = tick + 1 /\ next' = next - 1
      /\ UNCHANGED <<cache, ask, deaf>>
  BY DEF FeedTick, On
<1>2. /\ tick \in Nat /\ tick + 1 \in 0..MaxTime /\ next \in 0..Scan /\ made \subseteq 0..MaxTime
      /\ cache.at \in Nat /\ cache.last \in Nat /\ ask.from \in Nat
  BY <1>1 DEF FeedWords
<1>3. \A b \in made' : \/ b \in made
                       \/ b \in Nat /\ Ends(b) = tick + 1
  <2>1. CASE (tick + 1) % Bar = 0
    BY <1>2, <2>1, EndsHere DEF FeedTick
  <2>2. CASE (tick + 1) % Bar # 0
    BY <2>2 DEF FeedTick
  <2> QED
    BY <2>1, <2>2
<1>4. made \subseteq made'
  BY DEF FeedTick
<1>5. \A b \in made' : b \in 0..MaxTime /\ b > 0 /\ Ends(b) \in Nat /\ Ends(b) <= tick + 1
  <2> SUFFICES ASSUME NEW b \in made' PROVE b \in 0..MaxTime /\ b > 0 /\ Ends(b) \in Nat /\ Ends(b) <= tick + 1
    OBVIOUS
  <2>1. CASE b \in made
    <3>1. b \in 0..MaxTime /\ b > 0 /\ Ends(b) <= tick
      BY <1>2, <2>1 DEF TimesKnown
    <3> QED
      BY <1>2, <3>1, EndsType
  <2>2. CASE b \in Nat /\ Ends(b) = tick + 1
    <3>1. b <= Ends(b)
      BY <2>2, EndsGrow
    <3>2. b # 0
      BY <1>2, <2>2 DEF Ends
    <3> QED
      BY <1>2, <2>2, <3>1, <3>2
  <2> QED
    BY <1>3, <2>1, <2>2
<1>6. FeedWords'
  BY <1>1, <1>2, <1>5 DEF FeedWords
<1>7. TimesKnown'
  <2>1. \A b \in made' : (b > 0 /\ Ends(b) <= tick)'
    BY <1>1, <1>5 DEF Ends
  <2>2. cache.last > 0 => cache.last \in made' /\ Ends(cache.last) + Grace <= cache.at
                          /\ Ends(cache.last) <= cache.asof
    BY <1>4 DEF TimesKnown
  <2>3. cache.at <= tick + 1
    BY <1>2 DEF TimesKnown
  <2>4. /\ ask.on => ask.from = cache.at /\ tick + 1 <= ask.from + Latency
        /\ ask.on /\ ask.read => ask.from <= ask.at
    BY <1>1, <1>2 DEF TimesKnown
  <2> QED
    BY <1>1, <2>1, <2>2, <2>3, <2>4 DEF TimesKnown, Ends
<1>8. SeenInv'
  <2> SUFFICES ASSUME deaf = 0, NEW b \in made', b > cache.last
               PROVE  Awaited(b)'
    BY <1>1 DEF SeenInv
  <2>1. Late' = Late /\ Ends(b)' = Ends(b) /\ Ends(b) \in Nat
    BY <1>5 DEF Late, Ends
  <2>2. tick' + next' = tick + next
    BY <1>1, <1>2
  <2>3. CASE b \in made
    <3>1. Awaited(b)
      BY <2>3 DEF SeenInv
    <3> QED
      BY <1>1, <2>1, <2>2, <3>1 DEF Awaited
  <2>4. CASE Ends(b) = tick + 1
    <3>1. cache.at < Ends(b) + Grace /\ (ask.on => ask.from < Ends(b) + Grace)
      BY <1>2, <2>4 DEF TimesKnown
    <3>2. tick + next < Ends(b) + Late
      BY <1>2, <2>4, LateType
    <3>3. ~(ask.on /\ ask.from >= Ends(b) + Grace)
      BY <1>2, <2>1, <3>1
    <3> QED
      BY <1>1, <2>1, <2>2, <3>1, <3>2, <3>3 DEF Awaited
  <2> QED
    BY <1>3, <2>3, <2>4
<1> QED
  BY <1>6, <1>7, <1>8

\* A scan: a request for the candles, or a reason why none is needed yet.
LEMMA ScanKeeps ==
  ASSUME FeedWords, TimesKnown, SeenInv, FeedScan
  PROVE  FeedWords' /\ TimesKnown' /\ SeenInv'
<1> USE FeedNumbers
<1>1. next = 0 /\ next' = Scan /\ UNCHANGED <<tick, made, deaf>>
  BY DEF FeedScan
<1>2. /\ tick \in 0..MaxTime /\ made \subseteq 0..MaxTime
      /\ cache.at \in Nat /\ cache.last \in Nat /\ ask.from \in Nat
  BY DEF FeedWords
<1>3. \A b \in made : b \in Nat /\ b > 0 /\ Ends(b) \in Nat /\ Ends(b) <= tick /\ Ends(b)' = Ends(b)
  BY <1>2, EndsType DEF TimesKnown, Ends
<1>4. CASE ~ask.on /\ Outdated /\ Rested
  <2>1. /\ ask' = [on |-> TRUE, from |-> tick, read |-> FALSE, at |-> 0]
        /\ cache' = [cache EXCEPT !.at = tick, !.asked = TRUE]
    BY <1>4 DEF FeedScan
  <2>2. /\ cache'.last = cache.last /\ cache'.asof = cache.asof /\ cache'.at = tick /\ cache'.asked = TRUE
        /\ cache' \in [last : 0..MaxTime, asof : 0..MaxTime, at : 0..MaxTime, asked : BOOLEAN]
    BY <1>2, <2>1 DEF FeedWords
  <2>3. ask'.on = TRUE /\ ask'.from = tick /\ ask'.read = FALSE
        /\ ask' \in [on : BOOLEAN, from : 0..MaxTime, read : BOOLEAN, at : 0..MaxTime]
    BY <1>2, <2>1
  <2>4. FeedWords'
    BY <1>1, <2>2, <2>3 DEF FeedWords
  <2>5. TimesKnown'
    <3>1. \A b \in made : (b > 0 /\ Ends(b) <= tick)'
      BY <1>1, <1>3
    <3>2. cache.last > 0 => Ends(cache.last) + Grace <= tick /\ cache.last \in made /\ Ends(cache.last) <= cache.asof
      BY <1>2, <1>3 DEF TimesKnown
    <3>3. Ends(cache.last)' = Ends(cache.last) /\ Ends(cache'.last) = Ends(cache.last)
      BY <2>2 DEF Ends
    <3>4. tick <= tick + Latency
      BY <1>2
    <3> QED
      BY <1>1, <1>2, <2>2, <2>3, <3>1, <3>2, <3>3, <3>4 DEF TimesKnown, Ends
  <2>6. SeenInv'
    <3> SUFFICES ASSUME deaf = 0, NEW b \in made, b > cache.last
                 PROVE  Awaited(b)'
      BY <1>1, <2>2 DEF SeenInv
    <3>1. Late' = Late /\ Ends(b)' = Ends(b) /\ Ends(b) \in Nat
      BY <1>3 DEF Late
    <3>2. tick + next < Ends(b) + Late
      BY <1>4 DEF SeenInv, Awaited
    <3>3. tick < Ends(b) + Late
      BY <1>1, <1>2, <3>2
    <3>4. tick < Ends(b) + Grace => tick + Scan < Ends(b) + Late
      BY <1>2, <3>1 DEF Late
    <3>5. tick >= Ends(b) + Grace \/ tick < Ends(b) + Grace
      BY <1>2, <3>1
    <3> QED
      BY <1>1, <2>2, <2>3, <3>1, <3>3, <3>4, <3>5 DEF Awaited
  <2> QED
    BY <2>4, <2>5, <2>6
<1>5. CASE ~(~ask.on /\ Outdated /\ Rested)
  <2>1. UNCHANGED <<ask, cache>>
    BY <1>5 DEF FeedScan
  <2>2. FeedWords'
    BY <1>1, <2>1 DEF FeedWords
  <2>3. TimesKnown'
    BY <1>1, <2>1 DEF TimesKnown, Ends
  <2>4. SeenInv'
    <3> SUFFICES ASSUME deaf = 0, NEW b \in made, b > cache.last
                 PROVE  Awaited(b)'
      BY <1>1, <2>1 DEF SeenInv
    <3>1. Late' = Late /\ Ends(b)' = Ends(b) /\ Ends(b) \in Nat
      BY <1>3 DEF Late
    <3>2. Awaited(b)
      BY DEF SeenInv
    <3>3. CASE ask.on /\ ask.from >= Ends(b) + Grace
      BY <2>1, <3>1, <3>2, <3>3 DEF Awaited
    <3>4. CASE ~(ask.on /\ ask.from >= Ends(b) + Grace)
      <4>1. cache.asked => cache.at < Ends(b) + Grace
        BY <3>2, <3>4 DEF Awaited
      <4>2. CASE ask.on
        <5>1. ask.from < Ends(b) + Grace /\ tick <= ask.from + Latency
          BY <1>2, <3>1, <3>4, <4>2 DEF TimesKnown
        <5> QED
          BY <1>1, <1>2, <2>1, <3>1, <3>4, <4>1, <5>1 DEF Awaited, Late
      <4>3. CASE ~ask.on /\ ~Outdated
        <5>1. cache.last # 0 /\ tick < Ends(cache.last + 1) + Extra
          BY <1>2, <4>3, EndsType DEF Outdated
        <5>2. b \in Nat /\ cache.last + 1 <= b /\ cache.last + 1 \in Nat
          BY <1>2, <1>3
        <5>3. Ends(cache.last + 1) <= Ends(b) /\ Ends(cache.last + 1) \in Nat
          BY <5>2, EndsGrow, EndsType
        <5> QED
          BY <1>1, <1>2, <2>1, <3>1, <3>4, <4>1, <5>1, <5>3 DEF Awaited, Late
      <4>4. CASE ~ask.on /\ ~Rested
        <5>1. cache.asked /\ tick - cache.at < MinRefetch
          BY <1>2, <4>4 DEF Rested
        <5> QED
          BY <1>1, <1>2, <2>1, <3>1, <3>4, <4>1, <5>1 DEF Awaited, Late
      <4> QED
        BY <1>5, <4>2, <4>3, <4>4
    <3> QED
      BY <3>3, <3>4
  <2> QED
    BY <2>2, <2>3, <2>4
<1> QED
  BY <1>4, <1>5

\* The answer: the youngest candle that had ended when the request began.
LEMMA AnswerKeeps ==
  ASSUME FeedWords, TimesKnown, SeenInv, FeedAnswer
  PROVE  FeedWords' /\ TimesKnown' /\ SeenInv'
<1> USE FeedNumbers
<1>1. ask.on /\ ask.read /\ ask' = NoAsk /\ UNCHANGED <<tick, made, next, deaf>>
  BY DEF FeedAnswer
<1>2. /\ tick \in 0..MaxTime /\ made \subseteq 0..MaxTime /\ next \in 0..Scan
      /\ cache.at \in Nat /\ cache.last \in Nat /\ ask.from \in Nat /\ ask.at \in 0..MaxTime
  BY <1>1 DEF FeedWords
<1>3. \A b \in made : b \in Nat /\ b > 0 /\ Ends(b) \in Nat /\ Ends(b) <= tick /\ Ends(b)' = Ends(b)
  BY <1>2, EndsType DEF TimesKnown, Ends
<1>4. ask'.on = FALSE /\ ask' \in [on : BOOLEAN, from : 0..MaxTime, read : BOOLEAN, at : 0..MaxTime]
  BY <1>1 DEF NoAsk
<1>5. \A b \in made : Ends(b) + Grace <= ask.from <=> b \in Closed
  BY DEF Closed, ClosedBy
<1>6. /\ ask.from = cache.at /\ ask.from <= ask.at
      /\ cache.last > 0 => cache.last \in made /\ cache.last \in Closed
  BY <1>1, <1>5 DEF TimesKnown
<1>7. \A b \in made : b \notin Closed /\ b > cache.last /\ deaf = 0
                      => tick + next < Ends(b) + Late /\ cache.at < Ends(b) + Grace
  BY <1>2, <1>3, <1>5, <1>6 DEF SeenInv, Awaited
<1>8. Late' = Late
  BY DEF Late
<1>9. CASE Closed = {}
  <2>1. cache' = cache
    BY <1>9 DEF FeedAnswer
  <2>2. FeedWords'
    BY <1>1, <1>4, <2>1 DEF FeedWords
  <2>3. TimesKnown'
    BY <1>1, <1>4, <2>1 DEF TimesKnown, Ends
  <2>4. SeenInv'
    BY <1>1, <1>3, <1>4, <1>7, <1>8, <1>9, <2>1 DEF SeenInv, Awaited
  <2> QED
    BY <2>2, <2>3, <2>4
<1>10. CASE Closed # {}
  <2>1. PICK m \in Closed : m = Max(Closed) /\ \A x \in Closed : x <= m
    <3>1. Closed \in SUBSET (0..MaxTime)
      BY <1>2 DEF Closed
    <3> QED
      BY <1>10, <3>1, GreatestExists
  <2>2. cache' = [cache EXCEPT !.last = m, !.asof = ask.at]
    BY <1>10, <2>1 DEF FeedAnswer
  <2>3. m \in made /\ m \in 0..MaxTime /\ m > 0 /\ Ends(m) + Grace <= ask.from /\ Ends(m) \in Nat /\ Ends(m)' = Ends(m)
    BY <1>2, <1>3, <1>5, <2>1 DEF Closed
  <2>4. /\ cache'.last = m /\ cache'.asof = ask.at /\ cache'.at = cache.at /\ cache'.asked = cache.asked
        /\ cache' \in [last : 0..MaxTime, asof : 0..MaxTime, at : 0..MaxTime, asked : BOOLEAN]
    BY <1>2, <2>2, <2>3 DEF FeedWords
  <2>5. cache.last <= m
    BY <1>2, <1>6, <2>1, <2>3
  <2>6. FeedWords'
    BY <1>1, <1>4, <2>4 DEF FeedWords
  <2>7. TimesKnown'
    <3>1. Ends(m) + Grace <= cache.at /\ Ends(m) <= ask.at /\ cache.at <= tick
      BY <1>2, <1>6, <2>3 DEF TimesKnown
    <3>2. \A b \in made : (b > 0 /\ Ends(b) <= tick)'
      BY <1>1, <1>3
    <3> QED
      BY <1>1, <1>4, <2>3, <2>4, <3>1, <3>2 DEF TimesKnown, Ends
  <2>8. SeenInv'
    <3> SUFFICES ASSUME deaf = 0, NEW b \in made, b > m
                 PROVE  Awaited(b)'
      BY <1>1, <2>4 DEF SeenInv
    <3>1. b \notin Closed /\ b > cache.last
      BY <1>2, <1>3, <2>1, <2>3, <2>5
    <3>2. tick + next < Ends(b) + Late /\ cache.at < Ends(b) + Grace
      BY <1>7, <3>1
    <3> QED
      BY <1>1, <1>3, <1>4, <1>8, <2>4, <3>2 DEF Awaited
  <2> QED
    BY <2>6, <2>7, <2>8
<1> QED
  BY <1>9, <1>10

LEMMA RequestKeeps ==
  ASSUME FeedWords, TimesKnown, SeenInv,
         FeedRead \/ FeedDeaf \/ (UNCHANGED candleVars /\ deaf' \in {deaf, deaf + 1} /\ deaf' <= MaxDeaf)
  PROVE  FeedWords' /\ TimesKnown' /\ SeenInv'
<1> USE FeedNumbers
<1>1. CASE FeedRead
  <2>1. /\ ask.on /\ ask' = [ask EXCEPT !.read = TRUE, !.at = tick]
        /\ UNCHANGED <<tick, made, cache, next, deaf>>
    BY <1>1 DEF FeedRead
  <2>2. ask'.on = ask.on /\ ask'.from = ask.from /\ ask'.at = tick
        /\ ask' \in [on : BOOLEAN, from : 0..MaxTime, read : BOOLEAN, at : 0..MaxTime]
    BY <2>1 DEF FeedWords
  <2>3. ask.from = cache.at /\ cache.at <= tick
    BY <2>1 DEF TimesKnown
  <2>4. TimesKnown'
    BY <2>1, <2>2, <2>3 DEF TimesKnown, Ends
  <2> QED
    BY <2>1, <2>2, <2>4 DEF FeedWords, SeenInv, Awaited, Late, Ends
<1>2. CASE FeedDeaf
  <2>1. deaf' = deaf + 1 /\ deaf < MaxDeaf /\ ask' = NoAsk /\ UNCHANGED <<tick, made, cache, next>>
    BY <1>2 DEF FeedDeaf
  <2>2. ask'.on = FALSE /\ ask' \in [on : BOOLEAN, from : 0..MaxTime, read : BOOLEAN, at : 0..MaxTime]
    BY <2>1 DEF NoAsk
  <2>3. deaf' # 0 /\ deaf' \in 0..MaxDeaf
    BY <2>1 DEF FeedWords
  <2> QED
    BY <2>1, <2>2, <2>3 DEF FeedWords, TimesKnown, SeenInv, Ends
<1>3. CASE UNCHANGED candleVars /\ deaf' \in {deaf, deaf + 1} /\ deaf' <= MaxDeaf
  <2>1. UNCHANGED <<tick, made, cache, ask, next>>
    BY <1>3 DEF candleVars
  <2>2. deaf' \in 0..MaxDeaf /\ (deaf' = 0 => deaf = 0)
    BY <1>3 DEF FeedWords
  <2> QED
    BY <2>1, <2>2 DEF FeedWords, TimesKnown, SeenInv, Awaited, Late, Ends
<1> QED
  BY <1>1, <1>2, <1>3

\* The refresh of the universe.
LEMMA UniverseKeeps ==
  ASSUME QuoteType, UniverseKnown, Refresh \/ Spreads \/ Chosen
  PROVE  QuoteType' /\ UniverseKnown'
<1> USE FeedNumbers
<1>1. CASE Refresh
  <2>1. PICK clean \in SUBSET (1..Markets), wide \in SUBSET (1..Markets) :
          quote' = [NoQuote EXCEPT !.at = "books", !.clean = clean, !.wide = wide, !.rest = First2(clean)]
    BY <1>1 DEF Refresh
  <2>2. First2(clean) \in SUBSET (1..Markets)
    BY DEF First2, Foremost
  <2>3. /\ quote'.at = "books" /\ quote'.clean = clean /\ quote'.known = {} /\ quote'.lost = {}
        /\ quote'.rest = First2(clean)
        /\ quote' \in [at : {"off", "idle", "books"}, clean : SUBSET (1..Markets), wide : SUBSET (1..Markets),
                       known : SUBSET (1..Markets), lost : SUBSET (1..Markets), rest : SUBSET (1..Markets)]
    BY <2>1, <2>2 DEF NoQuote
  <2>4. alts' = alts
    BY <1>1 DEF Refresh
  <2>5. QuoteType'
    BY <2>3, <2>4 DEF QuoteType
  <2>6. UniverseKnown'
    BY <2>3 DEF UniverseKnown, First2, Foremost
  <2> QED
    BY <2>5, <2>6
<1>2. CASE Spreads
  <2> DEFINE part == Foremost(quote.rest, Chunk)
  <2>1. /\ quote.at = "books" /\ alts' = alts
        /\ \/ quote' = [quote EXCEPT !.rest = quote.rest \ part, !.known = quote.known \cup part]
           \/ quote' = [quote EXCEPT !.rest = quote.rest \ part, !.lost = quote.lost \cup part]
    BY <1>2 DEF Spreads
  <2>2. part \subseteq quote.rest
    BY DEF Foremost
  <2> HIDE DEF part
  <2>3. quote.rest \subseteq 1..Markets /\ quote.known \subseteq 1..Markets /\ quote.lost \subseteq 1..Markets
    BY DEF QuoteType
  <2>4. /\ quote'.at = "books" /\ quote'.clean = quote.clean
        /\ quote'.known \cup quote'.lost \cup quote'.rest = quote.known \cup quote.lost \cup quote.rest
        /\ quote' \in [at : {"off", "idle", "books"}, clean : SUBSET (1..Markets), wide : SUBSET (1..Markets),
                       known : SUBSET (1..Markets), lost : SUBSET (1..Markets), rest : SUBSET (1..Markets)]
    <3>1. CASE quote' = [quote EXCEPT !.rest = quote.rest \ part, !.known = quote.known \cup part]
      BY <2>1, <2>2, <2>3, <3>1 DEF QuoteType
    <3>2. CASE quote' = [quote EXCEPT !.rest = quote.rest \ part, !.lost = quote.lost \cup part]
      BY <2>1, <2>2, <2>3, <3>2 DEF QuoteType
    <3> QED
      BY <2>1, <3>1, <3>2
  <2>5. QuoteType'
    BY <2>1, <2>4 DEF QuoteType
  <2>6. UniverseKnown'
    BY <2>1, <2>4 DEF UniverseKnown, First2, Foremost
  <2> QED
    BY <2>5, <2>6
<1>3. CASE Chosen
  <2>1. /\ quote.at = "books" /\ quote.rest = {} /\ alts' = Foremost(Narrow, TopN)
        /\ quote' = [quote EXCEPT !.at = "idle"]
    BY <1>3 DEF Chosen
  <2>2. /\ quote'.at = "idle" /\ quote'.clean = quote.clean /\ quote'.known = quote.known
        /\ quote'.lost = quote.lost /\ quote'.wide = quote.wide
        /\ quote' \in [at : {"off", "idle", "books"}, clean : SUBSET (1..Markets), wide : SUBSET (1..Markets),
                       known : SUBSET (1..Markets), lost : SUBSET (1..Markets), rest : SUBSET (1..Markets)]
    BY <2>1 DEF QuoteType
  <2>3. Narrow \in SUBSET (1..Markets)
    BY DEF QuoteType, Narrow
  <2>4. alts' \subseteq 1..Markets /\ Cardinality(alts') <= TopN
    BY <2>1, <2>3, ForemostFew
  <2>5. QuoteType'
    BY <2>2, <2>4 DEF QuoteType
  <2>6. Narrow' = Narrow
    BY <2>2 DEF Narrow
  <2>7. UniverseKnown'
    BY <2>1, <2>2, <2>6 DEF UniverseKnown, First2, Foremost
  <2> QED
    BY <2>5, <2>7
<1> QED
  BY <1>1, <1>2, <1>3

LEMMA FeedStep == FeedInv /\ [FeedNext]_feedVars => FeedInv'
<1> SUFFICES ASSUME FeedInv, [FeedNext]_feedVars PROVE FeedInv'
  OBVIOUS
<1>0. FeedWords /\ QuoteType /\ TimesKnown /\ SeenInv /\ UniverseKnown
  BY DEF FeedInv
<1>1. UNCHANGED <<alts, quote>> => QuoteType' /\ UniverseKnown'
  BY <1>0 DEF QuoteType, UniverseKnown, First2, Foremost, Narrow
<1>2. CASE FeedTick \/ FeedScan \/ FeedRead \/ FeedAnswer \/ FeedDeaf
  <2>1. UNCHANGED <<alts, quote>>
    BY <1>2 DEF FeedTick, FeedScan, FeedRead, FeedAnswer, FeedDeaf
  <2> QED
    BY <1>0, <1>1, <1>2, <2>1, TickKeeps, ScanKeeps, AnswerKeeps, RequestKeeps DEF FeedInv
<1>3. CASE Refresh \/ Spreads \/ Chosen
  <2>1. UNCHANGED candleVars /\ deaf' \in {deaf, deaf + 1} /\ deaf' <= MaxDeaf
    <3>1. deaf \in Nat /\ deaf <= MaxDeaf
      BY <1>0, FeedNumbers DEF FeedWords
    <3>2. UNCHANGED candleVars /\ (UNCHANGED deaf \/ (deaf < MaxDeaf /\ deaf' = deaf + 1))
      BY <1>3 DEF Refresh, Spreads, Chosen
    <3> QED
      BY <3>1, <3>2, FeedNumbers
  <2> QED
    BY <1>0, <1>3, <2>1, UniverseKeeps, RequestKeeps DEF FeedInv
<1>4. CASE RefreshFails \/ UNCHANGED feedVars
  <2>1. UNCHANGED <<alts, quote>> /\ UNCHANGED candleVars /\ deaf' \in {deaf, deaf + 1} /\ deaf' <= MaxDeaf
    BY <1>0, <1>4, FeedNumbers DEF RefreshFails, FeedWords, feedVars
  <2> QED
    BY <1>0, <1>1, <2>1, RequestKeeps DEF FeedInv
<1> QED
  BY <1>2, <1>3, <1>4 DEF FeedNext

\* What is wide was among the first choice, so twice as many markets come before
\* what stands outside it, and at least half of them are narrow.
LEMMA UniverseChosen == QuoteType /\ UniverseKnown => UniverseRight
<1> SUFFICES ASSUME QuoteType, UniverseKnown, quote.at = "idle", quote.lost = {},
                    Cardinality(quote.wide \cap First2(quote.clean)) <= TopN
             PROVE  /\ alts \cap quote.wide = {}
                    /\ \A m \in alts, k \in quote.clean \ quote.wide : k < m => k \in alts
  BY DEF UniverseRight
<1> USE FeedNumbers
<1> DEFINE C == quote.clean
           W == quote.wide \cap First2(C)
           Before(s, m) == {k \in s : k < m}
<1>1. Narrow = C \ W /\ alts = Foremost(Narrow, TopN)
  <2>1. quote.known = First2(C)
    BY DEF UniverseKnown
  <2> QED
    BY <2>1 DEF UniverseKnown, Narrow
<1>2. IsFiniteSet(C) /\ \A k \in C : k \in Nat
  <2>1. C \in SUBSET (1..Markets)
    BY DEF QuoteType
  <2>2. IsFiniteSet(1..Markets)
    BY FS_Interval
  <2>3. IsFiniteSet(C)
    BY <2>1, <2>2, FS_Subset, Zenon
  <2> QED
    BY <2>1, <2>3
<1>3. W \subseteq C /\ IsFiniteSet(W) /\ Cardinality(W) \in Nat /\ Cardinality(W) <= TopN
  <2>1. W \in SUBSET C
    BY DEF First2, Foremost
  <2>2. IsFiniteSet(W)
    BY <1>2, <2>1, FS_Subset, Zenon
  <2>3. Cardinality(W) \in Nat
    BY <2>2, FS_CardinalityType, Zenon
  <2> QED
    BY <2>1, <2>2, <2>3
<1>4. ASSUME NEW m \in alts PROVE m \notin quote.wide
  <2>1. m \in C /\ m \notin W /\ Cardinality(Before(Narrow, m)) < TopN
    BY <1>1 DEF Foremost
  <2>2. SUFFICES ASSUME m \in quote.wide PROVE FALSE
    OBVIOUS
  <2>3. m \notin First2(C)
    BY <2>1, <2>2
  <2>4. ~(Cardinality(Before(C, m)) < 2 * TopN)
    BY <2>1, <2>3 DEF First2, Foremost
  <2>5. Before(Narrow, m) = Before(C, m) \ W
    BY <1>1
  <2>6. Before(C, m) \in SUBSET C /\ Before(C, m) \cap W \in SUBSET W
    OBVIOUS
  <2> HIDE DEF Before, W, C
  <2>7. IsFiniteSet(Before(C, m)) /\ Cardinality(Before(C, m)) \in Nat
    BY <1>2, <2>6, FS_Subset, FS_CardinalityType, Zenon
  <2>8. IsFiniteSet(Before(C, m) \cap W)
    BY <1>3, <2>6, FS_Subset, Zenon
  <2>9. Cardinality(Before(C, m) \cap W) \in Nat /\ Cardinality(Before(C, m) \cap W) <= Cardinality(W)
    BY <1>3, <2>6, <2>8, FS_Subset, FS_CardinalityType, Zenon
  <2>10. Cardinality(Before(C, m) \ W) = Cardinality(Before(C, m)) - Cardinality(Before(C, m) \cap W)
    BY <2>7, FS_Difference, Zenon
  <2>11. Cardinality(Before(C, m) \cap W) <= TopN
    BY <1>3, <2>9
  <2>12. Cardinality(Before(Narrow, m)) = Cardinality(Before(C, m)) - Cardinality(Before(C, m) \cap W)
    BY <2>5, <2>10
  <2> QED
    BY <2>1, <2>4, <2>7, <2>9, <2>11, <2>12
<1>5. ASSUME NEW m \in alts, NEW k \in C \ quote.wide, k < m PROVE k \in alts
  <2>1. m \in C /\ Cardinality(Before(Narrow, m)) < TopN /\ k \in Narrow
    BY <1>1 DEF Foremost
  <2>2. Before(Narrow, k) \in SUBSET Before(Narrow, m)
    <3>1. \A j \in C : j < k => j < m
      BY <1>2, <1>5, <2>1
    <3>2. Narrow \subseteq C
      BY <1>1
    <3> QED
      BY <3>1, <3>2
  <2>3. Before(Narrow, m) \in SUBSET C
    BY <1>1
  <2> HIDE DEF Before, C
  <2>4. IsFiniteSet(Before(Narrow, m))
    BY <1>2, <2>3, FS_Subset, Zenon
  <2>5. IsFiniteSet(Before(Narrow, k)) /\ Cardinality(Before(Narrow, k)) <= Cardinality(Before(Narrow, m))
    BY <2>2, <2>4, FS_Subset, Zenon
  <2>6. Cardinality(Before(Narrow, k)) \in Nat /\ Cardinality(Before(Narrow, m)) \in Nat
    BY <2>4, <2>5, FS_CardinalityType, Zenon
  <2>7. Cardinality(Before(Narrow, k)) < TopN
    BY <2>1, <2>5, <2>6
  <2> QED
    BY <1>1, <2>1, <2>7 DEF Foremost, Before
<1> QED
  BY <1>4, <1>5

LEMMA FeedTypes == FeedInv => FeedTypeOK
<1> SUFFICES ASSUME FeedInv PROVE FeedTypeOK
  OBVIOUS
<1>1. tick \in 0..MaxTime /\ made \subseteq 0..MaxTime /\ next \in 0..Scan /\ deaf \in 0..MaxDeaf
  BY DEF FeedInv, FeedWords
<1>2. /\ cache \in [last : 0..MaxTime, asof : 0..MaxTime, at : 0..MaxTime, asked : BOOLEAN]
      /\ ask \in [on : BOOLEAN, from : 0..MaxTime, read : BOOLEAN, at : 0..MaxTime]
  BY DEF FeedInv, FeedWords
<1>3. QuoteType
  BY DEF FeedInv
<1> QED
  BY <1>1, <1>2, <1>3, Zenon DEF FeedTypeOK, QuoteType, Times

\* The strategy sees closed candles, soon after their close if no request failed,
\* and the markets of the most value whose spread is narrow
\* (candle_feed.py:33-46, 90-117, 190-259).
THEOREM CandlesServed == Spec => []FeedRight
<1>1. FeedInv => FeedRight
  <2> SUFFICES ASSUME FeedInv PROVE FinalOnly /\ SeenSoon
    BY FeedTypes, UniverseChosen DEF FeedInv, FeedRight
  <2> USE FeedNumbers
  <2>1. FinalOnly
    <3>1. cache.last \in Nat /\ Ends(cache.last) \in Nat /\ cache.asof \in Nat
      BY EndsType DEF FeedInv, FeedWords
    <3> QED
      BY <3>1 DEF FinalOnly, FeedInv, TimesKnown
  <2>2. SeenSoon
    <3> SUFFICES ASSUME deaf = 0, NEW b \in made,
                        tick >= Ends(b) + Grace + Extra + MinRefetch + Scan + 2 * Latency,
                        ~(cache.last >= b)
                 PROVE  FALSE
      BY DEF SeenSoon
    <3>1. b \in Nat /\ cache.last \in Nat /\ tick \in Nat /\ next \in Nat /\ ask.from \in Nat
      BY DEF FeedInv, FeedWords
    <3>2. Ends(b) \in Nat
      BY <3>1, EndsType
    <3>3. Awaited(b)
      BY <3>1 DEF FeedInv, SeenInv
    <3>4. CASE ask.on /\ ask.from >= Ends(b) + Grace
      <4>1. ask.from < Ends(b) + Late /\ tick <= ask.from + Latency
        BY <3>3, <3>4 DEF Awaited, FeedInv, TimesKnown
      <4> QED
        BY <3>1, <3>2, <4>1 DEF Late
    <3>5. CASE ~(ask.on /\ ask.from >= Ends(b) + Grace)
      <4>1. tick + next < Ends(b) + Late
        BY <3>3, <3>5 DEF Awaited
      <4> QED
        BY <3>1, <3>2, <4>1 DEF Late
    <3> QED
      BY <3>4, <3>5
  <2> QED
    BY <2>1, <2>2
<1>2. [Next]_vars => [FeedNext]_feedVars
  BY DEF Next, vars
<1> QED
  BY <1>1, <1>2, FeedFirst, FeedStep, PTL DEF Spec
=============================================================================
