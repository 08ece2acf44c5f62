------------------------------ MODULE RestCall ------------------------------
(***************************************************************************)
(* The way of an order to the exchange (exchange/rest_client.py,            *)
(* exchange/binance_gateway.py, execution/live_gate.py, and submit and      *)
(* resolve of execution/context.py): the gate, the signature with its       *)
(* timestamp, the wait for the weight limit, the request, one resend after  *)
(* a refused timestamp, the retries of queries, and the queries that settle *)
(* an order whose outcome is unknown.  A query of the account goes through  *)
(* the same client at the same time (Bot.snapshot holds no lock).           *)
(***************************************************************************)
EXTENDS Naturals, FiniteSets

CONSTANTS
  GetTries,     \* max_get_retries
  Lookups,      \* resolve_attempts
  MaxQueries,   \* queries of the account
  MaxHeavy,     \* times the weight of the minute is used up
  MaxFaults     \* lost, failed, refused requests and clock jumps

ASSUME RestCallAssumption ==
  /\ GetTries \in Nat \ {0} /\ Lookups \in Nat \ {0}
  /\ {MaxQueries, MaxHeavy, MaxFaults} \subseteq Nat

Callers == {"order", "account"}
Kinds == {"none", "open", "protect", "lookup", "account"}
Mutating == {"open", "protect"}

\* What a request comes back with: an answer, or the error that is raised.
Errors == {"blocked", "timestamp", "rejected", "limited", "notsent", "lost", "server"}
Results == {"none", "ok", "found", "missing"} \cup Errors

VARIABLES
  call,      \* the request of each caller
  heavy,     \* used_weight_1m is at the limit
  ahead,     \* the clock and time_offset_ms disagree with the exchange
  config,    \* conditions 1-5 of the gate: settings and host
  report,    \* condition 6: the validation gate
  checked,   \* history: what the validation gate said to the order
  row,       \* status of the order in the database
  looks, nf, le,   \* resolve: queries left, answers "no such order", an error
  executed,  \* times the exchange took the order
  flight,    \* a copy of the order is still under way
  late,      \* history: it arrived when the exchange had said that there is none
  asked, heavies, faults, jumps

callVars == <<call, heavy, ahead>>
gateVars == <<config, report, checked>>
rowVars  == <<row, looks, nf, le>>
bookVars == <<executed, flight, late>>
restLuck == <<asked, heavies, faults, jumps>>
restVars == <<callVars, gateVars, rowVars, bookVars, restLuck>>

NoCall == [kind |-> "none", pc |-> "idle", stale |-> FALSE, att |-> 0, tries |-> 0, got |-> "none"]

RestTypeOK ==
  /\ call \in [Callers -> [kind : Kinds, pc : {"idle", "throttle", "wire", "sync", "done"},
                           stale : BOOLEAN, att : 0..1, tries : 0..GetTries - 1, got : Results]]
  /\ {heavy, ahead, config, report, checked, le, flight, late} \subseteq BOOLEAN
  /\ row \in {"OFF", "NONE", "PENDING_SUBMIT", "UNKNOWN", "NEW", "REJECTED", "NOT_PLACED"}
  /\ looks \in 0..Lookups /\ nf \in 0..2 /\ executed \in 0..MaxFaults + 1
  /\ asked \in 0..MaxQueries /\ heavies \in 0..MaxHeavy
  /\ faults \in 0..MaxFaults /\ jumps \in 0..MaxFaults

RestInit(on) ==
  /\ call = [c \in Callers |-> NoCall] /\ heavy = FALSE /\ ahead = FALSE
  /\ config \in (IF on THEN BOOLEAN ELSE {FALSE}) /\ report = config /\ checked = FALSE
  /\ row = (IF on THEN "NONE" ELSE "OFF") /\ looks = 0 /\ nf = 0 /\ le = FALSE
  /\ executed = 0 /\ flight = FALSE /\ late = FALSE
  /\ asked = 0 /\ heavies = 0 /\ faults = 0 /\ jumps = 0

Fault == faults < MaxFaults /\ faults' = faults + 1

----------------------------------------------------------------------------
(* The world.                                                               *)

\* The report gets too old.
ReportExpires ==
  /\ report /\ report' = FALSE
  /\ UNCHANGED <<callVars, config, checked, rowVars, bookVars, restLuck>>

\* The local clock jumps.
ClockJumps ==
  /\ config /\ ~ahead /\ Fault /\ ahead' = TRUE /\ jumps' = jumps + 1
  /\ UNCHANGED <<call, heavy, gateVars, rowVars, bookVars, asked, heavies>>

\* The exchange gets to the copy that was under way.
Arrives ==
  /\ flight /\ flight' = FALSE
  /\ executed' = executed + 1
  /\ late' = (late \/ nf > 0 \/ call["order"].got = "missing")
  /\ UNCHANGED <<callVars, gateVars, rowVars, restLuck>>

----------------------------------------------------------------------------
(* BinanceRestClient.signed                                                 *)

\* The query string is signed with the time of now.
Signed(k, att) == [NoCall EXCEPT !.kind = k, !.pc = "throttle", !.stale = ahead, !.att = att]

\* _throttle, at the head of every _send: the request that waits for the next
\* minute keeps the signature and the timestamp it has.
Throttle(c) ==
  /\ call[c].pc = "throttle"
  /\ call' = [call EXCEPT ![c].pc = "wire", ![c].stale = @ \/ heavy]
  /\ heavy' = FALSE
  /\ UNCHANGED <<ahead, gateVars, rowVars, bookVars, restLuck>>

Done(c, res) == [call EXCEPT ![c] = [NoCall EXCEPT !.kind = call[c].kind, !.pc = "done", !.got = res]]

\* Only queries are sent again after a failure.
Retried(c) == call[c].kind \notin Mutating /\ call[c].tries + 1 < GetTries

Resyncs(c) == call[c].att = 0

\* What signed() and _with_get_retries make of the result of one request.  The
\* retry has the same url; it may be too old by then.
Settles(c, res) ==
  \/ res \in {"ok", "found", "missing", "rejected", "limited"} /\ call' = Done(c, res)
  \/ /\ res \in {"notsent", "lost", "server"} /\ Retried(c)
     /\ \E old \in BOOLEAN :
          call' = [call EXCEPT ![c].pc = "throttle", ![c].tries = @ + 1, ![c].stale = @ \/ old]
  \/ res \in {"notsent", "lost", "server"} /\ ~Retried(c) /\ call' = Done(c, res)
  \/ res = "timestamp" /\ Resyncs(c) /\ call' = [call EXCEPT ![c].pc = "sync"]
  \/ res = "timestamp" /\ ~Resyncs(c) /\ call' = Done(c, res)

\* The header of the answer: the weight of the minute.
Header == \/ UNCHANGED <<heavy, heavies>>
          \/ heavies < MaxHeavy /\ heavies' = heavies + 1 /\ heavy' = TRUE

Wire(c) ==
  /\ call[c].pc = "wire"
  /\ UNCHANGED <<ahead, gateVars, rowVars, late, asked, jumps>>

\* A timestamp out of the window: refused, nothing done.
Refused(c) ==
  /\ Wire(c) /\ call[c].stale
  /\ Settles(c, "timestamp") /\ Header
  /\ UNCHANGED <<executed, flight, faults>>

Answers(c) ==
  /\ Wire(c) /\ ~call[c].stale /\ Header
  /\ \/ /\ call[c].kind \in Mutating
        /\ \/ executed' = executed + 1 /\ Settles(c, "ok") /\ UNCHANGED faults
           \/ Fault /\ UNCHANGED executed /\ Settles(c, "rejected")
     \/ /\ call[c].kind = "account" /\ Settles(c, "ok") /\ UNCHANGED <<executed, faults>>
     \/ /\ call[c].kind = "lookup" /\ UNCHANGED <<executed, faults>>
        /\ Settles(c, IF executed > 0 THEN "found" ELSE "missing")
  /\ UNCHANGED flight

\* No connection, or 418/429: not done.
NotDone(c) ==
  /\ Wire(c) /\ Fault
  /\ Settles(c, "notsent") \/ Settles(c, "limited")
  /\ UNCHANGED <<heavy, heavies, executed, flight>>

\* A timeout, a broken connection, a 5xx or a code of UNKNOWN_STATE_CODES: done,
\* or not, or still to be done.
Unanswered(c) ==
  /\ Wire(c) /\ ~call[c].stale /\ Fault
  /\ Settles(c, "lost") \/ Settles(c, "server")
  /\ \/ UNCHANGED <<executed, flight>>
     \/ call[c].kind \in Mutating /\ executed' = executed + 1 /\ UNCHANGED flight
     \/ call[c].kind \in Mutating /\ flight' = TRUE /\ UNCHANGED executed
  /\ UNCHANGED <<heavy, heavies>>

Synced == ahead' = FALSE

\* sync_time, and the request is signed again; or the query of the time fails,
\* and its error is that of the call.
Sync(c) ==
  /\ call[c].pc = "sync"
  /\ \/ Synced /\ call' = [call EXCEPT ![c] = [Signed(@.kind, 1) EXCEPT !.stale = ahead']] /\ UNCHANGED faults
     \/ Fault /\ UNCHANGED ahead /\ \E e \in Errors \ {"blocked", "timestamp"} : call' = Done(c, e)
  /\ UNCHANGED <<heavy, gateVars, rowVars, bookVars, asked, heavies, jumps>>

----------------------------------------------------------------------------
(* LiveOrderGate.check, ExecutionContext.submit and resolve                 *)

\* reasons(is_risk_increasing(...)): reduceOnly and closePosition do not need
\* the report.
Blocked(k) == ~config \/ (k = "open" /\ ~report)

\* The row is written before anything is sent.
Submit ==
  /\ row = "NONE" /\ row' = "PENDING_SUBMIT"
  /\ \E k \in Mutating :
       call' = [call EXCEPT !["order"] =
                  IF Blocked(k) THEN [NoCall EXCEPT !.kind = k, !.pc = "done", !.got = "blocked"]
                  ELSE Signed(k, 0)]
  /\ checked' = report
  /\ UNCHANGED <<heavy, ahead, config, report, looks, nf, le, bookVars, restLuck>>

\* Mutated form: a broken connection is taken for one never made.
Unknown_Server(e) == e = "server"

\* outcome_unknown
Unknown(e) == e \in {"lost", "server"}

\* How place_order ends for submit.
Placed ==
  LET o == call["order"] IN
  /\ o.pc = "done" /\ o.kind \in Mutating /\ row = "PENDING_SUBMIT"
  /\ \/ o.got = "ok" /\ row' = "NEW" /\ UNCHANGED looks
     \/ o.got = "blocked" /\ row' = "NOT_PLACED" /\ UNCHANGED looks
     \/ Unknown(o.got) /\ row' = "UNKNOWN" /\ looks' = Lookups
     \/ ~Unknown(o.got) /\ o.got \notin {"ok", "blocked"} /\ row' = "REJECTED" /\ UNCHANGED looks
  /\ UNCHANGED <<callVars, gateVars, nf, le, bookVars, restLuck>>

Look ==
  /\ row = "UNKNOWN" /\ call["order"].pc = "done" /\ looks > 0
  /\ call["order"].kind \in Mutating
  /\ call' = [call EXCEPT !["order"] = Signed("lookup", 0)]
  /\ UNCHANGED <<heavy, ahead, gateVars, rowVars, bookVars, restLuck>>

LooksLeft(o) == looks - 1

\* "No such order" twice, or once and never an error.
Absent(n, e) == n >= 2 \/ (n >= 1 /\ ~e)

\* A query of resolve: the order is there; or it is asked again; or the queries
\* are used up, and the order was not there or nothing is known.
Looked ==
  LET o == call["order"] IN
  /\ row = "UNKNOWN" /\ o.kind = "lookup" /\ o.pc = "done"
  /\ looks' = LooksLeft(o)
  /\ nf' = (IF o.got = "missing" /\ nf < 2 THEN nf + 1 ELSE nf)
  /\ le' = (le \/ o.got \in Errors)
  /\ \/ o.got = "found" /\ row' = "NEW" /\ UNCHANGED call
     \/ /\ o.got # "found" /\ looks' > 0 /\ UNCHANGED row
        /\ call' = [call EXCEPT !["order"] = Signed("lookup", 0)]
     \/ /\ o.got # "found" /\ looks' = 0
        /\ row' = (IF Absent(nf', le') THEN "NOT_PLACED" ELSE row)
        /\ UNCHANGED call
  /\ UNCHANGED <<heavy, ahead, gateVars, bookVars, restLuck>>

AskAccount ==
  /\ row \notin {"OFF", "NONE"} /\ call["account"].pc \in {"idle", "done"} /\ asked < MaxQueries
  /\ asked' = asked + 1
  /\ call' = [call EXCEPT !["account"] = Signed("account", 0)]
  /\ UNCHANGED <<heavy, ahead, gateVars, rowVars, bookVars, heavies, faults, jumps>>

----------------------------------------------------------------------------
RestSteps(c) ==
  Throttle(c) \/ Refused(c) \/ Answers(c) \/ NotDone(c) \/ Unanswered(c) \/ Sync(c)

RestNext ==
  \/ ReportExpires \/ ClockJumps \/ Arrives
  \/ Submit \/ Placed \/ Look \/ Looked \/ AskAccount
  \/ \E c \in Callers : RestSteps(c)

----------------------------------------------------------------------------
(* Properties.                                                              *)

\* The exchange takes an order once, whatever is sent again.
ExecutedOnce == executed + (IF flight THEN 1 ELSE 0) <= 1

\* A row that says the order is not at the exchange is right, unless the order
\* got there after the exchange had said that it was not.
RowTrue ==
  row \in {"REJECTED", "NOT_PLACED"} /\ ~late => executed = 0 /\ (flight => row = "NOT_PLACED")

\* The gate stops what it must and nothing else: no order without settings, no
\* opening order without a report; a report that expired never stops an order
\* that protects a position.
GateRight ==
  LET o == call["order"] IN
  /\ executed > 0 => config
  /\ o.kind = "open" /\ executed > 0 => checked
  /\ o.kind = "protect" /\ o.got = "blocked" => ~config

\* An order is given up for its timestamp only if the clock jumped again or the
\* limit was met twice on its way.
ResyncHeals ==
  call["order"].kind \in Mutating /\ call["order"].got = "timestamp" => jumps > 1 \/ heavies > 1 - jumps

\* What becomes of an order, whatever is lost, refused, delayed or sent again on
\* its way: executed once, reported as it is, let through or stopped by the gate,
\* and not given up for a clock that can be set.
OrderRight == RestTypeOK /\ ExecutedOnce /\ RowTrue /\ GateRight /\ ResyncHeals
=============================================================================
