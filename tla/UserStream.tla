----------------------------- MODULE UserStream -----------------------------
(***************************************************************************)
(* The user data stream of the COIN-M bot (exchange/websocket.py): the      *)
(* connection loop of ResilientStream, the listen key and its keepalive     *)
(* task, the filter of duplicates, the queue of the engine and its pump.    *)
(*                                                                         *)
(* The account makes events 1, 2, ...  What the engine knows of them comes  *)
(* through the socket, or from the REST reconciliation that follows every   *)
(* (re)connection and that runs every five minutes.  Three tasks interleave *)
(* at their awaits: the stream, the keepalive and the pump.                 *)
(***************************************************************************)
EXTENDS Naturals, Sequences, SequencesExt

CONSTANTS
  MaxEvents,   \* events of the account
  MaxKeys,     \* listen keys the exchange ever gives
  MaxSeen,     \* maxlen of the EventDeduper
  MaxDup,      \* messages delivered twice
  MaxWrong   \* failed requests and connections, closed sockets, lost notices

ASSUME UserStreamAssumption ==
  /\ MaxEvents \in Nat /\ MaxKeys \in Nat \ {0} /\ MaxSeen \in Nat \ {0}
  /\ MaxDup \in Nat /\ MaxWrong \in Nat

Events == 1..MaxEvents
Expired == 0                  \* the message listenKeyExpired
Keys == 0..MaxKeys            \* 0: no key

VARIABLES
  srv,     \* exchange: the listen key that is alive
  gen,     \* exchange: keys given so far
  made,    \* exchange: events of the account so far
  sock,    \* exchange: the key the open socket was opened with
  wire,    \* messages on the way through that socket
  st,      \* where the stream loop waits
  url,     \* the key in the url of the connection
  req,     \* _reconnect_requested
  synced,  \* the reconciliation of this connection went through
  key,     \* ListenKeyManager.key
  due,     \* half an hour has passed since last_keepalive
  ka,      \* the keepalive task: "sleep", or "put" while its PUT is out
  ring,    \* EventDeduper: the last messages
  q,       \* Engine.user_q
  evt,     \* Bot._evt
  pump,    \* the event pump: "wait" or "drain"
  known,   \* events whose effect the engine has
  log,     \* history: events put in the queue
  raced,   \* history: the key was found dead while a connection was made with it
  dups, wrong

account  == <<srv, gen, made, sock, wire>>
stream   == <<st, url, req, synced>>
keeper   == <<key, due, ka>>
inbox    == <<ring, q, evt, pump, known, log>>
luck     == <<dups, wrong>>
streamVars == <<account, stream, keeper, inbox, raced, luck>>

Wrong == wrong < MaxWrong /\ wrong' = wrong + 1

StreamTypeOK ==
  /\ srv \in Keys /\ gen \in Keys /\ made \in 0..MaxEvents /\ sock \in Keys
  /\ wire \in Seq(Events \cup {Expired})
  /\ st \in {"off", "ensure", "connect", "hello", "open", "leave", "wait"}
  /\ url \in Keys /\ req \in BOOLEAN /\ synced \in BOOLEAN
  /\ key \in Keys /\ due \in BOOLEAN /\ ka \in {"sleep", "put"}
  /\ ring \in Seq(Events) /\ Len(ring) <= MaxSeen
  /\ q \in Seq(Events) /\ evt \in BOOLEAN /\ pump \in {"wait", "drain"}
  /\ known \subseteq Events /\ log \in Seq(Events)
  /\ raced \in BOOLEAN /\ dups \in 0..MaxDup /\ wrong \in 0..MaxWrong

\* Bot.run starts the stream, but not for the simulated exchange.
StreamInit(on) ==
  /\ srv = 0 /\ gen = 0 /\ made = 0 /\ sock = 0 /\ wire = <<>>
  /\ st = (IF on THEN "ensure" ELSE "off") /\ url = 0 /\ req = FALSE /\ synced = FALSE
  /\ key = 0 /\ due = FALSE /\ ka = "sleep"
  /\ ring = <<>> /\ q = <<>> /\ evt = FALSE /\ pump = "wait"
  /\ known = {} /\ log = <<>> /\ raced = FALSE /\ dups = 0 /\ wrong = 0

----------------------------------------------------------------------------
(* The exchange.  It accepts a connection under any key; only a socket of   *)
(* the live key carries events.                                            *)

Served == sock # 0 /\ sock = srv

AccountEvent ==
  /\ st # "off" /\ made < MaxEvents /\ made' = made + 1
  /\ wire' = IF Served THEN Append(wire, made + 1) ELSE wire
  /\ UNCHANGED <<srv, gen, sock, stream, keeper, inbox, raced, luck>>

Redeliver ==
  /\ Served /\ made > 0 /\ dups < MaxDup /\ dups' = dups + 1
  /\ \E e \in 1..made : wire' = Append(wire, e)
  /\ UNCHANGED <<srv, gen, made, sock, stream, keeper, inbox, raced, wrong>>

\* A key dies when it is not prolonged in an hour, or is deleted; the notice
\* goes to the socket opened with it, and may be lost.
KeyDies ==
  /\ srv # 0 /\ gen < MaxKeys /\ srv' = 0
  /\ \/ Served /\ wire' = Append(wire, Expired) /\ UNCHANGED wrong
     \/ ~Served /\ UNCHANGED <<wire, wrong>>
     \/ Served /\ Wrong /\ UNCHANGED wire
  /\ UNCHANGED <<gen, made, sock, stream, keeper, inbox, raced, dups>>

SocketDies ==
  /\ sock # 0 /\ Wrong
  /\ sock' = 0 /\ wire' = <<>>
  /\ UNCHANGED <<srv, gen, made, stream, keeper, inbox, raced, dups>>

----------------------------------------------------------------------------
(* ResilientStream.run with the url_provider of UserDataStream.             *)

\* ensure() with a key in memory does not wait: the connection starts at once.
UseKey ==
  /\ st = "ensure" /\ key # 0
  /\ url' = key /\ st' = "connect"
  /\ UNCHANGED <<account, req, synced, keeper, inbox, raced, luck>>

\* The POST: the exchange prolongs its live key or makes a new one.
CreateKey ==
  /\ st = "ensure" /\ key = 0
  /\ srv # 0 \/ gen < MaxKeys
  /\ srv' = IF srv # 0 THEN srv ELSE gen + 1
  /\ gen' = IF srv # 0 THEN gen ELSE gen + 1
  /\ key' = srv' /\ due' = FALSE
  /\ url' = srv' /\ st' = "connect"
  /\ UNCHANGED <<made, sock, wire, req, synced, ka, inbox, raced, luck>>

ConnectFails ==
  /\ st \in {"ensure", "connect"} /\ Wrong
  /\ st' = "wait"
  /\ UNCHANGED <<account, url, req, synced, keeper, inbox, raced, dups>>

\* connect() returns.  A request to reconnect made meanwhile is forgotten.
Connected ==
  /\ st = "connect"
  /\ sock' = url /\ wire' = <<>>
  /\ req' = FALSE /\ synced' = FALSE /\ st' = "hello"
  /\ UNCHANGED <<srv, gen, made, url, keeper, inbox, raced, luck>>

\* Mutated form: what happened before the first connection is not asked for.
Greeted_First == known' = IF gen = 1 THEN known ELSE known \cup 1..made

\* on_connected: the REST reconciliation drains the queue and learns all that
\* has happened; its failure is only logged.
Greeted == known' = known \cup 1..made

Hello ==
  /\ st = "hello" /\ st' = "open"
  /\ \/ Greeted /\ q' = <<>> /\ synced' = TRUE /\ UNCHANGED wrong
     \/ Wrong /\ UNCHANGED <<q, known, synced>>
  /\ UNCHANGED <<account, url, req, keeper, ring, evt, pump, log, raced, dups>>

\* EventDeduper.seen, for a message not in the set.
Remember(e) == IF Len(ring) + 1 > MaxSeen THEN Tail(Append(ring, e)) ELSE Append(ring, e)

\* Bot._sink
Sink(e) == q' = Append(q, e) /\ log' = Append(log, e) /\ evt' = TRUE

\* UserDataStream._handle, one message of the socket; then the loop looks for a
\* request to reconnect.
Receive ==
  /\ st = "open" /\ sock # 0 /\ wire # <<>>
  /\ wire' = Tail(wire)
  /\ \/ /\ Head(wire) = Expired
        /\ key' = 0 /\ req' = TRUE
        /\ UNCHANGED <<ring, q, evt, log>>
     \/ /\ Head(wire) \in ToSet(ring)
        /\ UNCHANGED <<key, req, ring, q, evt, log>>
     \/ /\ Head(wire) \notin ToSet(ring) \cup {Expired}
        /\ ring' = Remember(Head(wire)) /\ Sink(Head(wire))
        /\ UNCHANGED <<key, req>>
  /\ st' = IF req' THEN "leave" ELSE "open"
  /\ UNCHANGED <<srv, gen, made, sock, url, synced, due, ka, pump, known, raced, luck>>

Leave(next) ==
  /\ st' = next /\ sock' = 0 /\ wire' = <<>>
  /\ UNCHANGED <<srv, gen, made, url, req, synced, keeper, inbox, raced, luck>>

\* The loop sees the request at its next turn, five seconds later at most, and
\* reconnects without a pause; so it does when the connection is 23 hours old.
Requested == (st = "leave" \/ (st = "open" /\ req)) /\ Leave("ensure")
Rotate    == st = "open" /\ ~req /\ Leave("ensure")
Broken    == st = "open" /\ sock = 0 /\ Leave("wait")

Wake ==
  /\ st = "wait" /\ st' = "ensure"
  /\ UNCHANGED <<account, url, req, synced, keeper, inbox, raced, luck>>

----------------------------------------------------------------------------
(* keepalive_loop, once a minute.                                           *)

HalfHour ==
  /\ key # 0 /\ ~due /\ due' = TRUE
  /\ UNCHANGED <<account, stream, key, ka, inbox, raced, luck>>

KeepAlive ==
  /\ ka = "sleep" /\ key # 0 /\ due
  /\ ka' = "put"
  /\ UNCHANGED <<account, stream, key, due, inbox, raced, luck>>

KeptAlive ==
  /\ ka = "put" /\ srv # 0
  /\ ka' = "sleep" /\ due' = FALSE
  /\ UNCHANGED <<account, stream, key, inbox, raced, luck>>

\* Mutated form: the answer is taken for a passing error.
Gone_Ignored == UNCHANGED <<key, req>>

\* invalidate() and request_reconnect().
Gone == key' = 0 /\ req' = TRUE

\* The PUT is answered: there is no such key.
KeyGone ==
  /\ ka = "put" /\ srv = 0
  /\ ka' = "sleep" /\ Gone
  /\ raced' = (raced \/ st = "connect")
  /\ UNCHANGED <<account, st, url, synced, due, inbox, luck>>

\* Any other error: again in a minute.
PutFails ==
  /\ ka = "put" /\ Wrong
  /\ ka' = "sleep"
  /\ UNCHANGED <<account, stream, key, due, inbox, raced, dups>>

----------------------------------------------------------------------------
(* Bot._event_pump and the periodic reconciliation.                         *)

PumpWakes ==
  /\ pump = "wait" /\ evt
  /\ evt' = FALSE /\ pump' = "drain"
  /\ UNCHANGED <<account, stream, keeper, ring, q, known, log, raced, luck>>

\* Engine.drain_user_events: one event after the other, with awaits.
Drain ==
  /\ pump = "drain"
  /\ \/ q = <<>> /\ pump' = "wait" /\ UNCHANGED <<q, known>>
     \/ q # <<>> /\ known' = known \cup {Head(q)} /\ q' = Tail(q) /\ UNCHANGED pump
  /\ UNCHANGED <<account, stream, keeper, ring, evt, log, raced, luck>>

Periodic ==
  /\ known # 1..made \/ q # <<>>
  /\ known' = known \cup 1..made /\ q' = <<>>
  /\ UNCHANGED <<account, stream, keeper, ring, evt, pump, log, raced, luck>>

----------------------------------------------------------------------------
Loop == UseKey \/ CreateKey \/ Connected \/ Hello \/ Receive \/ Requested \/ Broken \/ Wake

StreamNext ==
  \/ AccountEvent \/ Redeliver \/ KeyDies \/ SocketDies
  \/ Loop \/ ConnectFails \/ Rotate
  \/ HalfHour \/ KeepAlive \/ KeptAlive \/ KeyGone \/ PutFails
  \/ PumpWakes \/ Drain \/ Periodic

StreamSpec == StreamInit(TRUE) /\ [][StreamNext]_streamVars

\* Each task of the loop is run again and again; time passes.  Nothing is
\* asked of Rotate (23 hours) and of Periodic (five minutes), so that what is
\* shown does not rest on them.
StreamFairness ==
  /\ WF_streamVars(Loop) /\ WF_streamVars(HalfHour) /\ WF_streamVars(KeepAlive)
  /\ WF_streamVars(KeptAlive) /\ WF_streamVars(KeyGone)
  /\ WF_streamVars(PumpWakes) /\ WF_streamVars(Drain)


----------------------------------------------------------------------------
(* Properties.                                                              *)

\* Once the reconciliation of a connection under the live key went through, no
\* event of the account is missed: it is known, queued or on the way, also one
\* made while the socket was down or between the connect and the query.
NothingMissed ==
  st = "open" /\ synced /\ Served
    => 1..made \subseteq known \cup ToSet(q) \cup ToSet(wire)

\* An event is handed to the engine twice only after as many others as the
\* filter holds.
HandedOnce == \A i, j \in 1..Len(log) : i < j /\ log[i] = log[j] => j - i > MaxSeen

\* Every event of the account reaches the engine, and no more than once as far
\* as the filter of duplicates remembers.
ExactlyOnce == StreamTypeOK /\ NothingMissed /\ HandedOnce

\* What is queued gets handled: no wake-up of the pump is lost.
QueueDrained == q # <<>> ~> q = <<>>

\* A connection under a dead key is given up, by the notice or, if that was
\* lost, by the answer to the keepalive, unless the answer came while the
\* connection was being made.
DeadKeyNoticed ==
  st = "open" /\ url # srv ~> st # "open" \/ url = srv \/ raced

\* Neither a wake-up nor a connection is lost for ever.
StreamRecovers == QueueDrained /\ DeadKeyNoticed

(* What a comment of the code says and the code does not do.                *)

\* websocket.py:14-15: when the key cannot be prolonged a new one is made and
\* the stream connects again.
DeadKeyReplaced == st = "open" /\ key = 0 => req
=============================================================================
