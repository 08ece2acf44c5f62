------------------------------ MODULE Watchdog ------------------------------
(***************************************************************************)
(* deploy/watchdog.py: a job of the system that looks at the bot from       *)
(* outside every few minutes, tells of what is wrong, at most once in half  *)
(* an hour for each check, and once that all is well again.  What it has    *)
(* told is kept in a file from run to run.                                  *)
(***************************************************************************)
EXTENDS Naturals

CONSTANTS
  Checks,      \* service, disk, restarts, heartbeat
  Quiet,       \* ALERT_COOLDOWN, in runs of the job
  MaxMute,     \* messages that are not delivered
  MaxLosses    \* times the file is lost

ASSUME WatchdogAssumption == Quiet \in Nat \ {0} /\ {MaxMute, MaxLosses} \subseteq Nat

VARIABLES
  dogs,        \* the job is set up
  bad,         \* checks that find something wrong
  stamps,      \* the file: age of the last alert of each check
  heard,       \* history: what the operator believes to be wrong
  gap,         \* history: runs since the last alert of each check that came through
  turn,        \* the job looks next
  mute, losses

dogVars == <<dogs, bad, stamps, heard, gap, turn, mute, losses>>

Never == Quiet + 1

WatchdogInit(on) ==
  /\ dogs = on /\ bad = {} /\ heard = {} /\ turn = FALSE
  /\ stamps = [c \in Checks |-> Never] /\ gap = [c \in Checks |-> Quiet]
  /\ mute = 0 /\ losses = 0

----------------------------------------------------------------------------
\* The time until the next run passes, and things break or heal.
World ==
  /\ dogs /\ ~turn /\ turn' = TRUE
  /\ bad' \in SUBSET Checks
  /\ stamps' = [c \in Checks |-> IF stamps[c] < Quiet THEN stamps[c] + 1 ELSE stamps[c]]
  /\ gap' = [c \in Checks |-> IF gap[c] < Quiet THEN gap[c] + 1 ELSE Quiet]
  /\ UNCHANGED <<dogs, heard, mute, losses>>

\* Told of not long ago.
Silent(c) == stamps[c] < Quiet

\* Mutated form: stamped whether or not the message went out.
Stamped_All(c, sent) == TRUE

\* An alert that did not go out is tried again by the next run.
Stamped(c, sent) == c \in sent

\* Something is wrong: one message for each check that is not silent.
Alerts ==
  LET due == {c \in bad : ~Silent(c)} IN
  /\ dogs /\ turn /\ turn' = FALSE /\ bad # {}
  /\ \E sent \in SUBSET due :
       /\ sent = due \/ mute < MaxMute
       /\ mute' = IF sent = due THEN mute ELSE mute + 1
       /\ stamps' = [c \in Checks |-> IF c \in due /\ Stamped(c, sent) THEN 0 ELSE stamps[c]]
       /\ heard' = heard \cup sent
       /\ gap' = [c \in Checks |-> IF c \in sent THEN 0 ELSE gap[c]]
  /\ UNCHANGED <<dogs, bad, losses>>

AnyTold == \E c \in Checks : stamps[c] # Never

\* All is well: told if something was told of, and forgotten even if that
\* message did not go out.
AllClear ==
  /\ dogs /\ turn /\ turn' = FALSE /\ bad = {}
  /\ IF ~AnyTold
     THEN UNCHANGED <<stamps, heard, gap, mute>>
     ELSE /\ stamps' = [c \in Checks |-> Never] /\ gap' = [c \in Checks |-> Quiet]
          /\ \/ heard' = {} /\ UNCHANGED mute
             \/ mute < MaxMute /\ mute' = mute + 1 /\ UNCHANGED heard
  /\ UNCHANGED <<dogs, bad, losses>>

\* load_state: a file that cannot be read is an empty one.
StateLost ==
  /\ dogs /\ losses < MaxLosses /\ losses' = losses + 1
  /\ stamps' = [c \in Checks |-> Never]
  /\ UNCHANGED <<dogs, bad, heard, gap, turn, mute>>

WatchdogNext == World \/ Alerts \/ AllClear \/ StateLost

----------------------------------------------------------------------------
(* Properties.                                                              *)

\* A run all of whose messages come through leaves nothing wrong that the operator
\* does not know of: neither a lost message nor the quiet time of an earlier alert
\* holds it back any longer (watchdog.py:221-229).
WrongTold == [][ turn /\ ~turn' /\ mute' = mute => bad \subseteq heard' ]_dogVars

\* No check is told of twice within the quiet time, unless all was well in
\* between or the file was lost.
NoSpam ==
  [][ losses = 0 /\ turn /\ ~turn' => \A c \in Checks : gap'[c] = 0 => gap[c] >= Quiet ]_dogVars

\* A run that finds all well leaves the operator believing so, unless a message
\* or the file was lost.
ClearTold ==
  [][ turn /\ ~turn' /\ bad = {} /\ mute' + losses' = 0 => heard' = {} ]_dogVars

\* What the operator believes is what is the case, without being told for ever.
AlertsRight == WrongTold /\ NoSpam /\ ClearTold
=============================================================================
