---------------------------- MODULE Counterstrike ----------------------------
(***************************************************************************)
(* POST ops/counterstrike/run: the check that no script is running, the    *)
(* two attempts to start one, and the wait until it is seen. The script is *)
(* external: at some time after its start it writes a file that says it is *)
(* running, and it removes the file when it ends.                          *)
(***************************************************************************)
EXTENDS Integers, FiniteSets

CONSTANTS
  Requests,
  NoRequest,
  Polls        \* RUNNING_POLL_ATTEMPTS

ASSUME StrikeAssumption == NoRequest \notin Requests /\ Polls \in Nat

VARIABLES
  file,     \* counterstrike-running.json: whose script wrote it
  script,   \* the script of each request's attempt
  request,
  blind     \* history: a check missed a script that ran or was being started

strikeVars == <<file, script, request, blind>>

ScriptStates == {"none", "silent", "announced"}
IdleRequest  == [pc |-> "idle", attempt |-> 0, polls |-> 0]

StrikeTypeOK ==
  /\ file \in Requests \cup {NoRequest}
  /\ script \in [Requests -> ScriptStates]
  /\ request \in [Requests -> [pc : {"idle", "spawn", "grace", "poll"}, attempt : 0..2, polls : 0..Polls]]
  /\ blind \in BOOLEAN

StrikeInit ==
  /\ file = NoRequest
  /\ script = [q \in Requests |-> "none"]
  /\ request = [q \in Requests |-> IdleRequest]
  /\ blind = FALSE

Goto(q, pc) == request' = [request EXCEPT ![q].pc = pc]
Answer(q)   == request' = [request EXCEPT ![q] = IdleRequest]

Alive(q) == script[q] # "none"

(* A script is there, or about to be, that the check cannot see.            *)
Unseen == \E q \in Requests : script[q] = "silent" \/ request[q].pc = "spawn"

(* Mutant: the check is left out.                                           *)
StartUnchecked(q) ==
  /\ request[q].pc = "idle" /\ ~Alive(q)
  /\ request' = [request EXCEPT ![q] = [pc |-> "spawn", attempt |-> 1, polls |-> Polls]]
  /\ blind' = (blind \/ Unseen)
  /\ UNCHANGED <<file, script>>

(* One script per request is told apart: a request is made anew when the    *)
(* script of the one before has ended.                                      *)
CheckRunning(q) ==
  /\ request[q].pc = "idle" /\ ~Alive(q)
  /\ file = NoRequest
  /\ request' = [request EXCEPT ![q] = [pc |-> "spawn", attempt |-> 1, polls |-> Polls]]
  /\ blind' = (blind \/ Unseen)
  /\ UNCHANGED <<file, script>>

NextAttempt(q) ==
  IF request[q].attempt = 1 THEN [request EXCEPT ![q].pc = "spawn", ![q].attempt = 2]
  ELSE [request EXCEPT ![q] = IdleRequest]

(* The command is started, or cannot be.                                    *)
Spawn(q) ==
  /\ request[q].pc = "spawn"
  /\ \/ script' = [script EXCEPT ![q] = "silent"] /\ Goto(q, "grace")
     \/ request' = NextAttempt(q) /\ UNCHANGED script
  /\ UNCHANGED <<file, blind>>

(* Still there when the grace period is over.                               *)
GraceOver(q) ==
  /\ request[q].pc = "grace" /\ Goto(q, "poll")
  /\ UNCHANGED <<file, script, blind>>

Poll(q) ==
  /\ request[q].pc = "poll"
  /\ IF file # NoRequest \/ request[q].polls = 0 THEN Answer(q)
     ELSE request' = [request EXCEPT ![q].polls = @ - 1]
  /\ UNCHANGED <<file, script, blind>>

Announce(q) ==
  /\ script[q] = "silent"
  /\ script' = [script EXCEPT ![q] = "announced"] /\ file' = q
  /\ UNCHANGED <<request, blind>>

(* Within the grace period a bad exit code leads to the next attempt.       *)
Exit(q) ==
  /\ Alive(q)
  /\ script' = [script EXCEPT ![q] = "none"]
  /\ file' = IF script[q] = "announced" THEN NoRequest ELSE file
  /\ IF request[q].pc = "grace" THEN request' = NextAttempt(q) \/ Goto(q, "poll")
     ELSE UNCHANGED request
  /\ UNCHANGED blind

StrikeNext ==
  \E q \in Requests :
    CheckRunning(q) \/ Spawn(q) \/ GraceOver(q) \/ Poll(q) \/ Announce(q) \/ Exit(q)

StrikeSpec == StrikeInit /\ [][StrikeNext]_strikeVars

(* counterstrike/run/route.ts:160, "Counterstrike is already running":      *)
(* unless a script was started, or about to be, when another request        *)
(* looked and could not see it, no two scripts run at once.                 *)
OneScript == Cardinality({q \in Requests : Alive(q)}) > 1 => blind
=============================================================================
