---------------------------- MODULE QueueService ----------------------------
(***************************************************************************)
(* Who works the remediation queue: the worker process                     *)
(* (scripts/ops-worker.mjs), which asks the server for a drain, sleeps and *)
(* asks again; and the operators' calls that drain, replay dead letters,   *)
(* or do both (ops/remediate-hygiene). The queue itself is RunLease, the   *)
(* specification that RemediationQueue implements. The server may fail, in *)
(* one call or altogether, and comes back.                                 *)
(***************************************************************************)
EXTENDS Integers, FiniteSets, FiniteSetsExt

CONSTANTS
  Runs, Waiting, MaxAttempts, Nobody,   \* as in RunLease
  Worker, Operators,
  Interval, IdleInterval, MaxBackoff,   \* the pauses of the worker
  DrainLimit,                           \* runs of a drain call
  DrainCap, ReplayCap,                  \* the caps of a hygiene pass (30 and 15)
  MaxFails,                             \* bound: failures in a row that are counted
  PowerOf2,                             \* 2^n for every such number n
  MaxCalls                              \* bound: calls, admissions and failures

(* The routes clamp their limits to 1..50 (clampInt).                       *)
ASSUME ServiceAssumption ==
  /\ IsFiniteSet(Runs) /\ MaxAttempts \in Nat /\ MaxCalls \in Nat
  /\ Worker \notin Operators /\ Nobody \notin Runs \cup Operators \cup {Worker}
  /\ {DrainLimit, DrainCap, ReplayCap} \subseteq Nat \ {0}
ASSUME PausesAssumption ==
  /\ Interval \in Nat \ {0} /\ IdleInterval \in Nat \ {0}
  /\ MaxBackoff \in Nat /\ MaxBackoff >= Interval
ASSUME PowerAssumption ==
  /\ MaxFails \in Nat \ {0}
  /\ PowerOf2 \in [0..MaxFails -> Nat] /\ PowerOf2[0] = 1
  /\ \A n \in 1..MaxFails : PowerOf2[n] = 2 * PowerOf2[n - 1]
(* Once the pause is at its longest, more failures need not be counted.     *)
ASSUME MaxFailsAssumption == Interval * PowerOf2[MaxFails - 1] >= MaxBackoff

VARIABLES
  state, holder, tried,   \* the queue
  backingOff,             \* queued runs that are not ready
  up,                     \* the server answers
  pass,                   \* the call of each caller
  worker,
  fails,                  \* history: failures since the last success
  calls

Callers == {Worker} \cup Operators

Queue == INSTANCE RunLease WITH Workers <- Callers

queueVars   == <<state, holder, tried>>
serviceVars == <<queueVars, backingOff, up, pass, worker, fails, calls>>

Stages == {"idle", "drain", "list", "replay", "redrain", "answered", "failed"}

(* left: runs the drain may still take; before: dead letters the snapshot   *)
(* showed; made: history, the runs this pass has created.                   *)
IdlePass == [at |-> "idle", hygiene |-> FALSE, left |-> 0, done |-> 0, run |-> Nobody, ran |-> FALSE,
             todo |-> {}, before |-> 0, replayed |-> 0, made |-> {}]

ServiceTypeOK ==
  /\ state \in [Runs -> {"absent", "queued", "running", "succeeded", "failed", "canceled"}]
  /\ holder \in [Runs -> Callers \cup {Nobody}] /\ tried \in [Runs -> 0..MaxAttempts]
  /\ backingOff \subseteq {r \in Runs : state[r] = "queued"}
  /\ up \in BOOLEAN /\ calls \in 0..MaxCalls /\ fails \in 0..MaxFails
  /\ worker \in [pc : {"asleep", "waits"}, pause : Nat, backoff : Interval..MaxBackoff]
  /\ \A c \in Callers :
       /\ pass[c].at \in Stages /\ pass[c].left \in Nat /\ pass[c].done \in Nat
       /\ pass[c].run # Nobody => holder[pass[c].run] = c
       /\ pass[c].todo \cup pass[c].made \subseteq Runs

ServiceInit ==
  /\ Queue!Init
  /\ backingOff = {} /\ up = TRUE /\ calls = 0 /\ fails = 0
  /\ pass = [c \in Callers |-> IdlePass]
  /\ worker = [pc |-> "asleep", pause |-> 0, backoff |-> Interval]

Spend == calls < MaxCalls /\ calls' = calls + 1

InState(s) == {r \in Runs : state[r] = s}

(* The new run r; those that it closes.                                     *)
CreateRun(r, closed) ==
  /\ Queue!Submit(r)
  /\ \A s \in Runs \ {r} : state'[s] = IF s \in closed THEN "canceled" ELSE state[s]

-----------------------------------------------------------------------------
(* Drains, in whatever call                                                 *)

Draining(c) == pass[c].at \in {"drain", "redrain"}
Ready == InState("queued") \ backingOff

ClaimRun(c) ==
  /\ Draining(c) /\ pass[c].run = Nobody /\ pass[c].left > 0
  /\ \E r \in Ready :
       /\ Queue!Take(c, r)
       /\ pass' = [pass EXCEPT ![c].run = r, ![c].left = @ - 1]
  /\ UNCHANGED <<backingOff, up, worker, fails, calls>>

TryRun(c) ==
  /\ Draining(c) /\ pass[c].run # Nobody /\ ~pass[c].ran
  /\ Queue!Try(c, pass[c].run)
  /\ pass' = [pass EXCEPT ![c].ran = TRUE]
  /\ UNCHANGED <<backingOff, up, worker, fails, calls>>

(* A failed attempt is retried while attempts remain.                       *)
SettleRun(c) ==
  /\ Draining(c) /\ pass[c].ran
  /\ LET r == pass[c].run IN
       /\ Queue!Settle(c, r)
       /\ state'[r] = "queued" => tried[r] < MaxAttempts
       /\ backingOff' = IF state'[r] = "queued" THEN backingOff \cup {r} ELSE backingOff
  /\ pass' = [pass EXCEPT ![c].run = Nobody, ![c].ran = FALSE, ![c].done = @ + 1]
  /\ UNCHANGED <<up, worker, fails, calls>>

RetryDue(r) ==
  /\ r \in backingOff
  /\ backingOff' = backingOff \ {r}
  /\ UNCHANGED <<queueVars, up, pass, worker, fails, calls>>

(* The worker has the answer still to read.                                 *)
EndDrain(c) ==
  /\ Draining(c) /\ pass[c].run = Nobody
  /\ pass[c].left = 0 \/ Ready = {}
  /\ pass' = IF pass[c].at = "drain" /\ pass[c].before > 0
             THEN [pass EXCEPT ![c].at = "list"]
             ELSE [pass EXCEPT ![c] =
                     IF c = Worker THEN [@ EXCEPT !.at = "answered"] ELSE IdlePass]
  /\ UNCHANGED <<queueVars, backingOff, up, worker, fails, calls>>

-----------------------------------------------------------------------------
(* The operators' routes                                                    *)

Begin(c, p) ==
  /\ up /\ pass[c].at = "idle" /\ Spend
  /\ pass' = [pass EXCEPT ![c] = p]
  /\ UNCHANGED <<queueVars, backingOff, up, worker, fails>>

PostDrain(o) == Begin(o, [IdlePass EXCEPT !.at = "redrain", !.left = DrainLimit])

PostReplay(o) == Begin(o, [IdlePass EXCEPT !.at = "list", !.before = ReplayCap])

(* One run, named by the operator.                                          *)
PostReplayOne(o) ==
  \E r \in Runs :
    /\ state[r] # "absent"
    /\ Begin(o, [IdlePass EXCEPT !.at = "replay", !.before = 1, !.todo = {r}])

(* Without queued runs the first drain is left out, without dead letters    *)
(* the rest is.                                                             *)
PostHygiene(o) ==
  LET queued == Cardinality(InState("queued"))
      dead   == Cardinality(InState("failed"))
  IN /\ queued > 0 \/ dead > 0
     /\ Begin(o, [IdlePass EXCEPT
          !.at = IF queued > 0 THEN "drain" ELSE "list", !.hygiene = TRUE,
          !.left = Min({queued, DrainCap}), !.before = dead])

BatchSize(c) == Min({pass[c].before, ReplayCap, Cardinality(InState("failed"))})

ListDeadLetters(o) ==
  /\ pass[o].at = "list"
  /\ \E batch \in kSubset(BatchSize(o), InState("failed")) :
       pass' = [pass EXCEPT ![o].at = "replay", ![o].todo = batch]
  /\ UNCHANGED <<queueVars, backingOff, up, worker, fails, calls>>

(* Mutant: the dead letters are looked up again after each replay.          *)
LookUpAgain(o, r) == {s \in Runs : s # r /\ state'[s] = "failed"}
Remaining(o, r) == pass[o].todo \ {r}

(* A replay closes the dead letter it copies; a run that has ended          *)
(* otherwise, by a replay of another call for instance, is copied all the   *)
(* same. It is refused when the run, or another of its action on the host,  *)
(* is queued or running.                                                    *)
ReplayNext(o) ==
  /\ pass[o].at = "replay"
  /\ \E r \in pass[o].todo :
       \/ \E n \in Runs :
            /\ state[r] \in {"succeeded", "failed", "canceled"}
            /\ CreateRun(n, {r} \cap InState("failed"))
            /\ pass' = [pass EXCEPT ![o].todo = Remaining(o, r), ![o].replayed = @ + 1,
                                    ![o].made = @ \cup {n}]
       \/ /\ UNCHANGED queueVars
          /\ pass' = [pass EXCEPT ![o].todo = Remaining(o, r)]
  /\ UNCHANGED <<backingOff, up, worker, fails, calls>>

EndReplay(o) ==
  /\ pass[o].at = "replay" /\ pass[o].todo = {}
  /\ pass' = [pass EXCEPT ![o] =
       IF @.hygiene /\ @.replayed > 0
       THEN [@ EXCEPT !.at = "redrain", !.left = Min({pass[o].replayed, DrainCap})]
       ELSE IdlePass]
  /\ UNCHANGED <<queueVars, backingOff, up, worker, fails, calls>>

PassStep(c) ==
  \/ ClaimRun(c) \/ TryRun(c) \/ SettleRun(c) \/ EndDrain(c)
  \/ ListDeadLetters(c) \/ ReplayNext(c) \/ EndReplay(c)

-----------------------------------------------------------------------------
(* The worker                                                               *)

Failed == [pc |-> "asleep", pause |-> worker.backoff, backoff |-> Min({MaxBackoff, 2 * worker.backoff})]

CountFailure == fails' = Min({fails + 1, MaxFails})

Wake ==
  /\ worker.pc = "asleep" /\ pass[Worker].at = "idle"
  /\ IF up THEN /\ pass' = [pass EXCEPT ![Worker] = [IdlePass EXCEPT !.at = "redrain", !.left = DrainLimit]]
                /\ worker' = [worker EXCEPT !.pc = "waits"]
                /\ UNCHANGED fails
           ELSE worker' = Failed /\ CountFailure /\ UNCHANGED pass
  /\ UNCHANGED <<queueVars, backingOff, up, calls>>

Hangup == pass' = [pass EXCEPT ![Worker] = IdlePass]

(* Mutant: a success does not bring the pause back.                         *)
ReadAnswerKeepingPause ==
  /\ pass[Worker].at = "answered" /\ Hangup
  /\ worker' = [worker EXCEPT !.pc = "asleep",
                  !.pause = IF pass[Worker].done > 0 THEN Interval ELSE IdleInterval]
  /\ fails' = 0
  /\ UNCHANGED <<queueVars, backingOff, up, calls>>

ReadAnswer ==
  /\ pass[Worker].at = "answered" /\ Hangup
  /\ worker' = [pc |-> "asleep", backoff |-> Interval,
                pause |-> IF pass[Worker].done > 0 THEN Interval ELSE IdleInterval]
  /\ fails' = 0
  /\ UNCHANGED <<queueVars, backingOff, up, calls>>

(* Mutant: the worker ends, as it does when it is asked to run once.        *)
ReadErrorAndExit ==
  /\ pass[Worker].at = "failed" /\ Hangup
  /\ CountFailure
  /\ UNCHANGED <<queueVars, backingOff, up, worker, calls>>

ReadError ==
  /\ pass[Worker].at = "failed" /\ Hangup
  /\ worker' = Failed /\ CountFailure
  /\ UNCHANGED <<queueVars, backingOff, up, calls>>

WorkerStep == Wake \/ ReadAnswer \/ ReadError

-----------------------------------------------------------------------------
(* The server and the other users of the queue                              *)

Active(c) == pass[c].at \notin {"idle", "answered", "failed"}

Broken(c) == IF c = Worker THEN [IdlePass EXCEPT !.at = "failed"] ELSE IdlePass

(* A database call throws: the call ends, and its run stays with nobody.    *)
Throw(c) ==
  /\ Active(c) /\ Spend
  /\ IF pass[c].run = Nobody THEN UNCHANGED queueVars ELSE Queue!Vanish(c, pass[c].run)
  /\ pass' = [pass EXCEPT ![c] = Broken(c)]
  /\ UNCHANGED <<backingOff, up, worker, fails>>

Outage ==
  /\ up /\ Spend
  /\ up' = FALSE
  /\ holder' = [r \in Runs |-> Nobody]
  /\ pass' = [c \in Callers |-> IF Active(c) THEN Broken(c) ELSE pass[c]]
  /\ UNCHANGED <<state, tried, backingOff, worker, fails>>

Recover ==
  /\ ~up /\ up' = TRUE
  /\ UNCHANGED <<queueVars, backingOff, pass, worker, fails, calls>>

Admit(r) ==
  /\ up /\ Spend
  /\ CreateRun(r, {})
  /\ UNCHANGED <<backingOff, up, pass, worker, fails>>

Reject(r) ==
  /\ up /\ Spend
  /\ Queue!Withdraw(r) /\ backingOff' = backingOff \ {r}
  /\ UNCHANGED <<up, pass, worker, fails>>

ServiceNext ==
  \/ \E c \in Callers : PassStep(c) \/ Throw(c)
  \/ \E o \in Operators : PostDrain(o) \/ PostReplay(o) \/ PostReplayOne(o) \/ PostHygiene(o)
  \/ \E r \in Runs : RetryDue(r) \/ Admit(r) \/ Reject(r)
  \/ WorkerStep \/ Outage \/ Recover

ServiceSpec == ServiceInit /\ [][ServiceNext]_serviceVars

(* The worker is a service that is restarted (vps-ops-worker-service.sh), a *)
(* call the server is working on goes on, and time passes.                  *)
ServiceFairness ==
  /\ WF_serviceVars(WorkerStep) /\ WF_serviceVars(Recover)
  /\ \A c \in Callers : WF_serviceVars(PassStep(c))
  /\ \A r \in Runs : WF_serviceVars(RetryDue(r))

-----------------------------------------------------------------------------
(* Properties                                                               *)

(* ops-worker.mjs:128-140: after k failures in a row the worker sleeps      *)
(* Interval * 2^(k-1), never longer than MaxBackoff, however failures,      *)
(* outages and answers are mixed.                                           *)
PauseFollowsFailures ==
  /\ worker.backoff = Min({MaxBackoff, Interval * PowerOf2[fails]})
  /\ fails > 0 /\ worker.pc = "asleep" =>
       worker.pause = Min({MaxBackoff, Interval * PowerOf2[fails - 1]})

(* What a hygiene pass or a replay call creates it does not replay itself,  *)
(* though its run may be worked on and fail meanwhile, and it replays no    *)
(* more than its cap and no more than were dead when it began.              *)
ReplaysOnce ==
  \A o \in Operators :
    /\ pass[o].todo \cap pass[o].made = {}
    /\ pass[o].replayed + Cardinality(pass[o].todo) <= Min({pass[o].before, ReplayCap})
       \/ pass[o].at = "idle"

(* Whatever fails on the way, a run that is queued is taken up, or          *)
(* rejected: the worker comes back after every failure.                     *)
QueueIsServed ==
  \A r \in Runs : (state[r] = "queued") ~> (state[r] # "queued")

=============================================================================
