-------------------------- MODULE RemediationQueue --------------------------
(***************************************************************************)
(* The remediation queue of the control plane: the rows of RemediationRun, *)
(* the workers that drain them (lib/remediate/queue.ts), the operators     *)
(* that approve or reject a run, and the replay tooling.                   *)
(*                                                                         *)
(* The queue is a database table. A handler is a sequence of database      *)
(* calls with awaits between them, so what a handler read may be stale     *)
(* when it writes; each database call (or transaction) is one action here, *)
(* and what the handler remembers between two calls is in its own record.  *)
(* Nothing but the claim is a compare-and-swap: every later write is an    *)
(* update by id of the whole payload the handler read.                     *)
(*                                                                         *)
(* A payload's optional timestamp nextAttemptAt is the number 0 when null: *)
(* both mean "due at once". Flags that come from configuration (the host's *)
(* enabled flag, the command guard) may change at any time, so a handler   *)
(* reads either value.                                                     *)
(***************************************************************************)
EXTENDS Integers, FiniteSets, FiniteSetsExt

CONSTANTS
  Runs,        \* ids of rows of RemediationRun
  Legacy,      \* rows already queued whose execute payload does not parse
  Targets,     \* (host, action) pairs
  Catalog,     \* the kinds of payload the admission routes create
  Workers,     \* concurrent calls of drainRemediationQueue
  Operators,   \* concurrent calls of setRemediationRunApproval
  Replayers,   \* concurrent calls of the replay functions
  MaxAttempts, \* policy.maxRetryAttempts
  Backoff,     \* the delay computed after the n-th failed attempt
  Ttl,         \* policy.queueTtlMinutes
  ClaimRounds, \* rounds of claimNextQueuedRun (8 in the code)
  Window,      \* rows one claim looks at (80 in the code)
  BatchLimit,  \* rows one dead-letter batch takes
  MaxTime,     \* bound: the clock stops here
  MaxReviews,  \* bound: operator calls
  MaxCrashes,  \* bound: drains that die half way
  None         \* no run

Approvals == {"none", "pending", "approved", "rejected"}
Canaries  == {"off", "unchecked", "passed", "failed"}
Rollbacks == {"off", "armed", "succeeded", "failed"}
Reasons   == {"none", "policy_blocked", "canary_failed", "auto_rolled_back",
              "auto_rollback_failed", "max_attempts_exceeded", "replayed"}
States    == {"absent", "queued", "running", "succeeded", "failed", "canceled"}
Active    == {"queued", "running"}
Terminal  == {"succeeded", "failed", "canceled"}

ASSUME QueueAssumption ==
  /\ Legacy \subseteq Runs
  /\ Targets # {}
  /\ Catalog \subseteq [approval : {"none", "pending"},
                        canary   : {"off", "unchecked"},
                        rollback : {"off", "armed"}]
  /\ MaxAttempts \in Nat \ {0}
  /\ Backoff \in [1..MaxAttempts -> Nat \ {0}]
  /\ {Ttl, Window, BatchLimit, MaxTime, MaxReviews, MaxCrashes} \subseteq Nat
  /\ ClaimRounds \in Nat \ {0}
  /\ None \notin Runs \cup Workers

VARIABLES
  run,      \* the table: run[r].state is "absent" until the row is created
  wk,       \* the drain calls
  op,       \* the approval calls
  rp,       \* the replay calls
  now,      \* the clock
  reviews,  \* approval calls so far
  crashes,  \* drains that died so far
  (* history, read by no action *)
  starts,   \* times the commands of a run were started
  lastStart,\* when they were started last
  undone,   \* times the rollback commands of a run were started
  root,     \* the admitted run a chain of replays goes back to
  granted   \* roots an operator has approved

hist == <<starts, lastStart, undone, root, granted>>
vars == <<run, wk, op, rp, now, reviews, crashes, hist>>

-----------------------------------------------------------------------------
(* Payloads and rows                                                        *)

Meta == [attempts : Nat, next : Nat, dlq : BOOLEAN, reason : Reasons,
         approval : Approvals, canary : Canaries, rollback : Rollbacks,
         replayOf : Runs \cup {None}]

NoMeta == [attempts |-> 0, next |-> 0, dlq |-> FALSE, reason |-> "none",
           approval |-> "none", canary |-> "off", rollback |-> "off",
           replayOf |-> None]

FreshMeta(kind) ==
  [NoMeta EXCEPT !.approval = kind.approval,
                 !.canary = kind.canary,
                 !.rollback = kind.rollback]

Row == [state : States, target : Targets, requestedAt : Nat, meta : Meta]

(* Mutant: a rejected run is not held back. *)
BlocksWhenPending(m) == m.approval = "pending"

ApprovalBlocks(m) == m.approval \in {"pending", "rejected"}

(* Every read of a payload normalises it. *)
Parse(m) == [m EXCEPT !.next = IF m.dlq \/ ApprovalBlocks(m) THEN 0 ELSE m.next]

queueMetaIsReady(m, t) == ~m.dlq /\ ~ApprovalBlocks(m) /\ m.next <= t

Expired(r) == now - run[r].requestedAt > Ttl

InState(S) == {r \in Runs : run[r].state \in S}

DeadLetters == {r \in InState({"failed"}) : run[r].meta.dlq}

(* The n oldest rows of S; rows requested at the same instant come in any   *)
(* order.                                                                   *)
Oldest(n, S) ==
  LET size == IF n < Cardinality(S) THEN n ELSE Cardinality(S)
  IN {W \in kSubset(size, S) :
        \A r \in W, s \in S \ W : run[r].requestedAt <= run[s].requestedAt}

FirstOf(S) == {r \in S : \A s \in S : run[r].requestedAt <= run[s].requestedAt}

-----------------------------------------------------------------------------
(* Processes                                                                *)

IdleWorker   == [pc |-> "idle", run |-> None, at |-> 0, round |-> 0,
                 meta |-> NoMeta, to |-> "absent"]
IdleOperator == [pc |-> "idle", run |-> None, meta |-> NoMeta]
IdleReplayer == [pc |-> "idle", todo |-> {}, src |-> None,
                 state |-> "absent", meta |-> NoMeta]

(* The phases in which a worker acts on a run it has claimed. *)
Executing == {"commands", "canary", "rollback"}
Holding   == {"load", "write"} \cup Executing

WorkerState   == [pc : {"idle", "scan", "claim"} \cup Holding,
                  run : Runs \cup {None}, at : Nat, round : Nat,
                  meta : Meta, to : States]
OperatorState == [pc : {"idle", "decide"}, run : Runs \cup {None}, meta : Meta]
ReplayState   == [pc : {"idle", "read", "count", "create"}, todo : SUBSET Runs,
                  src : Runs \cup {None}, state : States, meta : Meta]

TypeOK ==
  /\ run \in [Runs -> Row]
  /\ wk \in [Workers -> WorkerState]
  /\ op \in [Operators -> OperatorState]
  /\ rp \in [Replayers -> ReplayState]
  /\ now \in Nat /\ reviews \in Nat /\ crashes \in Nat
  /\ starts \in [Runs -> Nat]
  /\ lastStart \in [Runs -> Nat]
  /\ undone \in [Runs -> Nat]
  /\ root \in [Runs -> Runs]
  /\ granted \subseteq Runs

(* The table at start: legacy rows, waiting since before the clock starts.  *)
Init ==
  /\ run = [r \in Runs |->
              [state |-> IF r \in Legacy THEN "queued" ELSE "absent",
               target |-> CHOOSE t \in Targets : TRUE,
               requestedAt |-> 0, meta |-> NoMeta]]
  /\ wk = [w \in Workers |-> IdleWorker]
  /\ op = [o \in Operators |-> IdleOperator]
  /\ rp = [p \in Replayers |-> IdleReplayer]
  /\ now = 0 /\ reviews = 0 /\ crashes = 0
  /\ starts = [r \in Runs |-> 0]
  /\ lastStart = [r \in Runs |-> 0]
  /\ undone = [r \in Runs |-> 0]
  /\ root = [r \in Runs |-> r]
  /\ granted = {}

-----------------------------------------------------------------------------
(* Admission: the insert the execute route and the autonomous queueing make *)
(* once their own checks have passed.                                       *)

Enqueue(r, t, kind) ==
  /\ run[r].state = "absent"
  /\ run' = [run EXCEPT ![r] = [state |-> "queued", target |-> t,
                                requestedAt |-> now, meta |-> FreshMeta(kind)]]
  /\ UNCHANGED <<wk, op, rp, now, reviews, crashes, hist>>

-----------------------------------------------------------------------------
(* The drain                                                                *)

(* The candidate of a claim: the oldest row of the window that does not     *)
(* parse or was ready when the claim began.                                 *)
Claimable(r, t) == r \in Legacy \/ queueMetaIsReady(Parse(run[r].meta), t)

(* One round of claimNextQueuedRun reads the window and picks a candidate;  *)
(* the clock is read once per claim, so a later round judges readiness by   *)
(* the time the claim began. A drain takes one run after another up to its  *)
(* limit: here it ends after each run, and may be called again at once.     *)
Scan(w) ==
  /\ wk[w].pc \in {"idle", "scan"}
  /\ LET at == IF wk[w].pc = "idle" THEN now ELSE wk[w].at
     IN \E W \in Oldest(Window, InState({"queued"})) :
          LET ready == {r \in W : Claimable(r, at)}
          IN \/ /\ ready = {}
                /\ wk' = [wk EXCEPT ![w] = IdleWorker]
             \/ \E r \in FirstOf(ready) :
                  wk' = [wk EXCEPT ![w] =
                           [@ EXCEPT !.pc = "claim", !.run = r, !.at = at]]
  /\ UNCHANGED <<run, op, rp, now, reviews, crashes, hist>>

(* Mutants: the claim updates by id alone, or takes any row not running. *)
ClaimById(w) ==
  /\ wk[w].pc = "claim"
  /\ run' = [run EXCEPT ![wk[w].run].state = "running"]
  /\ wk' = [wk EXCEPT ![w].pc = "load"]
  /\ UNCHANGED <<op, rp, now, reviews, crashes, hist>>

ClaimIfNotRunning(w) == ClaimById(w) /\ run[wk[w].run].state # "running"

(* updateMany where id and state = queued. *)
Claim(w) ==
  LET r == wk[w].run
  IN /\ wk[w].pc = "claim"
     /\ run[r].state = "queued"
     /\ run' = [run EXCEPT ![r].state = "running"]
     /\ wk' = [wk EXCEPT ![w].pc = "load"]
     /\ UNCHANGED <<op, rp, now, reviews, crashes, hist>>

LoseClaim(w) ==
  /\ wk[w].pc = "claim"
  /\ run[wk[w].run].state # "queued"
  /\ wk' = [wk EXCEPT ![w] =
              IF wk[w].round + 1 < ClaimRounds
              THEN [wk[w] EXCEPT !.pc = "scan", !.run = None, !.round = @ + 1]
              ELSE IdleWorker]
  /\ UNCHANGED <<run, op, rp, now, reviews, crashes, hist>>

(* The worker has decided the row's next state and payload, and the update  *)
(* is under way.                                                            *)
PrepareWrite(w, to, m, t) ==
  wk' = [wk EXCEPT ![w] =
           [@ EXCEPT !.pc = "write", !.to = to, !.meta = m, !.at = t]]

(* Mutant: the candidate was ready when it was picked, so it is started. *)
TrustCandidate(m) == TRUE

(* The readiness test after the claim: the run may have been retried by     *)
(* another worker between the reading of the list and the claim.            *)
StillReady(m) == queueMetaIsReady(m, now)

(* The claimed row is read again with its host; everything up to the next   *)
(* database call or command is decided from this read.                      *)
Load(w) ==
  LET r == wk[w].run
      m == Parse(run[r].meta)
  IN /\ wk[w].pc = "load"
     /\ \E enabled, permitted \in BOOLEAN :
          \/ /\ ~enabled \/ Expired(r)
             /\ PrepareWrite(w, "canceled", m, now)
             /\ UNCHANGED hist
          \/ /\ enabled /\ ~Expired(r)
             /\ r \in Legacy
             /\ PrepareWrite(w, "failed", m, now)
             /\ UNCHANGED hist
          \/ /\ enabled /\ ~Expired(r) /\ r \notin Legacy
             /\ ~StillReady(m)
             /\ PrepareWrite(w, "queued", m, now)
             /\ UNCHANGED hist
          \/ /\ enabled /\ ~Expired(r) /\ r \notin Legacy
             /\ StillReady(m) /\ ~permitted
             /\ PrepareWrite(w, "failed",
                  [m EXCEPT !.dlq = TRUE, !.reason = "policy_blocked", !.next = 0], now)
             /\ UNCHANGED hist
          \/ /\ enabled /\ ~Expired(r) /\ r \notin Legacy
             /\ StillReady(m) /\ permitted
             /\ wk' = [wk EXCEPT ![w] =
                      [@ EXCEPT !.pc = "commands", !.meta = m, !.at = now]]
             /\ starts' = [starts EXCEPT ![r] = @ + 1]
             /\ lastStart' = [lastStart EXCEPT ![r] = now]
             /\ UNCHANGED <<undone, root, granted>>
     /\ UNCHANGED <<run, op, rp, now, reviews, crashes>>

(* Mutant: a rollback that ran does not rule out a retry. *)
ForceDlqOnCanary(m) == m.canary = "failed"

ForceDlq(m) == m.canary = "failed" \/ m.rollback \in {"succeeded", "failed"}

(* Mutant: a reason no reader of the column knows. *)
UnknownReason(m) == "exhausted"

DlqReason(m) ==
  IF ~ForceDlq(m) THEN "max_attempts_exceeded"
  ELSE IF m.canary = "failed" THEN "canary_failed"
  ELSE IF m.rollback = "succeeded" THEN "auto_rolled_back"
  ELSE "auto_rollback_failed"

Succeed(w, m) ==
  PrepareWrite(w, "succeeded",
    [m EXCEPT !.next = 0, !.dlq = FALSE, !.reason = "none"], wk[w].at)

(* Mutant: off by one. *)
RetryAtLimit(m) == m.attempts <= MaxAttempts

shouldRetryAttempt(m) == m.attempts < MaxAttempts

(* Mutant: the payload is flagged before the retry is decided. *)
FlagThenRetry(w, m) ==
  PrepareWrite(w, IF shouldRetryAttempt(m) THEN "queued" ELSE "failed",
    [m EXCEPT !.dlq = TRUE, !.reason = DlqReason(m)], wk[w].at)

RetryOrDlq(w, m) ==
  IF ~ForceDlq(m) /\ shouldRetryAttempt(m)
  THEN PrepareWrite(w, "queued",
         [m EXCEPT !.next = wk[w].at + Backoff[m.attempts],
                   !.dlq = FALSE, !.reason = "none"], wk[w].at)
  ELSE PrepareWrite(w, "failed",
         [m EXCEPT !.next = 0, !.dlq = TRUE, !.reason = DlqReason(m)], wk[w].at)

(* A failed attempt is rolled back when the payload still has a rollback to *)
(* run; otherwise it is retried or dead-lettered.                           *)
AfterFailure(w, m) ==
  IF m.rollback = "armed"
  THEN wk' = [wk EXCEPT ![w] = [@ EXCEPT !.pc = "rollback", !.meta = m]]
  ELSE RetryOrDlq(w, m)

RunCommands(w) ==
  LET m == [wk[w].meta EXCEPT !.attempts = @ + 1]
  IN /\ wk[w].pc = "commands"
     /\ \/ IF m.canary = "off"
           THEN Succeed(w, m)
           ELSE wk' = [wk EXCEPT ![w] = [@ EXCEPT !.pc = "canary", !.meta = m]]
        \/ AfterFailure(w, m)
     /\ UNCHANGED <<run, op, rp, now, reviews, crashes, hist>>

RunCanary(w) ==
  LET m == wk[w].meta
  IN /\ wk[w].pc = "canary"
     /\ \/ Succeed(w, [m EXCEPT !.canary = "passed"])
        \/ AfterFailure(w, [m EXCEPT !.canary = "failed"])
     /\ UNCHANGED <<run, op, rp, now, reviews, crashes, hist>>

RunRollback(w) ==
  /\ wk[w].pc = "rollback"
  /\ \E result \in {"succeeded", "failed"} :
       RetryOrDlq(w, [wk[w].meta EXCEPT !.rollback = result])
  /\ undone' = [undone EXCEPT ![wk[w].run] = @ + 1]
  /\ UNCHANGED <<run, op, rp, now, reviews, crashes, starts, lastStart, root, granted>>

(* Mutants: the update forgets the payload, or the state. *)
WriteStateOnly(w) ==
  /\ wk[w].pc = "write"
  /\ run' = [run EXCEPT ![wk[w].run].state = wk[w].to]
  /\ wk' = [wk EXCEPT ![w] = IdleWorker]
  /\ UNCHANGED <<op, rp, now, reviews, crashes, hist>>

WritePayloadOnly(w) ==
  /\ wk[w].pc = "write"
  /\ run' = [run EXCEPT ![wk[w].run].meta = wk[w].meta]
  /\ wk' = [wk EXCEPT ![w] = IdleWorker]
  /\ UNCHANGED <<op, rp, now, reviews, crashes, hist>>

(* updateRun: an update by id, whatever the row's state is by now. *)
WriteBack(w) ==
  LET r == wk[w].run
  IN /\ wk[w].pc = "write"
     /\ run' = [run EXCEPT ![r] = [@ EXCEPT !.state = wk[w].to, !.meta = wk[w].meta]]
     /\ wk' = [wk EXCEPT ![w] = IdleWorker]
     /\ UNCHANGED <<op, rp, now, reviews, crashes, hist>>

(* The process dies, or a database call of the drain throws: nothing undoes *)
(* the claim.                                                               *)
Crash(w) ==
  /\ wk[w].pc # "idle"
  /\ crashes < MaxCrashes
  /\ crashes' = crashes + 1
  /\ wk' = [wk EXCEPT ![w] = IdleWorker]
  /\ UNCHANGED <<run, op, rp, now, reviews, hist>>

-----------------------------------------------------------------------------
(* Approval                                                                 *)

Reviewable == InState({"queued"}) \ Legacy

Review(o) ==
  /\ op[o].pc = "idle"
  /\ reviews < MaxReviews
  /\ \E r \in Reviewable :
       /\ run[r].meta.approval # "none"
       /\ op' = [op EXCEPT ![o] = [pc |-> "decide", run |-> r,
                                   meta |-> Parse(run[r].meta)]]
  /\ reviews' = reviews + 1
  /\ UNCHANGED <<run, wk, rp, now, crashes, hist>>

Approved(m) == [m EXCEPT !.approval = "approved", !.next = 0]

Approve(o) ==
  LET r == op[o].run
  IN /\ op[o].pc = "decide"
     /\ run' = [run EXCEPT ![r] =
                 [@ EXCEPT !.state = "queued", !.meta = Approved(op[o].meta)]]
     /\ granted' = granted \cup {root[r]}
     /\ op' = [op EXCEPT ![o] = IdleOperator]
     /\ UNCHANGED <<wk, rp, now, reviews, crashes, starts, lastStart, undone, root>>

Rejected(m) == [m EXCEPT !.approval = "rejected", !.next = 0]

Reject(o) ==
  LET r == op[o].run
  IN /\ op[o].pc = "decide"
     /\ run' = [run EXCEPT ![r] =
                 [@ EXCEPT !.state = "canceled", !.meta = Rejected(op[o].meta)]]
     /\ op' = [op EXCEPT ![o] = IdleOperator]
     /\ UNCHANGED <<wk, rp, now, reviews, crashes, hist>>

-----------------------------------------------------------------------------
(* Replay                                                                   *)

(* mode single names any run; mode dlq-batch takes the oldest dead letters. *)
RequestReplay(p) ==
  /\ rp[p].pc = "idle"
  /\ \E todo \in {{r} : r \in InState(Active \cup Terminal)}
                 \cup Oldest(BatchLimit, DeadLetters) :
       /\ todo # {}
       /\ rp' = [rp EXCEPT ![p] = [@ EXCEPT !.pc = "read", !.todo = todo]]
  /\ UNCHANGED <<run, wk, op, now, reviews, crashes, hist>>

(* The call for source s is over: the batch goes on with the next one. *)
NextItem(p, s) ==
  rp' = [rp EXCEPT ![p] =
           IF rp[p].todo = {s} THEN IdleReplayer
           ELSE [IdleReplayer EXCEPT !.pc = "read", !.todo = rp[p].todo \ {s}]]

ReadSource(p) ==
  /\ rp[p].pc = "read"
  /\ \E s \in FirstOf(rp[p].todo) :
       IF run[s].state \in Active \/ s \in Legacy
       THEN NextItem(p, s)
       ELSE rp' = [rp EXCEPT ![p] =
                    [@ EXCEPT !.pc = "count", !.src = s, !.state = run[s].state,
                              !.meta = Parse(run[s].meta)]]
  /\ UNCHANGED <<run, wk, op, now, reviews, crashes, hist>>

ActiveFor(t) == {r \in InState(Active) : run[r].target = t}

CountActive(p) ==
  LET s == rp[p].src
  IN /\ rp[p].pc = "count"
     /\ IF ActiveFor(run[s].target) # {}
        THEN NextItem(p, s)
        ELSE rp' = [rp EXCEPT ![p].pc = "create"]
     /\ UNCHANGED <<run, wk, op, now, reviews, crashes, hist>>

(* The payload a replay starts with: approval, canary verdict and rollback  *)
(* record are those of the source.                                          *)
ReplayMeta(m, s) ==
  [m EXCEPT !.attempts = 0, !.next = 0, !.dlq = FALSE, !.reason = "none",
            !.replayOf = s]

(* Mutants: the source stays as it is, or is canceled with its flag set. *)
LeaveSource(s, m) == run[s]
CancelSource(s, m) == [run[s] EXCEPT !.state = "canceled"]

(* The source row of a replayed dead letter. *)
RetireSource(s, m) ==
  [run[s] EXCEPT !.state = "canceled",
                 !.meta = [m EXCEPT !.dlq = FALSE, !.reason = "replayed", !.next = 0]]

CreateReplay(p) ==
  LET s == rp[p].src
      m == rp[p].meta
      copy(r) == [state |-> "queued", target |-> run[s].target,
                  requestedAt |-> now, meta |-> ReplayMeta(m, s)]
  IN /\ rp[p].pc = "create"
     /\ \E r \in InState({"absent"}) :
          /\ run' = IF rp[p].state = "failed" /\ m.dlq
                    THEN [run EXCEPT ![r] = copy(r), ![s] = RetireSource(s, m)]
                    ELSE [run EXCEPT ![r] = copy(r)]
          /\ root' = [root EXCEPT ![r] = root[s]]
     /\ NextItem(p, s)
     /\ UNCHANGED <<wk, op, now, reviews, crashes, starts, lastStart, undone, granted>>

-----------------------------------------------------------------------------
Tick ==
  /\ now < MaxTime
  /\ now' = now + 1
  /\ UNCHANGED <<run, wk, op, rp, reviews, crashes, hist>>

(* What a drain does by itself once it has been called. *)
WorkerStep(w) ==
  \/ Scan(w) \/ Claim(w) \/ LoseClaim(w) \/ Load(w)
  \/ RunCommands(w) \/ RunCanary(w) \/ RunRollback(w) \/ WriteBack(w)

OperatorStep(o) == Review(o) \/ Approve(o) \/ Reject(o)

ReplayStep(p) ==
  RequestReplay(p) \/ ReadSource(p) \/ CountActive(p) \/ CreateReplay(p)

Next ==
  \/ \E r \in Runs, t \in Targets, kind \in Catalog : Enqueue(r, t, kind)
  \/ \E w \in Workers : WorkerStep(w) \/ Crash(w)
  \/ \E o \in Operators : OperatorStep(o)
  \/ \E p \in Replayers : ReplayStep(p)
  \/ Tick

Spec == Init /\ [][Next]_vars

(***************************************************************************)
(* Scheduling. ops-worker.mjs calls the drain in a loop for ever, so every  *)
(* drain goes on and is followed by another. Nobody has to call the         *)
(* approval or replay routes, and nothing has to be admitted.               *)
(***************************************************************************)
Fairness == WF_vars(Tick) /\ \A w \in Workers : WF_vars(WorkerStep(w))

FairSpec == Spec /\ Fairness

(***************************************************************************)
(* One decision per run: operators act on runs shown as awaiting approval,  *)
(* and a run has one approval call in flight at a time. The code enforces   *)
(* neither, and some of what follows needs both.                            *)
(***************************************************************************)
SerialReviews ==
  \A o \in Operators : op[o].pc = "decide" =>
    /\ ApprovalBlocks(op[o].meta)
    /\ \A q \in Operators :
         op[q].pc = "decide" /\ op[q].run = op[o].run => q = o

SerialNext == Next /\ SerialReviews'
SerialSpec == Init /\ [][SerialNext]_vars
FairSerialSpec == SerialSpec /\ Fairness

-----------------------------------------------------------------------------
(* Safety                                                                   *)

(* A run whose payload asked for approval is started only once an operator  *)
(* has approved it, or the run it replays; no interleaving of claims,       *)
(* decisions and replays may let one through.                               *)
ApprovalGate ==
  \A r \in Runs :
    starts[r] > 0 /\ run[r].meta.approval # "none" => root[r] \in granted

(* Two workers never act on one run at a time, although both may have       *)
(* picked it from the same list, and the row of a claimed run says running  *)
(* until its worker writes the result.                                      *)
ExclusiveClaim ==
  \A w \in Workers : wk[w].pc \in Holding =>
    /\ run[wk[w].run].state = "running"
    /\ \A v \in Workers :
         wk[v].pc \in Holding /\ wk[v].run = wk[w].run => v = w

(* The retry budget: whatever workers, stale candidate lists and crashes    *)
(* do, the commands of a run are started at most MaxAttempts times.         *)
AttemptBudget == \A r \in Runs : starts[r] <= MaxAttempts

(* No lost update: unless a worker is executing the run or died doing so,   *)
(* the row has counted exactly the starts there were.                       *)
AttemptsRecorded ==
  \A r \in Runs :
    \/ run[r].meta.attempts = starts[r]
    \/ run[r].state = "running" /\ run[r].meta.attempts = starts[r] - 1

(* The rollback of a run runs at most once, and then the run is over: it is *)
(* never queued again nor reported as succeeded.                            *)
RollbackEndsRun ==
  \A r \in Runs :
    /\ undone[r] <= 1
    /\ undone[r] = 1 => run[r].state \notin {"queued", "succeeded"}

(* The dead-letter flag and the state agree: every run that failed with a   *)
(* payload is in the dead-letter queue, and no queued row carries the flag, *)
(* which would make it unclaimable for ever.                                *)
DeadLetterShape ==
  \A r \in Runs \ Legacy : run[r].meta.dlq <=> run[r].state = "failed"

(* A dead letter that has been replayed is out of the dead-letter queue for *)
(* good, so that no later batch replays it again.                           *)
ReplayRetiresSource ==
  \A r \in Runs :
    run[r].meta.replayOf # None => run[r].meta.replayOf \notin DeadLetters

(* Two starts of one run are at least the backoff of the earlier attempt    *)
(* apart, although the claim is made from a list read before the retry was  *)
(* scheduled.                                                               *)
BackoffRespected ==
  [][\A r \in Runs : starts'[r] > starts[r] /\ starts[r] \in 1..MaxAttempts
        => now >= lastStart[r] + Backoff[starts[r]]]_vars

(* A run that has succeeded or was canceled stays exactly as it is, and a   *)
(* dead letter changes only by being retired by its replay.                 *)
TerminalIsFinal ==
  [][\A r \in Runs : run'[r] # run[r] =>
        /\ run[r].state \notin {"succeeded", "canceled"}
        /\ run[r].state = "failed" =>
             run'[r].state = "canceled" /\ run'[r].meta.reason = "replayed"]_vars

(* queue.ts:1262, "Only queued runs can be approved or rejected": at the    *)
(* moment a decision is written its run is queued.                          *)
DecisionsHitQueuedRuns ==
  [][\A o \in Operators : op[o].pc = "decide" /\ op'[o].pc = "idle"
        => run[op[o].run].state = "queued"]_vars

(* queue.ts:1094, "An active run for this host/action already exists": a    *)
(* replay never adds a run to a target that has an active one.              *)
ReplayFindsTargetIdle ==
  [][\A r \in Runs : run[r].state = "absent" /\ run'[r].meta.replayOf # None
        => ActiveFor(run'[r].target) = {}]_vars

(* remediation-queue-runbook.md:17-19: a failed attempt goes back to queued *)
(* unless it is not retryable or the attempts are used up. A run is         *)
(* dead-lettered early only for a failed canary or its own rollback.        *)
DeadLetterIsEarned ==
  \A r \in DeadLetters :
    \/ run[r].meta.attempts = MaxAttempts
    \/ run[r].meta.canary = "failed"
    \/ run[r].meta.reason = "policy_blocked"
    \/ undone[r] = 1

(* The queue is a lease on runs: one drain at a time holds a run, from its  *)
(* claim to the update that reports the result, and only through it is the  *)
(* run worked on or settled.                                                *)
Holders(r) == {w \in Workers : wk[w].pc \in Holding /\ wk[w].run = r}

SoleOf(S) == IF S = {} THEN None ELSE CHOOSE w \in S : TRUE
Holder == [r \in Runs |-> SoleOf(Holders(r))]

RowState == [r \in Runs |-> run[r].state]

Lease == INSTANCE RunLease WITH
  Waiting <- Legacy, Nobody <- None,
  state <- RowState, holder <- Holder, tried <- starts

ImplementsLease == Lease!Spec

-----------------------------------------------------------------------------
(* Liveness                                                                 *)

(* A claimed run does not stay running: its worker reports a result or puts *)
(* it back (runbook lines 3 and 16-19: durable worker flow).                *)
ClaimedRunSettles ==
  \A r \in Runs : run[r].state = "running" ~> run[r].state # "running"

(* A queued run that needs no approval, or has it, is eventually finished,  *)
(* or waits for a retry after the last instant of the clock.                *)
Unblocked(r) == run[r].state = "queued" /\ ~ApprovalBlocks(run[r].meta)

QueuedRunFinishes ==
  \A r \in Runs :
    Unblocked(r) ~> \/ run[r].state \in Terminal
                    \/ run[r].meta.next > MaxTime
=============================================================================
