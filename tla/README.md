# Formal model of the vps-sentry control plane

This directory is a TLA+ verification project for the control plane in `src/`:
a Next.js application over a database (Prisma on SQLite, one writer at a time)
that watches servers, records breaches and incidents, and runs remediation
commands on the servers through a queue. The modules are translated from the
code; the documents and tests say what it is meant to do (section 6).

Paths below are relative to the repository. `lib/...`, `api/...` and
`__tests__/...` stand for `src/lib/...`, `src/app/api/...` and
`src/__tests__/...`.

## 1. Inventory

### Parts, their state and their operations

| Part | State | Operations | What makes it correct |
|---|---|---|---|
| Remediation queue (`lib/remediate/queue.ts`, `queue-runtime.ts`) | rows of `RemediationRun`: state, request time, and a JSON payload with attempts, back-off, dead-letter flag, approval, canary and rollback record | drain (claim, run, retry, dead-letter), approve, reject, replay one, replay a batch, snapshot | one worker per run; no start without its approval; attempts bounded and spaced; a finished run is final; the dead-letter queue holds what failed and was not replayed; every run is settled |
| Execute admission (`api/remediate/route.ts`) | none of its own: counts over the table | dry run, execute | limits per host, per hour and in total; cool-down; a fresh dry run; none of these for a replay, which is counted by the next check |
| Autonomous queueing (`lib/remediate/autonomous-runtime.ts`, `autonomous.ts`) | none of its own | queue the remediations a snapshot calls for | the same limits, tier and canary policy |
| Policies and guard (`lib/remediate/policy.ts`, `host-policy.ts`, `guard.ts`) | host metadata | read, normalise, test | defaults and clamps; a blocked command never runs |
| Operator routes of the queue (`api/ops/remediate-{queue,drain,replay,hygiene}`) | none | the queue's operations, and a hygiene pass that chains them | a pass does not undo itself |
| Drain worker (`scripts/ops-worker.mjs`) | back-off | calls the drain for ever | keeps calling, backs off on failure, recovers |
| Fleet rollouts (`lib/remediate/fleet-policy.ts`, `api/ops/fleet-policy`, `api/ops/remediate-fleet`) | host metadata | preview, staged rollout | a stage covers its hosts, and only those, while hosts come and go |
| Incident engine (`lib/ops/incident-engine.ts`, `api/ops/incidents`) | rows of `IncidentWorkflowRun` and their timeline | create, assign, acknowledge, resolve, close, reopen, note, postmortem, run a step, escalation sweep | dates agree with the state; no open incident without a timer; escalations numbered, spaced and not forgotten; nothing escalated that is not due |
| Workflows (`lib/ops/workflows.ts`, `workflow-executor.ts`) | catalogue | resolve and execute a step | a step does what its catalogue entry says |
| Host keys (`lib/host-keys.ts`, `host-key-auth.ts`, `api/hosts/[hostId]/keys`) | rows of `HostApiKey` | create, rotate, revoke, verify | versions are unique and rise; revoked keys are refused |
| Status ingest (`api/hosts/[hostId]/status`, `lib/host-ingest.ts`, `host-heartbeat.ts`) | snapshots, host's last contact | ingest, dedupe, follow-up work | a repeated snapshot is recorded once; follow-up failures do not lose it |
| Breach ledger (`lib/auto-breaches.ts`, `api/hosts/[hostId]/breaches`) | rows of `Breach` | reconcile with a snapshot, open and close by hand | one open breach per finding; what is fixed is closed |
| Counterstrike (`lib/ops/counterstrike-state.ts`, its route) | files and the process table | start a script, poll | one script at a time |
| Hosts (`api/hosts/route.ts`, `api/hosts/[hostId]/route.ts`) | rows of `Host`, one metadata document each | create within the plan's limit, edit, delete | the limit; an edit keeps what it does not name |
| Billing (`api/billing/*`) | user's plan, `Subscription` | checkout, portal, cancel, webhook | the plan follows the last event; no event is lost |
| Notifications, observability, SLO, access control, dashboard, scripts | counters, logs, files | | see section 7 |

### How they interact

* The execute route, the autonomous queueing and the fleet routes insert queued
  rows; the first two may then start a drain in the same process without
  waiting for it. The worker, the drain route, the hygiene route, the admin
  panel and a workflow step call the drain too. Nothing coordinates these
  drains but the table.
* Approvals and replays are requests of operators over the same rows.
* A host's status post stores a snapshot, reconciles its breaches and may queue
  remediations; failures of the last two are swallowed.
* A workflow step of an incident drains or replays the queue, or sends a
  report, and leaves an event in the incident's timeline.
* Stripe calls the webhook for every change of a subscription, at least once and
  in any order. The webhook writes the user's host limit, which host creation
  compares with a count of its own.
* The worker is a process beside the server: it asks for a drain, sleeps, and
  asks again, whatever the answer.
* The escalation sweep is called through `POST /api/ops/incidents` with
  `action=escalation-sweep`. (The separate endpoint `api/ops/incidents/escalate`,
  which the documentation also names, looks for a model `prisma.incident` that
  the schema does not define.)

### What is hard

* A handler is a sequence of awaits. What it read may be stale when it writes,
  and except for the queue's claim every write is an update by id.
* Several drains, operators, replays and sweeps run at once; nothing forbids it.
* A run lives through several attempts, each with a canary and a rollback, and
  a replay starts another run from the same payload.
* A process that dies between a claim and its result leaves the row as it is.
* Windows, limits and time comparisons: the claim looks at the 80 oldest rows,
  the sweep takes 25 incidents, back-off and time-to-live compare minutes.
* Limits are counts read before an insert, so they are only as good as the
  number of calls that overlap.
* Messages come from outside: an agent's snapshots and Stripe's events may be
  late, repeated or out of order.

`PROJECT.json` lists each hazard at its line, with the property that covers it.

## 2. Modules

| Module | What it is |
|---|---|
| `RunLease` | abstract specification of the queue: a run is leased to one drain at a time |
| `RemediationQueue` | the queue: drains, approvals, replays; implements `RunLease` |
| `QueueAdmission` | how runs get into the queue: execute calls, autonomous queueing, replays |
| `QueueService` | who works the queue: the worker process and the operators' passes, over `RunLease` |
| `IncidentEngine` | the incident engine: operator calls, sweeps, workflow steps |
| `HostKeys` | a host's API keys |
| `HostTelemetry` | extends `HostKeys`: ingest, duplicates, breach ledger, heartbeat |
| `FleetRollout` | plans, staged rollouts and edits of the hosts' policies |
| `HostQuota` | host creation against a limit given from outside |
| `Billing` | extends `HostQuota`: Stripe, webhook, checkout, cancellation, host limit |
| `Counterstrike` | start of the counterstrike script |
| `MC...` | instances for TLC: definitions of constants, symmetry, and the two compositions named in section 3 |
| `...Proofs` | theorems about a module (`RemediationQueue` has two such modules; those about `Counterstrike` are in `QueueServiceProofs`) |

A module is what it is made of: one action stands for one database call, one
transaction or one external call, together with the code up to the next one.
A handler's record holds what it remembers between two of them. Logs, audit
rows, counters, texts and access control are left out. A value that
configuration may change at any time is read as either value at each read. A
null date is 0 or a value after the end of the clock. History variables record
what the rows do not; no action reads them.

### RemediationQueue and RunLease

`run[r]` is a row: state, target (host and action), request time and the
queue's part of the payload (`meta`). A row that does not exist yet is
`absent`. `wk`, `op` and `rp` are the drains, approval calls and replay calls
in flight.

| Action | Code |
|---|---|
| `Enqueue` | the insert at the end of admission, `api/remediate/route.ts:737` and the autonomous queueing (their limits are in `QueueAdmission`) |
| `Scan` | the read of the window and the choice of a candidate, `queue.ts:224-254` |
| `Claim`, `LoseClaim` | `updateMany` where the row is still queued, and its failure, up to 8 rounds |
| `Load` | the second read and every early end: host disabled, expired, payload that does not parse, not ready, blocked by the guard; else the commands start |
| `RunCommands`, `RunCanary`, `RunRollback` | the external commands, which may succeed or fail, and the decision after them: success, retry with back-off, dead letter |
| `WriteBack` | `updateRun`, by id, state and payload |
| `Crash` | the drain dies or a database call throws |
| `Review`, `Approve`, `Reject` | `setRemediationRunApproval`: the read with its checks, then the write |
| `RequestReplay`, `ReadSource`, `CountActive`, `CreateReplay` | `replayRemediationRun` and `replayDeadLetterRuns` |
| `Tick` | time passes |

The payload is normalised at every read as `normalizeQueueRuntimeMeta` does it.
History: `starts`, `lastStart`, `undone`, `root`, `granted` (how often and when
commands started, which run a replay goes back to, which of those an operator
approved).

`RunLease` says what a run's life is when payloads are forgotten: submitted,
taken by one drain, tried by its holder at most `MaxAttempts` times, settled by
its holder, withdrawn while it waits, closed when it is replayed. A holder may
vanish. `RemediationQueue!ImplementsLease` maps a run's holder to the drain
that is between its claim and its write. The mapping holds under `SerialSpec`
(section 3); without it a late approval takes a run from its holder.

### QueueAdmission

`RequestExecute` begins the execute mode of the route. Its five parallel reads
(running twin, executes of the last hour, cool-down, backlog of the host,
backlog in total) are `Check(o, c)`, in any order; when all have passed, the
recent dry run is looked up, and `Execute` inserts. `DryRun` is the dry-run
mode. The autonomous call reads four counts in parallel (`Count`), then goes
through the plan's actions: `Consider` applies tier, limits and the count of
active runs, `CheckLatest` the cool-down, `QueueAutonomously` inserts and adds
one to the call's own counts. A count is kept only up to its limit, which is
all the loop compares it with. The replay of one run or of a batch is
`RequestReplay`, then for each source `ReadSource`, `CountActive` (an active
run of the action?) and `CreateReplay`, the transaction; no limit and no
cool-down is looked at. `AbandonExecute`, `AbandonSweep` and `AbandonReplay`
are database calls that throw. The drains are reduced to `Claim` and `Settle`,
an operator's decision to `Approve` and `Reject`, read and written in one step:
a decision written late is in `RemediationQueue`. The constant `Serial` says
that calls of admission and replay do not overlap; the code lets them, and
where it matters a property says which case it is about.

### QueueService

The queue is `INSTANCE RunLease`, whose `Workers` are the callers: the worker
process and the operators. Every caller has a pass: a drain (`ClaimRun`,
`TryRun`, `SettleRun`, `EndDrain`), a replay of one dead letter or of a batch
(`ListDeadLetters`, `ReplayNext`, `EndReplay`), or a hygiene pass, which is a
drain, a batch and another drain. `Wake`, `ReadAnswer` and `ReadError` are the
worker's loop with its two pauses and its back-off. `Throw` ends one call,
`Outage` all of them until `Recover`. The powers of two of the back-off are a
constant (`PowerOf2`, with what makes it 2^n as `PowerAssumption`), since the
provers have no exponents. Runs that wait for an approval and the
80-row window are not in this module.

### IncidentEngine

`inc[i]` is a row of `IncidentWorkflowRun`, `timeline[i]` counts its events by
kind, `numbered[i]` (history) has the numbers its escalations were announced
with. Every operator call reads, checks and writes in one interactive
transaction and is one action (`Create`, `Assign`, `Note`, `Acknowledge`,
`Resolve`, `Close`, `Reopen`, `Postmortem`); `canRunIncidentAction` is the
code's table of what a state allows. Two handlers are longer:

* `StartSweep` is the read of the due incidents with their counts; `Escalate`
  is one transaction of the loop, by id, with the count of that read and the
  time the sweep began; `AbortSweep` ends the loop half way. The rows of one
  sweep are escalated in any order, which includes the code's.
* `StartStep` is the check of a workflow step, `FinishStep` the event appended
  when the step has run.

Minutes per severity and the minutes an operator may ask for are constants.

### HostKeys and HostTelemetry

`HostKeys` has the table of one host's keys. Creation and rotation read the
versions (`BeginCreate`, `BeginRotate`, `ReadVersions`) and write later
(`InsertKey`; `CommitRotation`, whose two writes are one transaction), and so
does revocation. A key is live, revoked or expired by the clock, and
`Verified` is the check a request meets.

`HostTelemetry` adds the ingest: `Authenticate`, `ReadLatest` (is the snapshot
the one stored last?), `DropDuplicate` or `Store`, then `ReadLedger`, which
decides on a set of creations, updates and fixes, and one `Write` for each of
them in any order; `LoseWrite` is a write that fails, which the code logs and
passes over. `OpenManually` and `SetState` are the operators', who own some
rows and may reopen or ignore the others. `ReadStatus` is an authenticated
read, which notes the use of the key; `classifyHeartbeat` is what the server
says of the last contact. The agent is external: it sends any snapshot, at any time, any number
of times.

### FleetRollout

A plan is a chain of functions over the hosts (`hostMatchesFleetSelector`,
`sortFleetHostsForRollout`, `applyFleetBlastRadiusSafeguards`,
`buildFleetRolloutStages`). Sorting puts each host at the place given by the
number of hosts before it in the order (`Precedence`; `GroupOrder` for the
waves of a canary rollout). The caps are a recursive function over the sorted
hosts, whose value is the set accepted so far: accepted hosts keep the sorted
order. `seen[h]` is the place of a host in the order of `lastSeenAt`, which is
all the plan uses of that date. `BeginStage` computes the plan and takes the stage the operator
confirmed, `QueueHost` handles its next host. `BeginBulkEdit` and `BeginPut`
read whole documents, `WriteEdit` writes the next one. `Delete` and `Contact`
are what happens to the fleet meanwhile. `reached` (history) is what the stages
of one unchanged fleet have reached.

### HostQuota and Billing

`HostQuota` is `POST api/hosts`: the limit the session was given
(`BeginCreate`), the count, the search for a free slug, the insert. `Billing`
supplies the limit from the user's row. Its other parts:

* Stripe (external): subscriptions with versions, customers, checkout sessions,
  and events, delivered at least once in any order, each with the subscription
  as it was when the event was made. `ChangeAtStripe` includes what the customer
  does in the portal that `api/billing/portal` opens: ask for a cancellation, or
  take one back (`ending` becomes false), which the program learns only from the
  event;
* the webhook: `Receive`, `FindUser`, `UpsertRow`, `UpdateUser`, and `FailHook`
  between any two;
* checkout and portal: retrieve, clear, create, save the customer, then open
  the session;
* cancellation: find the subscription, update Stripe, mark the user. `takenBack`
  (history) says that a customer took a cancellation back between the last two.

### Counterstrike

`CheckRunning` reads the file the script writes, `Spawn` starts it (twice at
most), `GraceOver` and `Poll` wait for it to show. The script is external: it
writes the file some time after its start and removes it when it ends. `blind`
(history) says that a check missed a script that had not written its file yet.

## 3. Runs

| Run | Question | Instance |
|---|---|---|
| `queue_drain` | Do racing drains keep the books of a run? | 2 drains, 2 runs, plain or with canary and rollback, 2 attempts, 1 crash, 4 instants |
| `queue_serial_approval` | Is a run that needs approval safe, and is the queue a lease? | 2 drains, 2 operators, 1 replay call, 2 runs, 2 decisions |
| `queue_replay` | Is the dead-letter queue what failed and was not replayed? | 2 replay calls with batches of 2, 1 drain, 3 runs, one of them legacy |
| `queue_liveness` | Is every run that can run settled and finished? | 2 fair drains, 1 approval call |
| `queue_service` | Does the worker come back, whatever fails? Does a pass undo itself? Is there one script? | 3 runs, one of them queued at the start, 2 attempts, 1 operator, drains of 1, caps of 2, 2 calls or failures; 2 counterstrike requests, 1 poll |
| `admission_serial` | Do one-at-a-time calls keep the cool-down, and find an action idle? | 3 runs, 2 actions, 1 operator, 1 autonomous call, 1 replay call, backlog of 2, cool-down of 1, 3 instants |
| `admission_overlap` | How far do overlapping calls overshoot? | 3 runs, 1 action, backlog and rate of 1, 1 operator, 1 autonomous and 1 replay call at once |
| `incident_lifecycle` | Do dates, timers, state and numbers agree after any sequence of calls? | 1 incident, 2 severities, 2 overlapping sweeps, 1 step, 5 calls, 6 minutes |
| `incident_sweep` | What does one sweep at a time guarantee? | 2 incidents, 1 per sweep, 1 abort, 4 calls, 6 minutes |
| `host_telemetry` | Do keys keep their promises, and how far off is the ledger? | 3 keys, 2 administrators, 3 snapshots, 2 signals, 2 ingests, 3 ledger rows, 3 versions, 2 instants, 4 calls |
| `fleet_rollout` | Do stages stay within one plan's radius? Do edits keep what they do not name? | 4 hosts in two fleets, 2 rollouts, 2 editors, caps of 3 hosts, 2 a group and 75 %, stages of 2, 3 calls |
| `billing` | Does the user end with what Stripe says? | 2 subscriptions, 2 customers, 2 webhook requests, 1 checkout or portal call, 1 cancellation, 2 host creations, 3 calls, changes or failures |

`MCQueueService` composes `QueueService` and `Counterstrike`: the two share no
state, so one moves while the other rests in its initial state. `MCBilling`
restricts when a second request gets an event that the first is still working
on to the first `MaxTwins` calls, changes and failures; Stripe sends an event
again only when it has given the first request up.

### Bounds and why they are enough

`MaxTime` stops the clock, `MaxReviews`, `MaxCalls`, `MaxCrashes`, `MaxAborts`
and `MaxFails` stop the callers and what fails; they are guards, so that
liveness can be checked without a state constraint. Two of each kind of process
are what the races need: the properties relate at most two processes and one
row, or two rows.

* Queue: two attempts reach every branch of the retry decision; a window as
  large as the table is the code's ordinary case. Delays of one instant are
  enough for "too early" to be visible.
* Admission: with limits of one, one overlapping insert is already too many,
  and three runs are one more than the bound on admitted runs allows. A
  cool-down of one is over after two of the three instants.
* Incidents: a sweep that takes one of two incidents has to choose, and six
  minutes hold two escalations in a row; with two sweeps they also hold a count
  that goes back. Five calls on one incident reach every state of its lifecycle
  twice.
* Telemetry: three versions are used up by three keys, so the cap is reached;
  two ingests of three snapshots give repeats, crossings and opposite verdicts
  on one signal; three rows are one more than the two ingests can open.
* Fleet: four hosts exceed each cap, and two stages of two differ between the
  strategies. One initial fleet has equal priorities, so that contacts order it.
  The other is ordered by priority.
* Billing: two subscriptions replace each other, and each has several versions;
  three changes or failures are a change, a failed delivery and its repetition.
* Service: a pass that lists, replays and drains needs one run that fails and
  one that is created; the back-off reaches its limit within `MaxFails`.

Larger instances were simulated at random without a violation: `FleetRollout`
with 12 calls and 3 rollouts; overlapping admission with 9 runs, 2 operators,
2 autonomous and 2 replay calls; `HostTelemetry` with 14 calls, 3 ingests and 6 rows;
`QueueService` with 5 runs, 2 operators and 10 calls. `Billing` was checked
exhaustively with unrestricted twins, and its invariants with 5 calls, 1 webhook
request and no cancellation. Symmetry is used on processes and rows in the
safety runs; the runs with a liveness property use none.

### Properties

| Module | In a run |
|---|---|
| `RemediationQueue` | `TypeOK`, `ExclusiveClaim`, `AttemptBudget`, `AttemptsRecorded`, `BackoffRespected`, `RollbackEndsRun`, `ApprovalGate`, `DeadLetterShape`, `ReplayRetiresSource`, `ImplementsLease`, `ClaimedRunSettles`, `QueuedRunFinishes` |
| `QueueAdmission` | `CooldownKept`, `AutonomousFindsIdle`, `OvershootBounded`, `HourlyRate` |
| `QueueService`, `Counterstrike` | `PauseFollowsFailures`, `ReplaysOnce`, `QueueIsServed`, `OneScript` |
| `IncidentEngine` | `TypeOK`, `LifecycleTrail`, `OpenHasTimer`, `EscalationsNumbered`, `EscalationsPaced`, `NoSecondTurn` |
| `HostKeys`, `HostTelemetry` | `SuccessorIsNewer`, `HostKeepsKey`, `RepeatsBounded`, `OpenRowsBounded`, `LedgerFollowsSnapshot`, `IgnoreOutlivesSnapshots` |
| `FleetRollout` | `PlanIsSound`, `RolloutWithinRadius`, `EditsKeepTheRest` |
| `Billing`, `HostQuota` | `EntitlementIsCurrent`, `RowsAgree`, `MarkerIsTrue`, `HostsWithinPeak`, `EventsReachUser` |

Each is stated in words above its definition. Every one is broken by a mutant
of a mapped definition (defined beside it, marked "Mutant"), so none holds by
the shape of the model.

Others are stated and in no run. The type invariants of the newer modules,
`CountIsExact`, `KeyIsImmutable`, `ManualRowsUntouched`, `StaleBeforeMissing`, `DryRunFirst`,
`CallHasCustomer`, `DecisionsHitQueuedRuns` and `PublishedIsDated` are proved;
`TerminalIsFinal` is
part of what `RunLease` says. `BacklogLimit`, `OneRunningPerAction`,
`ReplayFindsTargetIdle`, `DeadLetterIsEarned` and `EscalatesOnlyDue` say what
one would like and the code does not guarantee (section 6).

**Callers.** `SerialSpec` restricts the operators of the queue: one decision in
flight per pending run. The code does not enforce this; `ExclusiveClaim`,
`TerminalIsFinal`, `DecisionsHitQueuedRuns` and `ImplementsLease` need it, and
so do `AttemptBudget`, `AttemptsRecorded`, `RollbackEndsRun`,
`DeadLetterShape`, `ReplayRetiresSource` and `BackoffRespected` where there are
operators, since a decision writes back the whole payload: with two decisions
on one run TLC finds each of them violated. (For `ApprovalGate` it finds no
such behaviour; the proof is for `SerialSpec` all the same.)
`EscalationsPaced` is about one sweep at a time, `AutonomousFindsIdle` about
one call of admission or replay at a time. `CooldownKept`, `HourlyRate` and
`OvershootBounded` state their bound for both cases. They are about the runs
that are no replays, and about replays they say what the code guarantees, one
active run per call and action. Everything else
holds for overlapping callers; where overlap does harm, the property says how
much (`OvershootBounded`, `RepeatsBounded`, `OpenRowsBounded`,
`HostsWithinPeak`) or names the overlap that excuses it (`RowsAgree`,
`EntitlementIsCurrent`, `EditsKeepTheRest`, `RolloutWithinRadius`,
`LedgerFollowsSnapshot`, `OneScript`).

## 4. Fairness

* `WF(WorkerStep(w))` in `RemediationQueue`: `scripts/ops-worker.mjs` calls the
  drain in an endless loop and backs off on errors, so a drain that is under
  way continues and is followed by another. `Crash` has no fairness.
* `ServiceFairness` makes that assumption smaller: the worker's own steps (the
  service unit restarts it), the server's return, the continuation of a call
  under way, and the time of a retry. That the worker calls again after every
  failure is then a result (`QueueIsServed`).
* `WF(HookStep(h))` in `Billing`: Stripe delivers an event until it is answered
  (the webhook answers 500 to be called again, `webhook/route.ts:206`), and a
  request that does not fail goes on.
* `WF(Tick)` in `RemediationQueue`: time passes.
* Operators, admission, replays, agents and checkouts are never required to
  act. No failure has fairness. Nothing schedules the escalation sweep, so
  `IncidentEngine` assumes no fairness; that no incident is starved is said by
  `NoSecondTurn`, of the sweeps that do run.

## 5. Proofs

The proofs hold for any number of rows, processes, severities and attempts, and
any times. They assume the named assumptions on the constants
(`QueueAssumption`, `IncidentAssumption`, `AdmissionAssumption`,
`KeysAssumption`, `TelemetryAssumption`, `QuotaAssumption`,
`BillingAssumption`, `StrikeAssumption`, `FleetAssumption`,
`ServiceAssumption`, `PausesAssumption`: types, finiteness and what the code
clamps), which TLC evaluates in the runs. Two more are about the model's own
bounds: `PowerAssumption` says what the powers of two are, and
`MaxFailsAssumption` that failures are counted until the pause is at its
longest. Theorems about restricted callers name the restriction
(`SerialSpec`, `Serial`, `OneSweep`).

**RemediationQueueProofs.**
`TypeCorrect` (`Spec => []TypeOK`) is by `TypeInv`: `TypeOK` and that a handler
past its first read names a row (`CallsOK`), without which a write by id would
leave the table's domain.
`ClaimsExclusive` (`SerialSpec => []ExclusiveClaim`) needs `ClaimInv`:
every run a drain holds is running (`WorkerSafe`), no two drains share one
(`NoSharedRun`), a pending decision is about a run that is queued and blocked
(`DecisionSafe`), a replay's source is not active (`SourceSafe`). The claim
alone is not inductive: an approval written late, or a replay that retired an
active row, would break it, and `DecisionSafe` is what `SerialReviews` buys.
`SerialDecisionsHitQueuedRuns` follows from the same invariant.

**RemediationLeaseProofs.**
`AttemptsBounded` and `AttemptsCounted` (`AttemptBudget`, `AttemptsRecorded`
under `SerialSpec`) are by `AttemptInv`, which ties four copies of the count to
the number of starts: the row's, the one in the hands of the drain that holds
it (one behind while commands run), the one a pending decision will write back,
and the one a pending replay will retire its source with. That the last two are
never stale is what `ClaimInv` gives: a decision's run stays queued, a replay's
source stays finished. A queued row has an attempt left, which is why a claim
needs no test of its own.
`LeaseImplemented` (`SerialSpec => ImplementsLease`) maps every step to one of
`RunLease` or to a stutter. It uses `ClaimInv` for the holder, `AttemptInv` for
the guard of `Try`, and `SourceInv`: a replay's source has since at most been
canceled, so that retiring it closes a failed run and nothing else.
Five more theorems are about what a run goes through. Each has an invariant
that says of every place where the run's payload is held (the row, the drain,
a pending decision, a pending replay) what the row alone cannot say while
somebody is between a read and a write. All rest on `ClaimInv`, and a step's
effect on everybody but its actor is one lemma (`Undisturbed`).

* `RollbackIsLast` (`RollbackEndsRun`) by `UndoInv`: a rollback that was run is
  on the books of a run its drain is about to report as failed, or has. Without
  the drain's part a run could be undone and put back for another attempt.
* `DeadLettersAreFailures` (`DeadLetterShape`) by `FlagInv`: the flag travels
  with the state it is written with. What a decision carries has no flag,
  because its run was blocked and queued when it was read.
* `ApprovalIsRespected` (`ApprovalGate`) by `GateInv`: the verdict a drain
  writes back and a replay copies is still the row's, and "approved" appears
  only after a decision about the run the replays go back to.
* `ReplayedLettersLeave` (`ReplayRetiresSource`) by `TraceInv`: every payload
  names as its source a run that is over for good (`Settled`). It holds because
  the code retires the source and inserts the replay in one transaction, and
  `ClaimInv` keeps the source from being active in between.
* `RetriesWait` (`BackoffRespected`, a property of steps) by `DelayInv`: what
  waits for a retry is not due before the last start plus the back-off of that
  attempt (`NotBefore`), and a drain remembers the instant of the start it
  counts from.

**QueueAdmissionProofs.**
`DryRunAlwaysFirst` needs no assumption on callers: what a call has found by
its last read is still in the table when it inserts (`DryRunInv`), because dry
runs are never changed. `OneCall` says that under `Serial` at most one call is
under way; only `AutonomousAlwaysFindsIdle` assumes that, by `IdleInv`: what
the call has found idle stays so, since drains and decisions end runs and queue
none again.
The other three hold with and without overlap, by one kind of invariant: the
rows a limit is about, *plus* what the calls past the check may still add, stay
within the bound. `LedgerInv` says it of the backlog and of any hour, where an
execute call stands for one run and an autonomous call for what its cycle and
its own counts still let it insert; `CoolInv` of the cool-down. A call that is
still to make its last check adds nothing, and when it passes, the check itself
gives the bound. That only admitted rows are bounded is what lets replays
through: they raise the counts the checks read, and so refuse more than before.
`ReplayLedger` bounds the active replays of an action by the calls: one past
its count leaves no other active run of the action, apart from what calls that
counted earlier add.

**IncidentEngineProofs.**
`TypeCorrect`, `TrailAgrees`, `OpenAlwaysTimed` and `PublicationDated` are by
`RowInv`, a property of one row: every operation writes a row that satisfies it
if it read one, and an escalation does so whatever row it finds, since it
changes neither the state nor the dates of the trail. No assumption on sweeps
is needed.
`NumbersHaveNoGap` (`EscalationsNumbered`) and `NobodyIsPassedOver`
(`NoSecondTurn`) hold for any number of sweeps, by `TurnInv`. A count a sweep
remembers has been used as a number before, or is 0 (`Known`), so that it
writes one of the numbers there are, or the next; and an open incident's next
escalation is after its last (`Timed`), so that an order by the next one never
takes an incident that had its turn since another fell due.
`CountedWithOneSweep` and `PacedWithOneSweep` assume one sweep (`OneSweep`) and
use `PaceInv`: what a sweep remembers of a due incident is still so (`Fresh`),
and an open incident waits at least the interval (`Paced`). The steps that
escalate nothing are collected in `Calm`, so that only the sweep's own steps
are argued one by one.

**HostTelemetryProofs.**
`SuccessorAlwaysNewer`, `KeysImmutable` and `HostAlwaysKeepsKey` are by
`KeysInv`: a rotation that has read the versions carries one above its source
(`AdminOk`), and every key is above the one it came from (`Lineage`).
`StaleAlwaysBeforeMissing` needs types only. `ManualRowsNeverTouched` is by
`OwnRows`: what an ingest has decided to write concerns its own kind of rows.
`OpenRowsAlwaysBounded` and `RepeatsAlwaysBounded` are counting arguments: the
open rows of a signal plus the ingests that will still create one
(`OpenInv`), and the run of equal snapshots at the end of the table plus the
ingests that will still append it (`RepeatInv`), never exceed the number of
ingests. `LedgerAlwaysFollowsSnapshot` and `IgnoreAlwaysOutlivesSnapshots` use
`AloneInv`: an ingest that has been alone since it read the ledger has planned
what its snapshot calls for, as the ledger is now.

**BillingProofs.**
`MarkerAlwaysTrue` is by `SubInv` (types, only born subscriptions are named
anywhere, a marking under way names a subscription that ends, unless it was
taken back since, and a marked user one that ends or whose event is still to
come).
`CallsHaveCustomer` is by `CallInv`, `HostsBounded` by `HostInv` (hosts plus
creations past their count). `EntitlementCurrent` needs to know of every event
and every request how old its copy of a subscription is: `SnapshotInv` says
that copies are versions that were true, `DueInv` that the newest version is
either applied or still to come. `RowsAlwaysAgree` is by `RowsInv`: row and
user agree, or a request is between its two writes, or its event is still
pending.

**FleetRolloutProofs.**
`PlanAlwaysSound` (`PlanIsSound`) needs types and nothing else of the state:
the plan is right for any rows, priorities, limits and order of contact. It
goes along the chain. A total order on a finite set gives every member a place
of its own, so `Sorted` is a sequence of the set in that order
(`SortedProperties`). The caps are a recursive function, over which the
library's induction theorem cannot be used; `IntervalInduction` replaces it: a
*set* of numbers that has 0 and with each its successor has the whole interval,
because the least number missing would have a predecessor in it (`WFMin` over
`<`). With it the function is shown to exist, and `Fits`, which says what the
first hosts leave accepted and for which cap the others were left out, to hold
at every prefix (`SafeguardsFit`). `chunk` is shown to partition a sequence
(`ChunksPartition`), and two such partitions of disjoint sets to make one
(`ConcatPartition`); the first wave comes whole before the second, which is
`CanariesFirst`.
`RolloutStaysWithinRadius` (`RolloutWithinRadius`) is by `RadiusInv`: what was
reached for a selector, and what a call whose plan still stands has yet to
reach, are hosts the plan accepts *now*. The part about the calls is what makes
it inductive, and `AcceptedStands` is why it survives: a plan depends on the
rows, and on contacts only between hosts of equal priority (`PlansStand`); any
other step resets the history.
`EditsKeep` (`EditsKeepTheRest`, a property of steps) is by `EditInv`: an edit
has one write for each of its hosts, and the document it will write is the one
the host has now with the patch applied, unless the host was written since.

**QueueServiceProofs.**
`ServiceTypes`, `NoReplayOfReplays` (`ReplaysOnce`) and `PausesDouble`
(`PauseFollowsFailures`). `ServiceInv` has what each caller is at: the run it
works on is leased to it, what it has listed is a row that exists and not one
of its own making (`CallOK`), and what it has replayed and has still to replay
together stay within its cap and within what was there when it began
(`RecordOK`). The last is a bound on a sum, since the replays come one by one
and other callers take from the list meanwhile. The queue's own steps are those
of `RunLease`. `PauseInv` adds to the pause under way the one before it, which
is what the worker sleeps after a failure: the back-off is doubled when it is
used.
`OneScriptUnlessBlind`, about `Counterstrike`, is by `StrikeInv` and
`LoneScript`: unless a check was blind, a script that runs or is about to be
started is the only one.

**Only model-checked**: liveness (`ClaimedRunSettles`, `QueuedRunFinishes`,
`EventsReachUser`, `QueueIsServed`), since fairness is out of
the prover's reach. Every invariant and every property of steps that a run
checks is proved, and so is the refinement of `RunLease`. What the proofs of
the queue leave open is a plain `Spec` with operators who overlap on one run:
they are for `SerialSpec`, and without it most of the properties fail
(section 3).

## 6. What the code does not guarantee

Found while modelling. The properties are stated so as to exclude these cases
or to bound their damage.

Queue:

* Two decisions on one run: the second may be written after a drain has claimed
  it, so a running run is queued again and claimed by another drain
  (`DecisionsHitQueuedRuns`).
* Two replay calls count no active run and both create one
  (`ReplayFindsTargetIdle`). A batch replays a source that another call has
  replayed since it listed it.
* A replay inherits the rollback record of its source and is dead-lettered at
  its first failure (`DeadLetterIsEarned`).
* Runs waiting for approval can fill the window of 80 rows, and no later run is
  claimed. A drain that dies leaves its run running for ever.
* A payload that does not parse fails outside the dead-letter queue
  (`queue.ts:476`).
* Overlapping admissions exceed the backlog (`BacklogLimit`), and two runs of
  one action can be queued and then run at once (`OneRunningPerAction`). The
  second needs no overlap: the execute route refuses an action that runs, and
  not one that has waited in the queue past the cool-down.
* A replay meets no limit (`queue.ts:1112`). A batch adds up to 50 runs at once,
  one for each idle action of each host, beyond the backlog and the rate, and a
  replay does not wait for its action's cool-down.
* A decision written late queues a run again that has ended, outside admission.

Incidents:

* An incident acknowledged after a sweep's read is escalated
  (`EscalatesOnlyDue`). Two overlapping sweeps announce one number twice, and
  the count may go back to what the later writer had read.
* A workflow step is recorded after its incident was closed
  (`incident-engine.ts:1381`).

Fleet:

* A contact between two stages changes the order of hosts with equal priority,
  and two requests may differ in their limits; the stages together then reach
  more than `maxHosts`. A host paused after the plan was read is still queued.

Billing:

* A `BASIC` purchase resolves to `PRO`, the default for what the webhook does not
  know, and the plan in the metadata wins over a later change of the price.
* The end of one subscription overwrites what another one grants. Events out of
  order leave the older state.
* An event for a customer the user no longer names is answered 200 and lost.
* A customer who renews in the portal stays marked `CANCEL_AT_PERIOD_END` until
  the webhook comes; for good, if the webhook is handled between the two writes
  of the cancel call, or the event finds no user (`MarkerIsTrue` excuses these
  three). The marker also puts the id of the subscription it read back on the
  user when a webhook has named another one meanwhile; plan and limit stay those
  of the other.
* Two concurrent checkouts create two customers. The cancellation marker is
  overwritten by the next webhook. A delivery that fails half way leaves row
  and user apart until it is repeated.

## 7. Not modelled, and the plan

| Part | Why |
|---|---|
| Dashboard | rendering, polling and formatting of what the other parts store; the larger half of the source lines |
| Clamps of policies | `policy.ts` and `host-policy.ts` read numbers within ranges; the modules take any legal value as a constant. The guard is a yes or no in the queue's `Load` |
| Command runner | external effects; the queue lets commands succeed or fail in every way |
| Workflow catalogue and executor | the catalogue is data; a step is an action of the incident module that takes time, and what it calls (drain, replay) is in `QueueService` |
| Escalation endpoint | looks for a model the schema does not have and always answers that none is available |
| Notifications | delivery to mail servers and webhooks is I/O |
| Incident signals and posture | scores and wording over one snapshot |
| Observability and SLO | counters, logs and rates that nothing decides on but alerts |
| Access control | a role lookup per request |
| Remaining operator routes, support bundle, audit log | one external command or read-only export each; append-only rows |
| Deployment, backup and drill scripts | shell around ssh, tar and curl |

Three hazards have no property: the legacy payload of `queue.ts:476`, which
cannot be told from other failed rows; the step of `incident-engine.ts:1381`,
whose late record changes no state; and the second run of one action that
`route.ts:551` lets in, which the code does not prevent
(`OneRunningPerAction`).

The mapped definitions cover about 5,900 of the 47,900 source lines. Most of
the rest is the dashboard's pages and formatting, which have no state that a
specification would say anything about.

What is left to do, the most useful first:

1. The longer operator routes: `api/ops/report-now` and
   `api/ops/baseline-accept` (trigger, scan, poll a file the agent rewrites), and
   `api/ops/contain-runtime-ioc` (stop, then quarantine by a process id from an
   older snapshot).
2. The rate limiter of `src/proxy.ts` (a fixed window per key and its sweep).
3. Burn rates of `lib/slo.ts` as functions over bounded inputs.
