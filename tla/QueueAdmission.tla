--------------------------- MODULE QueueAdmission ---------------------------
(***************************************************************************)
(* The three ways runs get into the remediation queue: the execute mode of *)
(* POST /api/remediate, called by an operator for one action of one host,  *)
(* the autonomous queueing (autonomous-runtime.ts) that a status ingest or *)
(* a fleet rollout starts for a whole host, and the replay of a run that   *)
(* has ended, or of a batch of dead letters (queue.ts).                    *)
(*                                                                         *)
(* The first two read what the table holds, compare it with the policy's   *)
(* limits and insert much later. The route's reads run in parallel, so     *)
(* each is an action here and they come in any order. The autonomous call  *)
(* reads four counts once and keeps its own copies of them while it        *)
(* inserts. A replay looks for an active run of the action and for nothing *)
(* else: no limit and no cooldown holds it back, although the run it adds  *)
(* is counted by every later check. What the limits promise is therefore   *)
(* said of the admitted runs, those that are no replays; what replays add  *)
(* is bounded by itself.                                                   *)
(*                                                                         *)
(* What the drains do to a row is reduced to its state changes; the module *)
(* RemediationQueue has their detail. An operator's decision is read and   *)
(* written in one step here: one that is written late may queue a run      *)
(* again that has ended (see RemediationQueue). Checks of the call's own   *)
(* input (role of the caller, unknown action, confirmation phrase, command *)
(* guard, canary bucket) only decide that no call is made or an action is  *)
(* passed over.                                                            *)
(***************************************************************************)
EXTENDS Integers, FiniteSets

CONSTANTS
  Runs,        \* ids of rows of RemediationRun
  Hosts,
  Acts,        \* catalogued actions, all in every host's plan
  Tier,        \* the autoTier of each action
  Risk,        \* the risk of each action
  MaxTier,     \* policy.autonomousMaxTier
  Threshold,   \* policy.approvalRiskThreshold
  Operators,   \* concurrent execute calls
  Sweeps,      \* concurrent autonomous calls
  Replays,     \* concurrent replay calls
  Batch,       \* the most dead letters a replay call takes
  MaxHost,     \* policy.maxQueuePerHost
  MaxTotal,    \* policy.maxQueueTotal
  MaxHour,     \* policy.maxExecutePerHour
  MaxAutoHour, \* policy.autonomousMaxQueuedPerHour
  Cycle,       \* policy.autonomousMaxQueuedPerCycle
  Hour,        \* length of an hour
  Cooldown,    \* policy.executeCooldownMinutes, none when 0
  DryRunAge,   \* policy.dryRunMaxAgeMinutes
  Serial,      \* calls do not overlap
  MaxTime,     \* bound: the clock stops here
  None         \* no host, no action, no run

(* The orders of tiers and of risks.                                        *)
TierRank == [observe |-> 0, safe_auto |-> 1, guarded_auto |-> 2, risky_manual |-> 3]
RiskRank == [low |-> 0, medium |-> 1, high |-> 2]

ASSUME AdmissionAssumption ==
  /\ Tier \in [Acts -> DOMAIN TierRank] /\ MaxTier \in DOMAIN TierRank
  /\ Risk \in [Acts -> DOMAIN RiskRank] /\ Threshold \in DOMAIN RiskRank \cup {"none"}
  /\ Hosts # {} /\ Acts # {}
  /\ IsFiniteSet(Runs) /\ IsFiniteSet(Operators)
  /\ IsFiniteSet(Sweeps) /\ IsFiniteSet(Replays)
  /\ {Batch, MaxHost, MaxTotal, MaxHour, MaxAutoHour, Cycle, Hour} \subseteq Nat \ {0}
  /\ {Cooldown, DryRunAge, MaxTime} \subseteq Nat
  /\ None \notin Hosts \cup Acts \cup Runs

VARIABLES
  run,  \* the table
  op,   \* the execute calls
  sw,   \* the autonomous calls
  rp,   \* the replay calls
  now

vars == <<run, op, sw, rp, now>>

-----------------------------------------------------------------------------
(* Rows                                                                     *)

Kinds  == {"dry-run", "execute", "auto"}
States == {"absent", "queued", "running", "succeeded", "failed", "canceled"}
Active == {"queued", "running"}

(* held: the payload's approval is required and not given. replay: the      *)
(* payload names a run it is a replay of.                                   *)
Row == [state : States, kind : Kinds, host : Hosts, act : Acts,
        at : Nat, held : BOOLEAN, replay : BOOLEAN]

Free == {r \in Runs : run[r].state = "absent"}

Insert(state, kind, h, a, held) ==
  \E r \in Free :
    run' = [run EXCEPT ![r] = [state |-> state, kind |-> kind, host |-> h, act |-> a,
                               at |-> now, held |-> held, replay |-> FALSE]]

(* The rows that match paramsJson contains "mode":"execute".                *)
Executes == {r \in Runs : run[r].state # "absent" /\ run[r].kind # "dry-run"}

Within(t, age) == now - t <= age

OnHost(h)      == {r \in Executes : run[r].host = h}
ActiveOn(h)    == {r \in OnHost(h) : run[r].state \in Active}
LastHour(h)    == {r \in OnHost(h) : Within(run[r].at, Hour)}
AutoLastHour(h) == {r \in LastHour(h) : run[r].kind = "auto"}
Queued         == {r \in Executes : run[r].state = "queued"}
OfAction(h, a) == {r \in OnHost(h) : run[r].act = a}

(* Mutant: only a run that has ended counts.                                *)
EndedRecently(h, a) ==
  \E r \in OfAction(h, a) : run[r].state \notin Active /\ Within(run[r].at, Cooldown)

CoolingDown(h, a) ==
  Cooldown > 0 /\ \E r \in OfAction(h, a) : Within(run[r].at, Cooldown)

DryRuns(h, a) ==
  {r \in Runs : /\ run[r].state = "succeeded" /\ run[r].kind = "dry-run"
                /\ run[r].host = h /\ run[r].act = a}

-----------------------------------------------------------------------------
(* Calls                                                                    *)

Reads == {"running", "hour", "cooldown", "host", "total"}

IdleOperator == [pc |-> "idle", host |-> None, act |-> None, left |-> {}]

OperatorState == [pc : {"idle", "check", "insert"}, host : Hosts \cup {None},
                  act : Acts \cup {None}, left : SUBSET (Reads \cup {"dry-run"})]

(* The autonomous call's copies of the counts, 0 until they are read, and   *)
(* how many runs it has inserted.                                           *)
NoCounts == [host |-> 0, total |-> 0, hour |-> 0, auto |-> 0]

IdleSweep == [pc |-> "idle", host |-> None, left |-> {}, todo |-> {},
              act |-> None, count |-> NoCounts, made |-> 0]

SweepState == [pc : {"idle", "count", "next", "latest", "insert"},
               host : Hosts \cup {None}, left : SUBSET DOMAIN NoCounts,
               todo : SUBSET Acts, act : Acts \cup {None},
               count : [DOMAIN NoCounts -> Nat], made : Nat]

IdleReplay == [pc |-> "idle", todo |-> {}, source |-> None]

ReplayState == [pc : {"idle", "read", "count", "create"}, todo : SUBSET Runs,
                source : Runs \cup {None}]

TypeOK ==
  /\ run \in [Runs -> Row]
  /\ op \in [Operators -> OperatorState]
  /\ sw \in [Sweeps -> SweepState]
  /\ rp \in [Replays -> ReplayState]
  /\ now \in Nat

Init ==
  /\ run = [r \in Runs |-> [state |-> "absent", kind |-> "execute",
                            host |-> CHOOSE h \in Hosts : TRUE,
                            act |-> CHOOSE a \in Acts : TRUE,
                            at |-> 0, held |-> FALSE, replay |-> FALSE]]
  /\ op = [o \in Operators |-> IdleOperator]
  /\ sw = [s \in Sweeps |-> IdleSweep]
  /\ rp = [p \in Replays |-> IdleReplay]
  /\ now = 0

-----------------------------------------------------------------------------
(* The route                                                                *)

(* A dry run is recorded as a run that has succeeded.                       *)
DryRun(h, a) ==
  /\ Insert("succeeded", "dry-run", h, a, FALSE)
  /\ UNCHANGED <<op, sw, rp, now>>

(* The code lets calls overlap; what it gets wrong only then is stated for  *)
(* instances in which they do not.                                          *)
Calls == {o \in Operators : op[o].pc # "idle"} \cup {s \in Sweeps : sw[s].pc # "idle"}
           \cup {p \in Replays : rp[p].pc # "idle"}
MayBegin == Serial => Calls = {}

RequestExecute(o) ==
  /\ op[o].pc = "idle" /\ MayBegin
  /\ \E h \in Hosts, a \in Acts :
       op' = [op EXCEPT ![o] = [pc |-> "check", host |-> h, act |-> a, left |-> Reads]]
  /\ UNCHANGED <<run, sw, rp, now>>

(* What each of the reads lets through.                                     *)
Allows(c, h, a) ==
  \/ c = "running"  /\ ~\E r \in OfAction(h, a) : run[r].state = "running"
  \/ c = "hour"     /\ Cardinality(LastHour(h)) < MaxHour
  \/ c = "cooldown" /\ ~CoolingDown(h, a)
  \/ c = "host"     /\ Cardinality(ActiveOn(h)) < MaxHost
  \/ c = "total"    /\ Cardinality(Queued) < MaxTotal
  \/ c = "dry-run"  /\ \E r \in DryRuns(h, a) : Within(run[r].at, DryRunAge)

(* The five parallel reads; the dry run is looked for once all have passed. *)
Check(o, c) ==
  LET left == op[o].left \ {c}
  IN /\ op[o].pc = "check"
     /\ c \in op[o].left
     /\ op' = [op EXCEPT ![o] =
          IF ~Allows(c, op[o].host, op[o].act) THEN IdleOperator
          ELSE IF c = "dry-run" THEN [@ EXCEPT !.pc = "insert", !.left = {}]
          ELSE IF left = {} THEN [@ EXCEPT !.left = {"dry-run"}]
          ELSE [@ EXCEPT !.left = left]]
     /\ UNCHANGED <<run, sw, rp, now>>

Execute(o) ==
  /\ op[o].pc = "insert"
  /\ Insert("queued", "execute", op[o].host, op[o].act, FALSE)
  /\ op' = [op EXCEPT ![o] = IdleOperator]
  /\ UNCHANGED <<sw, rp, now>>

(* A database call throws.                                                  *)
AbandonExecute(o) ==
  /\ op[o].pc # "idle"
  /\ op' = [op EXCEPT ![o] = IdleOperator]
  /\ UNCHANGED <<run, sw, rp, now>>

-----------------------------------------------------------------------------
(* The autonomous call                                                      *)

StartSweep(s) ==
  /\ sw[s].pc = "idle" /\ MayBegin
  /\ \E h \in Hosts :
       sw' = [sw EXCEPT ![s] = [IdleSweep EXCEPT !.pc = "count", !.host = h,
                                  !.left = DOMAIN NoCounts, !.todo = Acts]]
  /\ UNCHANGED <<run, op, rp, now>>

Rows(c, h) ==
  CASE c = "host"  -> ActiveOn(h)
    [] c = "total" -> Queued
    [] c = "hour"  -> LastHour(h)
    [] c = "auto"  -> AutoLastHour(h)

Limit == [host |-> MaxHost, total |-> MaxTotal, hour |-> MaxHour, auto |-> MaxAutoHour]

(* All the loop does with a count is to compare it with its limit, so that  *)
(* one above it is as good as the limit.                                    *)
CountOf(c, h) ==
  LET n == Cardinality(Rows(c, h)) IN IF n < Limit[c] THEN n ELSE Limit[c]

Count(s, c) ==
  LET left == sw[s].left \ {c}
  IN /\ sw[s].pc = "count"
     /\ c \in sw[s].left
     /\ sw' = [sw EXCEPT ![s] =
          [@ EXCEPT !.count[c] = CountOf(c, sw[s].host), !.left = left,
                    !.pc = IF left = {} THEN "next" ELSE "count"]]
     /\ UNCHANGED <<run, op, rp, now>>

(* Mutant: the call looks at nothing but what it has queued itself.         *)
FullOfItsOwn(s) == sw[s].made >= Cycle

(* The limits compare the call's own counts; once one is reached every      *)
(* action that is left is passed over.                                      *)
Full(s) ==
  sw[s].made >= Cycle \/ \E c \in DOMAIN Limit : sw[s].count[c] >= Limit[c]

EndSweep(s) ==
  /\ sw[s].pc = "next"
  /\ Full(s) \/ sw[s].todo = {}
  /\ sw' = [sw EXCEPT ![s] = IdleSweep]
  /\ UNCHANGED <<run, op, rp, now>>

(* Mutant: only a running run counts as active.                             *)
BusyWhenRunning(h, a) == \E r \in OfAction(h, a) : run[r].state = "running"

Busy(h, a) == \E r \in OfAction(h, a) : run[r].state \in Active

isAutoExecutableTier(t) == t # "observe" /\ TierRank[t] <= TierRank[MaxTier]

(* One action of the plan is passed over for its tier, when the fresh count *)
(* finds an active run, or later for its guard or canary bucket.            *)
Consider(s, a) ==
  /\ sw[s].pc = "next" /\ ~Full(s)
  /\ a \in sw[s].todo
  /\ \/ sw' = [sw EXCEPT ![s].todo = @ \ {a}]
     \/ /\ isAutoExecutableTier(Tier[a])
        /\ ~Busy(sw[s].host, a)
        /\ sw' = [sw EXCEPT ![s] =
                    [@ EXCEPT !.pc = "latest", !.act = a, !.todo = sw[s].todo \ {a}]]
  /\ UNCHANGED <<run, op, rp, now>>

(* The latest run of the action is read by a second query.                  *)
CheckLatest(s) ==
  /\ sw[s].pc = "latest"
  /\ sw' = [sw EXCEPT ![s].pc =
              IF CoolingDown(sw[s].host, sw[s].act) THEN "next" ELSE "insert"]
  /\ UNCHANGED <<run, op, rp, now>>

(* The run just inserted is added to every count.                           *)
Counted(count) == [c \in DOMAIN count |-> count[c] + 1]

approvalRequired(a) ==
  \/ Tier[a] = "risky_manual"
  \/ Threshold # "none" /\ RiskRank[Risk[a]] >= RiskRank[Threshold]

QueueAutonomously(s) ==
  /\ sw[s].pc = "insert"
  /\ Insert("queued", "auto", sw[s].host, sw[s].act,
            approvalRequired(sw[s].act))
  /\ sw' = [sw EXCEPT ![s] =
              [@ EXCEPT !.pc = "next", !.act = None, !.made = sw[s].made + 1,
                        !.count = Counted(sw[s].count)]]
  /\ UNCHANGED <<op, rp, now>>

AbandonSweep(s) ==
  /\ sw[s].pc # "idle"
  /\ sw' = [sw EXCEPT ![s] = IdleSweep]
  /\ UNCHANGED <<run, op, rp, now>>

-----------------------------------------------------------------------------
(* The replay                                                               *)

(* One run the operator names, or a batch of dead letters, in any order.    *)
RequestReplay(p) ==
  /\ rp[p].pc = "idle" /\ MayBegin
  /\ \E T \in {{r} : r \in Executes}
              \cup {S \in SUBSET {r \in Executes : run[r].state = "failed"} :
                      S # {} /\ Cardinality(S) <= Batch} :
       rp' = [rp EXCEPT ![p] = [IdleReplay EXCEPT !.pc = "read", !.todo = T]]
  /\ UNCHANGED <<run, op, sw, now>>

(* A source that is active is passed over.                                  *)
ReadSource(p, r) ==
  /\ rp[p].pc = "read"
  /\ r \in rp[p].todo
  /\ rp' = [rp EXCEPT ![p] =
       IF run[r].state \in Active THEN [@ EXCEPT !.todo = rp[p].todo \ {r}]
       ELSE [pc |-> "count", todo |-> rp[p].todo \ {r}, source |-> r]]
  /\ UNCHANGED <<run, op, sw, now>>

NextSource(call) == [call EXCEPT !.pc = "read", !.source = None]

CountActive(p) ==
  LET source == run[rp[p].source]
  IN /\ rp[p].pc = "count"
     /\ rp' = [rp EXCEPT ![p] = IF Busy(source.host, source.act)
                                THEN NextSource(rp[p]) ELSE [@ EXCEPT !.pc = "create"]]
     /\ UNCHANGED <<run, op, sw, now>>

(* The replay copies the payload of its source; the transaction retires a   *)
(* source that is a dead letter, which a failed run may or may not be.      *)
CreateReplay(p) ==
  LET source  == rp[p].source
      row     == run[source]
      Endings == {row.state} \cup {e \in {"canceled"} : row.state = "failed"}
  IN /\ rp[p].pc = "create"
     /\ \E r \in Free, end \in Endings :
          run' = [run EXCEPT
            ![source].state = end,
            ![r] = [row EXCEPT !.state = "queued", !.at = now, !.replay = TRUE]]
     /\ rp' = [rp EXCEPT ![p] = NextSource(rp[p])]
     /\ UNCHANGED <<op, sw, now>>

EndReplay(p) ==
  /\ rp[p].pc = "read" /\ rp[p].todo = {}
  /\ rp' = [rp EXCEPT ![p] = IdleReplay]
  /\ UNCHANGED <<run, op, sw, now>>

AbandonReplay(p) ==
  /\ rp[p].pc # "idle"
  /\ rp' = [rp EXCEPT ![p] = IdleReplay]
  /\ UNCHANGED <<run, op, sw, now>>

-----------------------------------------------------------------------------
(* The rest of the system                                                   *)

(* An operator's decision, a claim, and what a drain makes of the claimed   *)
(* run.                                                                     *)
Approve(r) ==
  /\ run[r].state = "queued" /\ run[r].held
  /\ run' = [run EXCEPT ![r].held = FALSE]
  /\ UNCHANGED <<op, sw, rp, now>>

Reject(r) ==
  /\ run[r].state = "queued" /\ run[r].kind = "auto" /\ approvalRequired(run[r].act)
  /\ run' = [run EXCEPT ![r].state = "canceled", ![r].held = TRUE]
  /\ UNCHANGED <<op, sw, rp, now>>

Claim(r) ==
  /\ run[r].state = "queued" /\ run[r].kind # "dry-run" /\ ~run[r].held
  /\ run' = [run EXCEPT ![r].state = "running"]
  /\ UNCHANGED <<op, sw, rp, now>>

Settle(r) ==
  /\ run[r].state = "running"
  /\ \E to \in {"queued", "succeeded", "failed", "canceled"} :
       run' = [run EXCEPT ![r].state = to]
  /\ UNCHANGED <<op, sw, rp, now>>

Tick ==
  /\ now < MaxTime
  /\ now' = now + 1
  /\ UNCHANGED <<run, op, sw, rp>>

OperatorStep(o) ==
  RequestExecute(o) \/ (\E c \in op[o].left : Check(o, c)) \/ Execute(o) \/ AbandonExecute(o)

SweepStep(s) ==
  \/ StartSweep(s) \/ (\E c \in sw[s].left : Count(s, c)) \/ EndSweep(s)
  \/ (\E a \in sw[s].todo : Consider(s, a)) \/ CheckLatest(s) \/ QueueAutonomously(s)
  \/ AbandonSweep(s)

ReplayStep(p) ==
  \/ RequestReplay(p) \/ (\E r \in rp[p].todo : ReadSource(p, r)) \/ CountActive(p)
  \/ CreateReplay(p) \/ EndReplay(p) \/ AbandonReplay(p)

Next ==
  \/ \E h \in Hosts, a \in Acts : DryRun(h, a)
  \/ \E o \in Operators : OperatorStep(o)
  \/ \E s \in Sweeps : SweepStep(s)
  \/ \E p \in Replays : ReplayStep(p)
  \/ \E r \in Runs : Approve(r) \/ Reject(r) \/ Claim(r) \/ Settle(r)
  \/ Tick

Spec == Init /\ [][Next]_vars

-----------------------------------------------------------------------------
(* Properties                                                               *)

(* What the limits are promised for: the runs that are no replays.          *)
Admitted(h) == {r \in OnHost(h) : ~run[r].replay}

(* How far calls that overlap may together exceed a limit each of them      *)
(* keeps when it is alone: all of them pass a check none of them would pass *)
(* last. That is one run per other execute call, a cycle per autonomous one.*)
Slack == IF Serial THEN 0 ELSE Cardinality(Operators) + Cycle * Cardinality(Sweeps) - 1

(* The backlog. Of the admitted runs of a host no more are active than the  *)
(* limit and the slack allow, however calls, replays and drains interleave; *)
(* replays come on top, unlimited by anything but the look for an active    *)
(* run of the action, so that each action has at most one per call.         *)
OvershootBounded ==
  \A h \in Hosts :
    /\ Cardinality(Admitted(h) \cap ActiveOn(h)) <= MaxHost + Slack
    /\ \A a \in Acts :
         Cardinality({r \in ActiveOn(h) \cap OfAction(h, a) : run[r].replay})
           <= Cardinality(Replays)

(* Every run an operator has queued was preceded by a dry run of the same   *)
(* action on the same host, whatever other calls did in between.            *)
DryRunFirst ==
  \A r \in Executes : run[r].kind = "execute" =>
    \E d \in DryRuns(run[r].host, run[r].act) : run[d].at <= run[r].at

(* The rate. No hour, wherever it begins, sees more runs admitted for a     *)
(* host than the limit and the slack allow. Replays are outside: they are   *)
(* counted by the check but never refused by it.                            *)
HourlyRate ==
  \A h \in Hosts, t \in 0..MaxTime :
    Cardinality({r \in Admitted(h) : run[r].at \in t..(t + Hour)}) <= MaxHour + Slack

(* The cooldown. Calls one at a time admit one run of an action in any      *)
(* stretch of its length, in whichever of the two ways; calls that overlap, *)
(* no more than there are calls to pass the check together. Replays are     *)
(* again outside: they start the cooldown of others and wait for none.      *)
CooldownKept ==
  Cooldown > 0 => \A h \in Hosts, a \in Acts, t \in 0..MaxTime :
    Cardinality({r \in Admitted(h) \cap OfAction(h, a) : run[r].at \in t..(t + Cooldown)})
      <= IF Serial THEN 1 ELSE Cardinality(Operators) + Cardinality(Sweeps)

(* Calls one at a time never queue an action autonomously while a run of it *)
(* is active, nor do they replay a run that was queued that way, although   *)
(* drains, decisions and the call's own inserts go on meanwhile.            *)
AutonomousFindsIdle ==
  [][\A r \in Runs : run[r].state = "absent" /\ run'[r].kind = "auto"
        => ~Busy(run'[r].host, run'[r].act)]_vars

(* route.ts:629, "Queue backlog limit reached for host": a host's backlog   *)
(* does not exceed the limit.                                               *)
BacklogLimit == \A h \in Hosts : Cardinality(ActiveOn(h)) <= MaxHost

(* route.ts:592, "An execute run is already in progress for this action":   *)
(* one action never runs twice at a time on one host.                       *)
OneRunningPerAction ==
  \A r, q \in Executes :
    /\ run[r].state = "running" /\ run[q].state = "running"
    /\ run[r].host = run[q].host /\ run[r].act = run[q].act
    => r = q
=============================================================================
