--------------------------- MODULE IncidentEngine ---------------------------
(***************************************************************************)
(* The incident workflow engine (lib/ops/incident-engine.ts): incidents    *)
(* opened by operators, moved through their lifecycle, escalated by sweeps *)
(* while nobody acknowledges them, and worked on step by step.             *)
(*                                                                         *)
(* Every lifecycle operation reads the row, checks its state and updates   *)
(* it in one interactive transaction: one action. Two handlers are longer. *)
(* A sweep reads the due incidents once, outside any transaction, and then *)
(* escalates them one transaction each, by id, with the count it read. A   *)
(* workflow step checks the incident's state, runs (it may drain the       *)
(* remediation queue), and then appends its event.                         *)
(*                                                                         *)
(* A column that is null is 0: every time the engine stores is at least    *)
(* one minute after the clock's start. Transactions are serialisable, as   *)
(* they are on the SQLite database the application runs on.                *)
(***************************************************************************)
EXTENDS Integers, FiniteSets, FiniteSetsExt

CONSTANTS
  Incidents,    \* ids of rows of IncidentWorkflowRun
  Severities,
  Users,
  Sweeps,       \* concurrent calls of runIncidentEscalationSweep
  Steps,        \* concurrent calls of executeIncidentWorkflowStep
  AckMinutes,   \* per severity: minutes to acknowledge an incident
  EscMinutes,   \* per severity: minutes between escalations
  Custom,       \* minutes an operator may ask for instead, when creating
  Limit,        \* incidents one sweep takes
  MaxTime,      \* bound: the clock stops here
  MaxCalls,     \* bound: operator calls
  MaxAborts,    \* bound: sweeps that stop half way
  Nobody

ASSUME IncidentAssumption ==
  /\ Severities # {}
  /\ AckMinutes \in [Severities -> Nat \ {0}]
  /\ EscMinutes \in [Severities -> Nat \ {0}]
  /\ Custom \subseteq Nat \ {0}
  /\ Limit \in Nat \ {0}
  /\ {MaxTime, MaxCalls, MaxAborts} \subseteq Nat
  /\ Nobody \notin Users

VARIABLES
  inc,      \* the table; inc[i].state is "absent" until the incident exists
  timeline, \* events of each incident, counted by kind
  numbered, \* the numbers in the messages "Escalation #n" of the timeline
  sw,       \* the sweeps
  st,       \* the workflow steps
  now,
  calls,    \* operator calls so far
  aborts    \* sweeps that stopped half way so far

vars == <<inc, timeline, numbered, sw, st, now, calls, aborts>>

States      == {"absent", "open", "acknowledged", "resolved", "closed"}
Postmortems == {"not_started", "draft", "published", "waived"}
Kinds       == {"lifecycle", "note", "step", "escalated"}

Row == [state : States, severity : Severities, assignee : Users \cup {Nobody},
        acknowledgedAt : Nat, resolvedAt : Nat, closedAt : Nat,
        ackDueAt : Nat, escalatedAt : Nat, escalationCount : Nat,
        nextEscalationAt : Nat, postmortem : Postmortems, publishedAt : Nat]

NewRow(sev, user) ==
  [state |-> "open", severity |-> sev, assignee |-> user,
   acknowledgedAt |-> 0, resolvedAt |-> 0, closedAt |-> 0,
   ackDueAt |-> 0, escalatedAt |-> 0, escalationCount |-> 0,
   nextEscalationAt |-> 0, postmortem |-> "not_started", publishedAt |-> 0]

(* What a sweep remembers of a due incident.                                *)
Due == [id : Incidents, count : Nat]

IdleSweep == [pc |-> "idle", at |-> 0, todo |-> {}]
IdleStep  == [pc |-> "idle", id |-> Nobody]

TypeOK ==
  /\ inc \in [Incidents -> Row]
  /\ timeline \in [Incidents -> [Kinds -> Nat]]
  /\ numbered \in [Incidents -> SUBSET Nat]
  /\ sw \in [Sweeps -> [pc : {"idle", "escalate"}, at : Nat, todo : SUBSET Due]]
  /\ st \in [Steps -> [pc : {"idle", "running"}, id : Incidents \cup {Nobody}]]
  /\ now \in Nat /\ calls \in Nat /\ aborts \in Nat

Init ==
  /\ inc = [i \in Incidents |->
              [NewRow(CHOOSE sev \in Severities : TRUE, Nobody) EXCEPT !.state = "absent"]]
  /\ timeline = [i \in Incidents |-> [k \in Kinds |-> 0]]
  /\ numbered = [i \in Incidents |-> {}]
  /\ sw = [s \in Sweeps |-> IdleSweep]
  /\ st = [p \in Steps |-> IdleStep]
  /\ now = 1 /\ calls = 0 /\ aborts = 0

-----------------------------------------------------------------------------
(* Operator calls                                                           *)

canRunIncidentAction(state, action) ==
  CASE action \in {"assign", "note", "postmortem", "step"} -> state # "closed"
    [] action = "acknowledge" -> state \in {"open", "acknowledged"}
    [] action = "resolve"     -> state \in {"open", "acknowledged", "resolved"}
    [] action = "close"       -> state \in {"resolved", "closed"}
    [] action = "reopen"      -> state # "open"

Exists(i) == inc[i].state # "absent"

Appended(i, kind) == [timeline EXCEPT ![i][kind] = @ + 1]

(* One transaction of an operator: the row becomes new, one event of the    *)
(* given kind is appended.                                                  *)
Operate(i, action, new, kind) ==
  /\ calls < MaxCalls
  /\ Exists(i)
  /\ canRunIncidentAction(inc[i].state, action)
  /\ inc' = [inc EXCEPT ![i] = new]
  /\ timeline' = Appended(i, kind)
  /\ calls' = calls + 1
  /\ UNCHANGED <<numbered, sw, st, now, aborts>>

(* Mutant: the deadline alone is set.                                       *)
WithDeadline(row, ack, esc) == [row EXCEPT !.ackDueAt = now + ack]

(* computeIncidentTimers.                                                   *)
WithTimers(row, ack, esc) ==
  [row EXCEPT !.ackDueAt = now + ack, !.nextEscalationAt = now + ack + esc]

Create(i, sev, user, ack, esc) ==
  /\ calls < MaxCalls
  /\ ~Exists(i)
  /\ inc' = [inc EXCEPT ![i] = WithTimers(NewRow(sev, user), ack, esc)]
  /\ timeline' = Appended(i, "lifecycle")
  /\ calls' = calls + 1
  /\ UNCHANGED <<numbered, sw, st, now, aborts>>

Assign(i, user) == Operate(i, "assign", [inc[i] EXCEPT !.assignee = user], "note")

Note(i) == Operate(i, "note", inc[i], "note")

Acknowledge(i) ==
  Operate(i, "acknowledge",
    [inc[i] EXCEPT !.state = "acknowledged", !.acknowledgedAt = now,
                   !.nextEscalationAt = 0], "lifecycle")

(* Mutant: resolving writes a status the schema does not know.              *)
MisnamedDraft(postmortem) == IF postmortem = "not_started" THEN "drafted" ELSE postmortem
(* The scaffold of the postmortem appears with the first resolution.        *)
Drafted(postmortem) == IF postmortem = "not_started" THEN "draft" ELSE postmortem

Resolve(i) ==
  Operate(i, "resolve",
    [inc[i] EXCEPT !.state = "resolved", !.resolvedAt = now,
                   !.nextEscalationAt = 0, !.postmortem = Drafted(@)], "lifecycle")

Close(i) ==
  Operate(i, "close",
    [inc[i] EXCEPT !.state = "closed", !.closedAt = now,
                   !.nextEscalationAt = 0], "lifecycle")

(* Mutants: the trail of the earlier round is kept, or the count is not.    *)
KeepTrail(row) == [row EXCEPT !.state = "open"]
ResetCount(row) ==
  [row EXCEPT !.state = "open", !.acknowledgedAt = 0, !.resolvedAt = 0, !.closedAt = 0,
              !.escalationCount = 0]

Reopened(row) ==
  [row EXCEPT !.state = "open", !.acknowledgedAt = 0, !.resolvedAt = 0, !.closedAt = 0]

Reopen(i) ==
  LET sev == inc[i].severity
  IN Operate(i, "reopen",
       WithTimers(Reopened(inc[i]), AckMinutes[sev], EscMinutes[sev]), "lifecycle")

(* The status is optional; the texts and action items are left out.         *)
Postmortem(i) ==
  \/ Operate(i, "postmortem", inc[i], "note")
  \/ \E status \in Postmortems :
       Operate(i, "postmortem",
         [inc[i] EXCEPT !.postmortem = status,
                        !.publishedAt = IF status = "published" THEN now ELSE 0], "note")

OperatorCall(i) ==
  \/ \E sev \in Severities, user \in Users \cup {Nobody} :
       \E ack \in Custom \cup {AckMinutes[sev]}, esc \in Custom \cup {EscMinutes[sev]} :
         Create(i, sev, user, ack, esc)
  \/ \E user \in Users : Assign(i, user)
  \/ Note(i) \/ Acknowledge(i) \/ Resolve(i) \/ Close(i) \/ Reopen(i) \/ Postmortem(i)

-----------------------------------------------------------------------------
(* The escalation sweep                                                     *)

(* Mutant: the deadline to acknowledge is taken for the escalation time.    *)
OverdueByDeadline(i, t) == inc[i].state = "open" /\ inc[i].ackDueAt <= t

Overdue(i, t) ==
  /\ inc[i].state = "open"
  /\ IF inc[i].nextEscalationAt # 0
     THEN inc[i].nextEscalationAt <= t
     ELSE inc[i].ackDueAt # 0 /\ inc[i].ackDueAt <= t

(* Mutant: the incidents come by their deadlines, which a turn leaves alone. *)
BeforeByDeadline(i, j) == inc[i].ackDueAt <= inc[j].ackDueAt

(* orderBy nextEscalationAt, ackDueAt: null first.                          *)
Before(i, j) ==
  \/ inc[i].nextEscalationAt < inc[j].nextEscalationAt
  \/ /\ inc[i].nextEscalationAt = inc[j].nextEscalationAt
     /\ inc[i].ackDueAt <= inc[j].ackDueAt

(* The n first of S in that order.                                          *)
First(n, S) ==
  LET size == IF n < Cardinality(S) THEN n ELSE Cardinality(S)
  IN {W \in kSubset(size, S) : \A i \in W, j \in S \ W : Before(i, j)}

StartSweep(s) ==
  /\ sw[s].pc = "idle"
  /\ \E W \in First(Limit, {i \in Incidents : Overdue(i, now)}) :
       sw' = [sw EXCEPT ![s] =
                IF W = {} THEN IdleSweep
                ELSE [pc |-> "escalate", at |-> now,
                      todo |-> {[id |-> i, count |-> inc[i].escalationCount] : i \in W}]]
  /\ UNCHANGED <<inc, timeline, numbered, st, now, calls, aborts>>

Done(s, d) ==
  sw' = [sw EXCEPT ![s] = IF sw[s].todo = {d} THEN IdleSweep
                          ELSE [sw[s] EXCEPT !.todo = @ \ {d}]]

Escalated(row, d, at) ==
  [row EXCEPT !.escalatedAt = at, !.escalationCount = d.count + 1,
              !.nextEscalationAt = at + EscMinutes[row.severity]]

(* The update is by id: whatever has become of the incident since. The rows *)
(* of one sweep may come in any order here.                                 *)
Escalate(s) ==
  /\ sw[s].pc = "escalate"
  /\ \E d \in sw[s].todo :
       /\ inc' = [inc EXCEPT ![d.id] = Escalated(@, d, sw[s].at)]
       /\ timeline' = Appended(d.id, "escalated")
       /\ numbered' = [numbered EXCEPT ![d.id] = @ \cup {d.count + 1}]
       /\ Done(s, d)
  /\ UNCHANGED <<st, now, calls, aborts>>

(* A transaction fails, or the process dies: the rest of the sweep is lost. *)
AbortSweep(s) ==
  /\ sw[s].pc = "escalate"
  /\ aborts < MaxAborts
  /\ aborts' = aborts + 1
  /\ sw' = [sw EXCEPT ![s] = IdleSweep]
  /\ UNCHANGED <<inc, timeline, numbered, st, now, calls>>

-----------------------------------------------------------------------------
(* A workflow step                                                          *)

StartStep(p) ==
  /\ st[p].pc = "idle"
  /\ calls < MaxCalls
  /\ \E i \in Incidents :
       /\ Exists(i)
       /\ canRunIncidentAction(inc[i].state, "step")
       /\ st' = [st EXCEPT ![p] = [pc |-> "running", id |-> i]]
  /\ calls' = calls + 1
  /\ UNCHANGED <<inc, timeline, numbered, sw, now, aborts>>

FinishStep(p) ==
  /\ st[p].pc = "running"
  /\ timeline' = Appended(st[p].id, "step")
  /\ st' = [st EXCEPT ![p] = IdleStep]
  /\ UNCHANGED <<inc, numbered, sw, now, calls, aborts>>

-----------------------------------------------------------------------------
Tick ==
  /\ now < MaxTime
  /\ now' = now + 1
  /\ UNCHANGED <<inc, timeline, numbered, sw, st, calls, aborts>>

SweepStep(s) == StartSweep(s) \/ Escalate(s)

Next ==
  \/ \E i \in Incidents : OperatorCall(i)
  \/ \E s \in Sweeps : SweepStep(s) \/ AbortSweep(s)
  \/ \E p \in Steps : StartStep(p) \/ FinishStep(p)
  \/ Tick

Spec == Init /\ [][Next]_vars

-----------------------------------------------------------------------------
(* Safety                                                                   *)

(* The trail of the current round: an incident is acknowledged, resolved or *)
(* closed exactly when the row says when, whichever handlers ran before and *)
(* however often it was reopened; only resolved incidents are ever closed.  *)
LifecycleTrail ==
  \A i \in Incidents :
    LET row == inc[i]
    IN /\ row.closedAt # 0 <=> row.state = "closed"
       /\ row.resolvedAt # 0 <=> row.state \in {"resolved", "closed"}
       /\ row.state \in {"absent", "open"} => row.acknowledgedAt = 0
       /\ row.state = "acknowledged" => row.acknowledgedAt # 0

(* No open incident drops out of the sweep: it always has a time at which   *)
(* it is escalated next, even after a sweep that read it before it was      *)
(* acknowledged and reopened.                                               *)
OpenHasTimer ==
  \A i \in Incidents :
    inc[i].state = "open" => inc[i].nextEscalationAt # 0 /\ inc[i].ackDueAt # 0

(* A postmortem has a publication date exactly while it is published, and a *)
(* resolution of a reopened incident does not take it back.                 *)
PublishedIsDated ==
  \A i \in Incidents : inc[i].publishedAt # 0 <=> inc[i].postmortem = "published"

(* With one sweep at a time, the escalations of an incident are at least    *)
(* its severity's interval apart, through acknowledgements, reopenings and  *)
(* sweeps that stop half way.                                               *)
EscalationsPaced ==
  [][\A i \in Incidents :
       inc'[i].escalatedAt # inc[i].escalatedAt /\ inc[i].escalatedAt # 0
         => inc'[i].escalatedAt >= inc[i].escalatedAt + EscMinutes[inc[i].severity]]_vars

(* "Escalation #n" (incident-engine.ts:1507), however sweeps overlap and    *)
(* whatever is acknowledged or reopened meanwhile: the numbers of an        *)
(* incident have no gap. The column escalationCount is the number of its    *)
(* escalations until two sweeps have used one number twice; from then on it *)
(* may fall behind, and is never ahead of the timeline.                     *)
EscalationsNumbered ==
  \A i \in Incidents :
    LET n == timeline[i]["escalated"]
    IN \E m \in 0..n :
         /\ numbered[i] = 1..m
         /\ inc[i].escalationCount <= m
         /\ m = n => inc[i].escalationCount = n

(* With one sweep at a time, escalationCount is the number of escalations.  *)
CountIsExact ==
  \A i \in Incidents : inc[i].escalationCount = timeline[i]["escalated"]

(* incident-workflows.md:52, "run due escalation timers": an incident is    *)
(* escalated only while it is open and its timer is due.                    *)
EscalatesOnlyDue ==
  [][\A i \in Incidents :
       timeline'[i]["escalated"] > timeline[i]["escalated"] => Overdue(i, now)]_vars

(* A sweep takes a limited number of incidents. Late incidents wait for one *)
(* turn of each other incident at most: none is taken that was escalated    *)
(* after a late one it leaves behind fell due, whatever sweeps, calls and   *)
(* reopenings came in between.                                              *)
Late(i) ==
  /\ inc[i].state = "open"
  /\ inc[i].nextEscalationAt # 0
  /\ inc[i].nextEscalationAt <= now

Taken(s) == {d.id : d \in sw[s].todo}

NoSecondTurn ==
  [][\A s \in Sweeps : sw[s].pc = "idle" =>
       \A j \in Taken(s)', i \in Incidents \ Taken(s)' :
         Late(i) => inc[j].escalatedAt < inc[i].nextEscalationAt]_vars
=============================================================================
