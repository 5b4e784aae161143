------------------------ MODULE IncidentEngineProofs ------------------------
(* Theorems about IncidentEngine, for every value of its constants.         *)
EXTENDS IncidentEngine, TLAPS

-----------------------------------------------------------------------------
(* What every row satisfies                                                 *)

TrailOK(row) ==
  /\ row.closedAt # 0 <=> row.state = "closed"
  /\ row.resolvedAt # 0 <=> row.state \in {"resolved", "closed"}
  /\ row.state \in {"absent", "open"} => row.acknowledgedAt = 0
  /\ row.state = "acknowledged" => row.acknowledgedAt # 0

TimerOK(row) ==
  row.state = "open" => row.nextEscalationAt # 0 /\ row.ackDueAt # 0

PublicationOK(row) == row.publishedAt # 0 <=> row.postmortem = "published"

RowOK(row) == row \in Row /\ TrailOK(row) /\ TimerOK(row) /\ PublicationOK(row)

RowInv ==
  /\ TypeOK
  /\ now # 0
  /\ \A i \in Incidents : RowOK(inc[i])

LEMMA NewRowType ==
  ASSUME NEW sev \in Severities, NEW user \in Users \cup {Nobody}
  PROVE  NewRow(sev, user) \in Row
BY DEF NewRow, Row, States, Postmortems

LEMMA TimersRow ==
  ASSUME NEW row \in Row, row.state = "open", TrailOK(row), PublicationOK(row),
         NEW ack \in Nat \ {0}, NEW esc \in Nat \ {0}, now \in Nat
  PROVE  RowOK(WithTimers(row, ack, esc))
<1>1. now + ack \in Nat \ {0} /\ now + ack + esc \in Nat \ {0}
  OBVIOUS
<1>2. QED
  BY <1>1 DEF RowOK, TrailOK, TimerOK, PublicationOK, WithTimers, Row

LEMMA MinutesPositive ==
  /\ \A sev \in Severities : /\ Custom \cup {AckMinutes[sev]} \subseteq Nat \ {0}
                             /\ Custom \cup {EscMinutes[sev]} \subseteq Nat \ {0}
BY IncidentAssumption

LEMMA AppendedType ==
  ASSUME TypeOK, NEW i, NEW kind \in Kinds
  PROVE  Appended(i, kind) \in [Incidents -> [Kinds -> Nat]]
<1>1. ASSUME NEW j \in Incidents PROVE [timeline[j] EXCEPT ![kind] = @ + 1] \in [Kinds -> Nat]
  BY DEF TypeOK
<1>2. QED
  BY <1>1 DEF Appended, TypeOK

(* An operator's transaction keeps the invariant if the row it writes does. *)
LEMMA OperateInv ==
  ASSUME RowInv, NEW i \in Incidents, NEW action, NEW new, NEW kind \in Kinds,
         Operate(i, action, new, kind), RowOK(new)
  PROVE  RowInv'
<1>1. timeline' \in [Incidents -> [Kinds -> Nat]]
  BY AppendedType DEF Operate, RowInv
<1>2. inc' \in [Incidents -> Row] /\ \A j \in Incidents : RowOK(inc'[j])
  BY DEF Operate, RowInv, RowOK, TypeOK
<1>3. calls' \in Nat
  BY DEF Operate, RowInv, TypeOK
<1>4. QED
  BY <1>1, <1>2, <1>3 DEF Operate, RowInv, TypeOK

LEMMA CreateInv ==
  ASSUME RowInv, NEW i \in Incidents, NEW sev \in Severities,
         NEW user \in Users \cup {Nobody}, NEW ack \in Nat \ {0}, NEW esc \in Nat \ {0},
         Create(i, sev, user, ack, esc)
  PROVE  RowInv'
<1> DEFINE new == WithTimers(NewRow(sev, user), ack, esc)
<1>1. RowOK(new)
  <2>1. NewRow(sev, user) \in Row
    BY NewRowType
  <2>2. /\ NewRow(sev, user).state = "open" /\ TrailOK(NewRow(sev, user))
        /\ PublicationOK(NewRow(sev, user))
    BY DEF NewRow, TrailOK, PublicationOK
  <2>3. QED
    BY <2>1, <2>2, TimersRow DEF RowInv, TypeOK
<1> HIDE DEF new
<1>2. inc' = [inc EXCEPT ![i] = new]
  BY DEF Create, new
<1>3. timeline' \in [Incidents -> [Kinds -> Nat]]
  BY AppendedType DEF Create, RowInv, Kinds
<1>4. inc' \in [Incidents -> Row] /\ \A j \in Incidents : RowOK(inc'[j])
  BY <1>1, <1>2 DEF RowInv, RowOK, TypeOK
<1>5. calls' \in Nat
  BY DEF Create, RowInv, TypeOK
<1>6. QED
  BY <1>3, <1>4, <1>5 DEF Create, RowInv, TypeOK

LEMMA OperatorCallInv ==
  ASSUME RowInv, NEW i \in Incidents, OperatorCall(i)
  PROVE  RowInv'
<1> DEFINE row == inc[i]
<1>1. RowOK(row) /\ row \in Row /\ now \in Nat /\ now # 0 /\ row.severity \in Severities
  BY DEF RowInv, RowOK, TypeOK, Row
<1>2. CASE \E sev \in Severities, user \in Users \cup {Nobody} :
             \E ack \in Custom \cup {AckMinutes[sev]}, esc \in Custom \cup {EscMinutes[sev]} :
               Create(i, sev, user, ack, esc)
  BY <1>2, MinutesPositive, CreateInv
<1>3. CASE \E user \in Users : Assign(i, user)
  <2>1. PICK user \in Users : Assign(i, user)
    BY <1>3
  <2>2. RowOK([row EXCEPT !.assignee = user])
    BY <1>1 DEF RowOK, TrailOK, TimerOK, PublicationOK, Row
  <2>3. QED
    BY <2>1, <2>2, OperateInv DEF Assign, Kinds
<1>4. CASE Note(i)
  BY <1>1, <1>4, OperateInv DEF Note, Kinds
<1>5. CASE Acknowledge(i)
  <2>1. row.state \in {"open", "acknowledged"}
    BY <1>5 DEF Acknowledge, Operate, canRunIncidentAction
  <2>2. RowOK([row EXCEPT !.state = "acknowledged", !.acknowledgedAt = now,
                          !.nextEscalationAt = 0])
    BY <1>1, <2>1 DEF RowOK, TrailOK, TimerOK, PublicationOK, Row, States
  <2>3. QED
    BY <1>5, <2>2, OperateInv DEF Acknowledge, Kinds
<1>6. CASE Resolve(i)
  <2>1. row.state \in {"open", "acknowledged", "resolved"}
    BY <1>6 DEF Resolve, Operate, canRunIncidentAction
  <2>2. RowOK([row EXCEPT !.state = "resolved", !.resolvedAt = now,
                          !.nextEscalationAt = 0, !.postmortem = Drafted(@)])
    BY <1>1, <2>1 DEF RowOK, TrailOK, TimerOK, PublicationOK, Row, States, Drafted,
       Postmortems
  <2>3. QED
    BY <1>6, <2>2, OperateInv DEF Resolve, Kinds
<1>7. CASE Close(i)
  <2>1. row.state \in {"resolved", "closed"}
    BY <1>7 DEF Close, Operate, canRunIncidentAction
  <2>2. RowOK([row EXCEPT !.state = "closed", !.closedAt = now, !.nextEscalationAt = 0])
    BY <1>1, <2>1 DEF RowOK, TrailOK, TimerOK, PublicationOK, Row, States
  <2>3. QED
    BY <1>7, <2>2, OperateInv DEF Close, Kinds
<1>8. CASE Reopen(i)
  <2>1. /\ Reopened(row) \in Row /\ Reopened(row).state = "open"
        /\ TrailOK(Reopened(row)) /\ PublicationOK(Reopened(row))
    BY <1>1 DEF Reopened, RowOK, TrailOK, PublicationOK, Row, States
  <2>2. RowOK(WithTimers(Reopened(row), AckMinutes[row.severity], EscMinutes[row.severity]))
    BY <1>1, <2>1, MinutesPositive, TimersRow
  <2>3. QED
    BY <1>8, <2>2, OperateInv DEF Reopen, Kinds
<1>9. CASE Postmortem(i)
  <2>1. CASE Operate(i, "postmortem", row, "note")
    BY <1>1, <2>1, OperateInv DEF Kinds
  <2>2. ASSUME NEW status \in Postmortems
        PROVE  RowOK([row EXCEPT !.postmortem = status,
                                 !.publishedAt = IF status = "published" THEN now ELSE 0])
    BY <1>1 DEF RowOK, TrailOK, TimerOK, PublicationOK, Row
  <2>3. QED
    BY <1>9, <2>1, <2>2, OperateInv DEF Postmortem, Kinds
<1>10. QED
  BY <1>2, <1>3, <1>4, <1>5, <1>6, <1>7, <1>8, <1>9 DEF OperatorCall

LEMMA StartSweepShape ==
  ASSUME RowInv, NEW s \in Sweeps, StartSweep(s)
  PROVE  /\ \A r \in Sweeps \ {s} : sw'[r] = sw[r]
         /\ \/ sw'[s] = IdleSweep
            \/ \E W \in SUBSET Incidents :
                 /\ \A i \in W : Overdue(i, now)
                 /\ sw'[s] = [pc |-> "escalate", at |-> now,
                              todo |-> {[id |-> i, count |-> inc[i].escalationCount] : i \in W}]
<1>1. PICK W \in First(Limit, {i \in Incidents : Overdue(i, now)}) :
         sw' = [sw EXCEPT ![s] =
                  IF W = {} THEN IdleSweep
                  ELSE [pc |-> "escalate", at |-> now,
                        todo |-> {[id |-> i, count |-> inc[i].escalationCount] : i \in W}]]
  BY DEF StartSweep
<1>2. W \subseteq {i \in Incidents : Overdue(i, now)}
  BY DEF First, kSubset
<1>3. sw \in [Sweeps -> [pc : {"idle", "escalate"}, at : Nat, todo : SUBSET Due]]
  BY DEF RowInv, TypeOK
<1>4. CASE W = {}
  BY <1>1, <1>3, <1>4
<1>5. CASE W # {}
  BY <1>1, <1>2, <1>3, <1>5
<1>6. QED
  BY <1>4, <1>5

LEMMA SweepInv ==
  ASSUME RowInv, NEW s \in Sweeps, SweepStep(s) \/ AbortSweep(s)
  PROVE  RowInv'
<1> DEFINE SweepState == [pc : {"idle", "escalate"}, at : Nat, todo : SUBSET Due]
<1>1. sw \in [Sweeps -> SweepState] /\ IdleSweep \in SweepState /\ now \in Nat
  BY DEF RowInv, TypeOK, IdleSweep
<1>2. CASE StartSweep(s)
  <2>1. sw'[s] \in SweepState
    <3>1. ASSUME NEW W \in SUBSET Incidents
          PROVE  [pc |-> "escalate", at |-> now,
                  todo |-> {[id |-> i, count |-> inc[i].escalationCount] : i \in W}]
                   \in SweepState
      <4>1. ASSUME NEW i \in W PROVE [id |-> i, count |-> inc[i].escalationCount] \in Due
        <5>1. i \in Incidents /\ inc[i] \in Row
          BY DEF RowInv, TypeOK
        <5>2. inc[i].escalationCount \in Nat
          BY <5>1 DEF Row
        <5>3. QED
          BY <5>1, <5>2 DEF Due
      <4>2. {[id |-> i, count |-> inc[i].escalationCount] : i \in W} \in SUBSET Due
        BY <4>1
      <4>3. QED
        BY <1>1, <4>2
    <3>2. PICK v : sw' = [sw EXCEPT ![s] = v]
      BY <1>2 DEF StartSweep
    <3>3. CASE sw'[s] = IdleSweep
      BY <1>1, <3>3
    <3>4. CASE sw'[s] # IdleSweep
      BY <1>2, <3>1, <3>4, StartSweepShape
    <3>5. QED
      BY <3>3, <3>4
  <2>2. sw' \in [Sweeps -> SweepState]
    BY <1>1, <1>2, <2>1 DEF StartSweep
  <2>3. QED
    BY <1>2, <2>2 DEF StartSweep, RowInv, TypeOK, RowOK
<1>3. CASE Escalate(s)
  <2>1. PICK d \in sw[s].todo : /\ inc' = [inc EXCEPT ![d.id] = Escalated(@, d, sw[s].at)]
                                /\ timeline' = Appended(d.id, "escalated")
                                /\ numbered' = [numbered EXCEPT ![d.id] = @ \cup {d.count + 1}]
                                /\ Done(s, d)
    BY <1>3 DEF Escalate
  <2>2. d.id \in Incidents /\ d.count \in Nat /\ sw[s].at \in Nat
    BY <1>1, <2>1 DEF Due
  <2>3. RowOK(Escalated(inc[d.id], d, sw[s].at))
    <3>1. RowOK(inc[d.id]) /\ inc[d.id] \in Row /\ inc[d.id].severity \in Severities
      BY <2>2 DEF RowInv, RowOK, Row
    <3>2. EscMinutes[inc[d.id].severity] \in Nat \ {0}
      BY <3>1, IncidentAssumption
    <3>3. sw[s].at + EscMinutes[inc[d.id].severity] \in Nat \ {0} /\ d.count + 1 \in Nat
      BY <2>2, <3>2
    <3>4. QED
      BY <2>2, <3>1, <3>3 DEF RowOK, TrailOK, TimerOK, PublicationOK, Row, Escalated
  <2>4. inc' \in [Incidents -> Row] /\ \A j \in Incidents : RowOK(inc'[j])
    <3> DEFINE new == Escalated(inc[d.id], d, sw[s].at)
    <3>1. inc' = [inc EXCEPT ![d.id] = new] /\ RowOK(new)
      BY <2>1, <2>3
    <3> HIDE DEF new
    <3>2. QED
      BY <2>2, <3>1 DEF RowInv, RowOK, TypeOK
  <2>5. timeline' \in [Incidents -> [Kinds -> Nat]]
    BY <2>1, AppendedType DEF RowInv, Kinds
  <2>6. sw' \in [Sweeps -> SweepState]
    <3>1. [sw[s] EXCEPT !.todo = @ \ {d}] \in SweepState
      BY <1>1
    <3>2. CASE sw[s].todo = {d}
      <4>1. sw' = [sw EXCEPT ![s] = IdleSweep]
        BY <2>1, <3>2 DEF Done
      <4>2. QED
        BY <1>1, <4>1
    <3>3. CASE sw[s].todo # {d}
      <4>1. sw' = [sw EXCEPT ![s] = [sw[s] EXCEPT !.todo = @ \ {d}]]
        BY <2>1, <3>3 DEF Done
      <4> DEFINE rest == [sw[s] EXCEPT !.todo = @ \ {d}]
      <4>2. rest \in SweepState /\ sw' = [sw EXCEPT ![s] = rest]
        BY <3>1, <4>1
      <4> HIDE DEF rest
      <4>3. QED
        BY <1>1, <4>2
    <3>4. QED
      BY <3>2, <3>3
  <2>7. numbered' \in [Incidents -> SUBSET Nat]
    <3>1. numbered' = [numbered EXCEPT ![d.id] = @ \cup {d.count + 1}]
      BY <2>1
    <3>2. numbered[d.id] \cup {d.count + 1} \in SUBSET Nat
      BY <2>2 DEF RowInv, TypeOK
    <3>3. QED
      BY <2>2, <3>1, <3>2 DEF RowInv, TypeOK
  <2>8. QED
    BY <1>3, <2>4, <2>5, <2>6, <2>7 DEF Escalate, RowInv, TypeOK
<1>4. CASE AbortSweep(s)
  <2>1. sw' \in [Sweeps -> SweepState]
    BY <1>1, <1>4 DEF AbortSweep
  <2>2. QED
    BY <1>4, <2>1 DEF AbortSweep, RowInv, TypeOK, RowOK
<1>5. QED
  BY <1>2, <1>3, <1>4 DEF SweepStep

LEMMA StepInv ==
  ASSUME RowInv, NEW p \in Steps, StartStep(p) \/ FinishStep(p)
  PROVE  RowInv'
<1>1. st' \in [Steps -> [pc : {"idle", "running"}, id : Incidents \cup {Nobody}]]
  BY DEF StartStep, FinishStep, IdleStep, RowInv, TypeOK
<1>2. timeline' \in [Incidents -> [Kinds -> Nat]]
  BY AppendedType DEF StartStep, FinishStep, RowInv, TypeOK, Kinds
<1>3. QED
  BY <1>1, <1>2 DEF StartStep, FinishStep, RowInv, TypeOK, RowOK

LEMMA InitInv == Init => RowInv
<1> SUFFICES ASSUME Init PROVE RowInv
  OBVIOUS
<1> DEFINE new    == NewRow(CHOOSE sev \in Severities : TRUE, Nobody)
           absent == [new EXCEPT !.state = "absent"]
<1>1. new \in Row
  BY IncidentAssumption, NewRowType
<1>2. RowOK(absent)
  BY <1>1 DEF NewRow, RowOK, TrailOK, TimerOK, PublicationOK, Row, States
<1>3. inc = [i \in Incidents |-> absent]
  BY DEF Init
<1> HIDE DEF absent
<1>4. TypeOK
  BY <1>2, <1>3 DEF Init, TypeOK, RowOK, IdleSweep, IdleStep
<1>5. QED
  BY <1>2, <1>3, <1>4 DEF Init, RowInv

LEMMA NextInv == RowInv /\ [Next]_vars => RowInv'
<1> SUFFICES ASSUME RowInv, [Next]_vars PROVE RowInv'
  OBVIOUS
<1>1. CASE \E i \in Incidents : OperatorCall(i)
  BY <1>1, OperatorCallInv
<1>2. CASE \E s \in Sweeps : SweepStep(s) \/ AbortSweep(s)
  BY <1>2, SweepInv
<1>3. CASE \E p \in Steps : StartStep(p) \/ FinishStep(p)
  BY <1>3, StepInv
<1>4. CASE Tick
  BY <1>4 DEF Tick, RowInv, TypeOK, RowOK
<1>5. CASE UNCHANGED vars
  BY <1>5 DEF vars, RowInv, TypeOK, RowOK
<1>6. QED
  BY <1>1, <1>2, <1>3, <1>4, <1>5 DEF Next

LEMMA RowsAlwaysOK == Spec => []RowInv
BY InitInv, NextInv, PTL DEF Spec

-----------------------------------------------------------------------------
(* Type correctness: every handler keeps the table well-formed.             *)
THEOREM TypeCorrect == Spec => []TypeOK
<1>1. RowInv => TypeOK
  BY DEF RowInv
<1>2. QED
  BY <1>1, RowsAlwaysOK, PTL

(* The timestamps of the current round agree with the state, whatever       *)
(* sequence of operator calls, sweeps and steps led there.                  *)
THEOREM TrailAgrees == Spec => []LifecycleTrail
<1>1. RowInv => LifecycleTrail
  BY DEF RowInv, RowOK, TrailOK, LifecycleTrail
<1>2. QED
  BY <1>1, RowsAlwaysOK, PTL

(* An open incident always has the time of its next escalation, even when   *)
(* concurrent sweeps write rows they read long before.                      *)
THEOREM OpenAlwaysTimed == Spec => []OpenHasTimer
<1>1. RowInv => OpenHasTimer
  BY DEF RowInv, RowOK, TimerOK, OpenHasTimer
<1>2. QED
  BY <1>1, RowsAlwaysOK, PTL

(* A postmortem is dated exactly while it is published.                     *)
THEOREM PublicationDated == Spec => []PublishedIsDated
<1>1. RowInv => PublishedIsDated
  BY DEF RowInv, RowOK, PublicationOK, PublishedIsDated
<1>2. QED
  BY <1>1, RowsAlwaysOK, PTL

-----------------------------------------------------------------------------
(* What touches escalations                                                 *)

(* Rows that do not exist yet have nothing left in them.                    *)
Blank ==
  /\ RowInv
  /\ \A i \in Incidents :
       inc[i].state = "absent" => inc[i].escalatedAt = 0 /\ inc[i].escalationCount = 0

(* What every action but an escalation leaves alone.                        *)
Unescalated(i) ==
  /\ inc'[i].escalationCount = inc[i].escalationCount
  /\ inc'[i].escalatedAt = inc[i].escalatedAt
  /\ timeline'[i]["escalated"] = timeline[i]["escalated"]
  /\ numbered'[i] = numbered[i]
  /\ inc[i].state # "absent"
       => inc'[i].state # "absent" /\ inc'[i].severity = inc[i].severity
  /\ inc[i].state = "absent" => inc'[i].escalatedAt = 0
  /\ inc'[i].state = "absent" => inc[i].state = "absent"
  /\ inc'[i].state = "open"
       => \/ inc[i].state = "open" /\ inc'[i].nextEscalationAt = inc[i].nextEscalationAt
          \/ inc'[i].nextEscalationAt >= now + EscMinutes[inc'[i].severity]
          \/ inc'[i].escalatedAt = 0

(* A step that escalates nothing and starts no sweep.                       *)
Calm ==
  /\ \A i \in Incidents : Unescalated(i)
  /\ now' >= now
  /\ \A s \in Sweeps : sw'[s].todo = {} \/ sw'[s] = sw[s]

LEMMA AppendedOther ==
  ASSUME TypeOK, NEW i \in Incidents, NEW kind \in Kinds \ {"escalated"},
         timeline' = Appended(i, kind), NEW j \in Incidents
  PROVE  timeline'[j]["escalated"] = timeline[j]["escalated"]
BY DEF Appended, TypeOK, Kinds

LEMMA AppendedEscalated ==
  ASSUME TypeOK, NEW i \in Incidents, timeline' = Appended(i, "escalated"),
         NEW j \in Incidents
  PROVE  timeline'[j]["escalated"] =
           IF j = i THEN timeline[j]["escalated"] + 1 ELSE timeline[j]["escalated"]
BY DEF Appended, TypeOK, Kinds

(* What an operator's transaction may write.                                *)
Quiet(row, new) ==
  /\ new.escalationCount = row.escalationCount
  /\ new.escalatedAt = row.escalatedAt
  /\ new.severity = row.severity
  /\ new.state # "absent"
  /\ new.state = "open"
       => \/ row.state = "open" /\ new.nextEscalationAt = row.nextEscalationAt
          \/ new.nextEscalationAt >= now + EscMinutes[new.severity]

LEMMA OperateCalm ==
  ASSUME Blank, NEW i \in Incidents, NEW action, NEW new,
         NEW kind \in Kinds \ {"escalated"},
         Operate(i, action, new, kind), Quiet(inc[i], new)
  PROVE  Calm
<1>1. /\ \A j \in Incidents : timeline'[j]["escalated"] = timeline[j]["escalated"]
      /\ numbered' = numbered
  BY AppendedOther DEF Operate, Blank, RowInv
<1>2. \A j \in Incidents : inc'[j] = IF j = i THEN new ELSE inc[j]
  BY DEF Operate, Blank, RowInv, TypeOK
<1>3. inc[i].state # "absent"
  BY DEF Operate, Exists
<1>4. ASSUME NEW j \in Incidents PROVE Unescalated(j)
  <2>1. CASE j = i
    BY <1>1, <1>2, <1>3, <2>1 DEF Unescalated, Quiet
  <2>2. CASE j # i
    BY <1>1, <1>2, <2>2 DEF Unescalated, Blank
  <2>3. QED
    BY <2>1, <2>2
<1>5. now' >= now /\ sw' = sw
  BY DEF Operate, Blank, RowInv, TypeOK
<1>6. QED
  BY <1>4, <1>5 DEF Calm

LEMMA OperatorCallCalm ==
  ASSUME Blank, NEW i \in Incidents, OperatorCall(i)
  PROVE  Calm
<1> DEFINE row == inc[i]
<1>1. row \in Row /\ now \in Nat /\ row.severity \in Severities
  BY DEF Blank, RowInv, TypeOK, Row
<1>2. ASSUME NEW sev \in Severities, NEW user \in Users \cup {Nobody}, NEW ack \in Nat,
             NEW esc \in Nat, Create(i, sev, user, ack, esc)
      PROVE  Calm
  <2> DEFINE new == WithTimers(NewRow(sev, user), ack, esc)
  <2>1. new.escalatedAt = 0 /\ new.escalationCount = 0 /\ new.state = "open"
    BY DEF WithTimers, NewRow
  <2>2. inc' = [inc EXCEPT ![i] = new]
    BY <1>2 DEF Create
  <2> HIDE DEF new
  <2>3. \A j \in Incidents : inc'[j] = IF j = i THEN new ELSE inc[j]
    BY <2>2 DEF Blank, RowInv, TypeOK
  <2>4. /\ \A j \in Incidents : timeline'[j]["escalated"] = timeline[j]["escalated"]
        /\ numbered' = numbered
    BY <1>2, AppendedOther DEF Create, Blank, RowInv, Kinds
  <2>5. row.state = "absent" /\ row.escalatedAt = 0 /\ row.escalationCount = 0
    BY <1>2 DEF Create, Exists, Blank
  <2>6. ASSUME NEW j \in Incidents PROVE Unescalated(j)
    <3>1. CASE j = i
      BY <2>1, <2>3, <2>4, <2>5, <3>1 DEF Unescalated
    <3>2. CASE j # i
      BY <2>3, <2>4, <3>2 DEF Unescalated, Blank
    <3>3. QED
      BY <3>1, <3>2
  <2>7. now' >= now /\ sw' = sw
    BY <1>1, <1>2 DEF Create
  <2>8. QED
    BY <2>6, <2>7 DEF Calm
<1>3. CASE \E sev \in Severities, user \in Users \cup {Nobody} :
             \E ack \in Custom \cup {AckMinutes[sev]}, esc \in Custom \cup {EscMinutes[sev]} :
               Create(i, sev, user, ack, esc)
  BY <1>2, <1>3, MinutesPositive
<1>4. CASE \E user \in Users : Assign(i, user)
  <2>1. PICK user \in Users : Assign(i, user)
    BY <1>4
  <2>2. Quiet(row, [row EXCEPT !.assignee = user])
    BY <1>1, <2>1 DEF Quiet, Row, Assign, Operate, Exists
  <2>3. QED
    BY <2>1, <2>2, OperateCalm DEF Assign, Kinds
<1>5. ASSUME Exists(i) PROVE Quiet(row, row)
  BY <1>5 DEF Quiet, Exists
<1>6. CASE Note(i)
  <2>1. Exists(i)
    BY <1>6 DEF Note, Operate
  <2>2. QED
    BY <1>5, <1>6, <2>1, OperateCalm DEF Note, Kinds
<1>7. CASE Acknowledge(i)
  <2>1. Quiet(row, [row EXCEPT !.state = "acknowledged", !.acknowledgedAt = now,
                               !.nextEscalationAt = 0])
    BY <1>1 DEF Quiet, Row
  <2>2. QED
    BY <1>7, <2>1, OperateCalm DEF Acknowledge, Kinds
<1>8. CASE Resolve(i)
  <2>1. Quiet(row, [row EXCEPT !.state = "resolved", !.resolvedAt = now,
                               !.nextEscalationAt = 0, !.postmortem = Drafted(@)])
    BY <1>1 DEF Quiet, Row
  <2>2. QED
    BY <1>8, <2>1, OperateCalm DEF Resolve, Kinds
<1>9. CASE Close(i)
  <2>1. Quiet(row, [row EXCEPT !.state = "closed", !.closedAt = now, !.nextEscalationAt = 0])
    BY <1>1 DEF Quiet, Row
  <2>2. QED
    BY <1>9, <2>1, OperateCalm DEF Close, Kinds
<1>10. CASE Reopen(i)
  <2>1. AckMinutes[row.severity] \in Nat /\ EscMinutes[row.severity] \in Nat
    BY <1>1, IncidentAssumption
  <2>2. now + AckMinutes[row.severity] + EscMinutes[row.severity]
          >= now + EscMinutes[row.severity]
    BY <1>1, <2>1
  <2>3. Quiet(row, WithTimers(Reopened(row), AckMinutes[row.severity], EscMinutes[row.severity]))
    BY <1>1, <2>2 DEF Quiet, WithTimers, Reopened, Row
  <2>4. QED
    BY <1>10, <2>3, OperateCalm DEF Reopen, Kinds
<1>11. CASE Postmortem(i)
  <2>1. CASE Operate(i, "postmortem", row, "note")
    BY <1>5, <2>1, OperateCalm DEF Operate, Kinds
  <2>2. ASSUME NEW status \in Postmortems, Exists(i)
        PROVE  Quiet(row, [row EXCEPT !.postmortem = status,
                                      !.publishedAt = IF status = "published" THEN now ELSE 0])
    BY <1>1, <2>2 DEF Quiet, Row, Exists
  <2>3. QED
    BY <1>11, <2>1, <2>2, OperateCalm DEF Postmortem, Operate, Kinds
<1>12. QED
  BY <1>3, <1>4, <1>6, <1>7, <1>8, <1>9, <1>10, <1>11 DEF OperatorCall

LEMMA AbortSweepCalm ==
  ASSUME Blank, NEW s \in Sweeps, AbortSweep(s)
  PROVE  Calm
<1>1. /\ inc' = inc /\ timeline' = timeline /\ numbered' = numbered
      /\ now' = now /\ now \in Nat
      /\ sw' = [sw EXCEPT ![s] = IdleSweep]
  BY DEF AbortSweep, Blank, RowInv, TypeOK
<1>2. \A r \in Sweeps : sw'[r].todo = {} \/ sw'[r] = sw[r]
  BY <1>1 DEF Blank, RowInv, TypeOK, IdleSweep
<1>3. \A i \in Incidents : Unescalated(i)
  BY <1>1 DEF Unescalated, Blank
<1>4. QED
  BY <1>1, <1>2, <1>3 DEF Calm

LEMMA StepCalm ==
  ASSUME Blank, NEW p \in Steps, StartStep(p) \/ FinishStep(p)
  PROVE  Calm
<1>1. /\ inc' = inc /\ numbered' = numbered /\ sw' = sw /\ now' = now /\ now \in Nat
  BY DEF StartStep, FinishStep, Blank, RowInv, TypeOK
<1>2. \A j \in Incidents : timeline'[j]["escalated"] = timeline[j]["escalated"]
  <2>1. CASE StartStep(p)
    BY <2>1 DEF StartStep
  <2>2. CASE FinishStep(p)
    BY <2>2 DEF FinishStep, Appended, Blank, RowInv, TypeOK, Kinds
  <2>3. QED
    BY <2>1, <2>2
<1>3. \A i \in Incidents : Unescalated(i)
  BY <1>1, <1>2 DEF Unescalated, Blank
<1>4. QED
  BY <1>1, <1>3 DEF Calm

LEMMA OtherStepsCalm ==
  ASSUME Blank, [Next]_vars, ~ \E s \in Sweeps : SweepStep(s)
  PROVE  Calm
<1>1. CASE \E i \in Incidents : OperatorCall(i)
  BY <1>1, OperatorCallCalm
<1>2. CASE \E s \in Sweeps : AbortSweep(s)
  BY <1>2, AbortSweepCalm
<1>3. CASE \E p \in Steps : StartStep(p) \/ FinishStep(p)
  BY <1>3, StepCalm
<1>4. CASE Tick \/ UNCHANGED vars
  <2>1. /\ inc' = inc /\ timeline' = timeline /\ numbered' = numbered
        /\ sw' = sw /\ now' >= now
    BY <1>4 DEF Tick, vars, Blank, RowInv, TypeOK
  <2>2. \A i \in Incidents : Unescalated(i)
    BY <2>1 DEF Unescalated, Blank
  <2>3. QED
    BY <2>1, <2>2 DEF Calm
<1>5. QED
  BY <1>1, <1>2, <1>3, <1>4 DEF Next

-----------------------------------------------------------------------------
(* Any number of sweeps                                                     *)

(* The numbers of an incident have no gap, and its count is behind only if  *)
(* one was used twice.                                                      *)
Gapless(i) ==
  LET n == timeline[i]["escalated"]
  IN \E m \in 0..n :
       /\ numbered[i] = 1..m
       /\ inc[i].escalationCount <= m
       /\ m = n => inc[i].escalationCount = m

(* An escalation is not in the future, and the next one comes after it.     *)
Timed(i) ==
  /\ inc[i].escalatedAt <= now
  /\ inc[i].state = "open" => inc[i].escalatedAt < inc[i].nextEscalationAt
  /\ inc[i].state = "absent" => timeline[i]["escalated"] = 0

(* What a sweep remembers of an incident was so once.                       *)
Known(d, at) ==
  /\ inc[d.id].state # "absent"
  /\ d.count = 0 \/ d.count \in numbered[d.id]
  /\ at <= now

TurnInv ==
  /\ Blank
  /\ \A i \in Incidents : Gapless(i) /\ Timed(i)
  /\ \A s \in Sweeps : \A d \in sw[s].todo : sw[s].pc = "escalate" /\ Known(d, sw[s].at)

LEMMA RowNumbers ==
  ASSUME RowInv, NEW i \in Incidents
  PROVE  /\ inc[i] \in Row /\ now \in Nat /\ TimerOK(inc[i])
         /\ {inc[i].escalatedAt, inc[i].nextEscalationAt, inc[i].escalationCount} \subseteq Nat
         /\ inc[i].severity \in Severities
         /\ EscMinutes[inc[i].severity] \in Nat \ {0}
         /\ timeline[i]["escalated"] \in Nat
<1>1. inc[i] \in Row /\ timeline[i] \in [Kinds -> Nat] /\ now \in Nat /\ RowOK(inc[i])
  BY DEF RowInv, TypeOK
<1>2. inc[i].severity \in Severities
  BY <1>1 DEF Row
<1>3. QED
  BY <1>1, <1>2, IncidentAssumption DEF Row, RowOK, Kinds

LEMMA CalmTurn ==
  ASSUME TurnInv, RowInv', Calm
  PROVE  TurnInv'
<1>1. ASSUME NEW i \in Incidents
      PROVE  /\ Gapless(i)' /\ Timed(i)'
             /\ inc'[i].state = "absent" => inc'[i].escalatedAt = 0 /\ inc'[i].escalationCount = 0
  <2>1. Unescalated(i) /\ now' >= now /\ Gapless(i) /\ Timed(i)
    BY DEF Calm, TurnInv
  <2>2. /\ now \in Nat /\ now' \in Nat
        /\ {inc[i].escalatedAt, inc[i].nextEscalationAt,
            inc'[i].escalatedAt, inc'[i].nextEscalationAt} \subseteq Nat
        /\ TimerOK(inc'[i]) /\ EscMinutes[inc'[i].severity] \in Nat \ {0}
    <3>1. RowInv
      BY DEF TurnInv, Blank
    <3>2. /\ now \in Nat
          /\ {inc[i].escalatedAt, inc[i].nextEscalationAt} \subseteq Nat
      BY <3>1, RowNumbers
    <3>3. /\ inc'[i] \in Row /\ now' \in Nat /\ TimerOK(inc'[i])
      BY DEF RowInv, RowOK, TypeOK
    <3>4. QED
      BY <3>2, <3>3, IncidentAssumption DEF Row
  <2>3. Gapless(i)'
    BY <2>1 DEF Gapless, Unescalated
  <2>4. Timed(i)'
    <3>1. inc'[i].escalatedAt <= now'
      BY <2>1, <2>2 DEF Unescalated, Timed
    <3>2. inc'[i].state = "open" => inc'[i].escalatedAt < inc'[i].nextEscalationAt
      BY <2>1, <2>2 DEF Unescalated, Timed, TimerOK
    <3>3. inc'[i].state = "absent" => timeline'[i]["escalated"] = 0
      BY <2>1 DEF Unescalated, Timed
    <3>4. QED
      BY <3>1, <3>2, <3>3 DEF Timed
  <2>5. inc'[i].state = "absent" => inc'[i].escalatedAt = 0 /\ inc'[i].escalationCount = 0
    BY <2>1 DEF Unescalated, TurnInv, Blank
  <2>6. QED
    BY <2>3, <2>4, <2>5
<1>2. ASSUME NEW s \in Sweeps, NEW d \in sw'[s].todo
      PROVE  sw'[s].pc = "escalate" /\ Known(d, sw[s].at)'
  <2>1. sw'[s] = sw[s] /\ d \in sw[s].todo
    BY <1>2 DEF Calm
  <2>2. sw[s].at \in Nat /\ d.id \in Incidents /\ now \in Nat /\ now' \in Nat
    BY <2>1 DEF TurnInv, Blank, RowInv, TypeOK, Due
  <2>3. Known(d, sw[s].at) /\ Unescalated(d.id) /\ now' >= now
    BY <2>1, <2>2 DEF TurnInv, Calm
  <2>4. sw'[s].at = sw[s].at /\ sw'[s].pc = "escalate"
    BY <2>1 DEF TurnInv
  <2>5. QED
    BY <2>2, <2>3, <2>4 DEF Known, Unescalated
<1>3. QED
  BY <1>1, <1>2 DEF TurnInv, Blank

LEMMA StartSweepTurn ==
  ASSUME TurnInv, RowInv', NEW s \in Sweeps, StartSweep(s)
  PROVE  TurnInv'
<1>1. /\ inc' = inc /\ timeline' = timeline /\ numbered' = numbered
      /\ now' = now /\ now \in Nat
  BY DEF StartSweep, TurnInv, Blank, RowInv, TypeOK
<1>2. ASSUME NEW i \in Incidents, Overdue(i, now)
      PROVE  Known([id |-> i, count |-> inc[i].escalationCount], now)
  <2>1. inc[i].escalationCount \in Nat
    BY RowNumbers DEF TurnInv, Blank
  <2>2. inc[i].escalationCount = 0 \/ inc[i].escalationCount \in numbered[i]
    BY <2>1 DEF TurnInv, Gapless
  <2>3. QED
    BY <1>1, <1>2, <2>2 DEF Known, Overdue
<1>3. ASSUME NEW r \in Sweeps, NEW d \in sw'[r].todo
      PROVE  sw'[r].pc = "escalate" /\ Known(d, sw'[r].at)
  <2>1. CASE r # s
    BY <1>3, <2>1, StartSweepShape DEF TurnInv, Blank
  <2>2. CASE r = s /\ sw'[s] = IdleSweep
    BY <1>3, <2>2 DEF IdleSweep
  <2>3. CASE r = s /\ sw'[s] # IdleSweep
    <3>1. PICK W \in SUBSET Incidents :
            /\ \A i \in W : Overdue(i, now)
            /\ sw'[s] = [pc |-> "escalate", at |-> now,
                         todo |-> {[id |-> i, count |-> inc[i].escalationCount] : i \in W}]
      BY <2>3, StartSweepShape DEF TurnInv, Blank
    <3>2. /\ sw'[s].todo = {[id |-> i, count |-> inc[i].escalationCount] : i \in W}
          /\ sw'[s].at = now /\ sw'[s].pc = "escalate"
      BY <3>1
    <3>3. PICK i \in W : d = [id |-> i, count |-> inc[i].escalationCount]
      BY <1>3, <2>3, <3>2
    <3>4. QED
      BY <1>2, <2>3, <3>1, <3>2, <3>3
  <2>4. QED
    BY <2>1, <2>2, <2>3
<1>4. \A r \in Sweeps : \A d \in sw'[r].todo :
        sw'[r].pc = "escalate" /\ Known(d, sw[r].at)'
  BY <1>1, <1>3 DEF Known
<1>5. QED
  BY <1>1, <1>4 DEF TurnInv, Blank, Gapless, Timed

LEMMA DoneLess ==
  ASSUME TypeOK, NEW s \in Sweeps, NEW d \in sw[s].todo, Done(s, d),
         NEW r \in Sweeps, NEW e \in sw'[r].todo
  PROVE  e \in sw[r].todo /\ sw'[r].at = sw[r].at /\ sw'[r].pc = sw[r].pc
<1>1. sw \in [Sweeps -> [pc : {"idle", "escalate"}, at : Nat, todo : SUBSET Due]]
  BY DEF TypeOK
<1>2. CASE sw[s].todo = {d}
  BY <1>1, <1>2 DEF Done, IdleSweep
<1>3. CASE sw[s].todo # {d}
  BY <1>1, <1>3 DEF Done
<1>4. QED
  BY <1>2, <1>3

LEMMA EscalateTurn ==
  ASSUME TurnInv, RowInv', NEW s \in Sweeps, Escalate(s)
  PROVE  TurnInv'
<1>1. PICK d \in sw[s].todo : /\ inc' = [inc EXCEPT ![d.id] = Escalated(@, d, sw[s].at)]
                              /\ timeline' = Appended(d.id, "escalated")
                              /\ numbered' = [numbered EXCEPT ![d.id] = @ \cup {d.count + 1}]
                              /\ Done(s, d)
  BY DEF Escalate
<1>2. /\ now' = now /\ now \in Nat /\ RowInv /\ TypeOK
      /\ sw[s].at \in Nat /\ d.id \in Incidents /\ d.count \in Nat /\ Known(d, sw[s].at)
  BY <1>1 DEF Escalate, TurnInv, Blank, RowInv, TypeOK, Due
<1> DEFINE i == d.id
           new == Escalated(inc[i], d, sw[s].at)
<1>3. /\ new.state = inc[i].state
      /\ new.escalatedAt = sw[s].at /\ new.escalationCount = d.count + 1
      /\ new.nextEscalationAt = sw[s].at + EscMinutes[inc[i].severity]
  <2>1. inc[i] \in Row
    BY <1>2, RowNumbers
  <2>2. QED
    BY <2>1 DEF Escalated, Row
<1>4. inc' = [inc EXCEPT ![i] = new]
  BY <1>1
<1> HIDE DEF new
<1>5. \A j \in Incidents : inc'[j] = IF j = i THEN new ELSE inc[j]
  BY <1>2, <1>4 DEF TypeOK
<1>6. \A j \in Incidents :
        timeline'[j]["escalated"] = IF j = i THEN timeline[j]["escalated"] + 1
                                    ELSE timeline[j]["escalated"]
  BY <1>1, <1>2, AppendedEscalated
<1>7. \A j \in Incidents :
        numbered'[j] = IF j = i THEN numbered[j] \cup {d.count + 1} ELSE numbered[j]
  BY <1>1, <1>2 DEF TypeOK
<1>8. ASSUME NEW j \in Incidents PROVE Gapless(j)' /\ Timed(j)'
  <2>1. Gapless(j) /\ Timed(j)
    BY DEF TurnInv
  <2>2. CASE j # i
    BY <1>2, <1>5, <1>6, <1>7, <2>1, <2>2 DEF Gapless, Timed
  <2>3. CASE j = i
    <3> DEFINE n == timeline[i]["escalated"]
    <3>1. n \in Nat /\ inc[i].escalationCount \in Nat /\ EscMinutes[inc[i].severity] \in Nat \ {0}
      BY <1>2, RowNumbers
    <3>2. PICK m \in 0..n : /\ numbered[i] = 1..m
                            /\ inc[i].escalationCount <= m
                            /\ m = n => inc[i].escalationCount = m
      BY <2>1, <2>3 DEF Gapless
    <3>3. d.count \in 0..m
      BY <1>2, <3>2 DEF Known
    <3> DEFINE k == IF d.count = m THEN m + 1 ELSE m
    <3>4. k \in 0..(n + 1) /\ d.count + 1 <= k /\ (k = n + 1 => d.count + 1 = k)
      BY <3>1, <3>2, <3>3
    <3>5. 1..m \cup {d.count + 1} = 1..k
      BY <3>1, <3>2, <3>3
    <3> HIDE DEF k
    <3>6. /\ numbered'[i] = 1..k /\ timeline'[i]["escalated"] = n + 1
          /\ inc'[i].escalationCount = d.count + 1
      BY <1>2, <1>3, <1>5, <1>6, <1>7, <3>2, <3>5
    <3>7. Gapless(i)'
      BY <3>4, <3>6 DEF Gapless
    <3>8. Timed(i)'
      <4>1. /\ inc'[i].escalatedAt = sw[s].at /\ inc'[i].state = inc[i].state
            /\ inc'[i].nextEscalationAt = sw[s].at + EscMinutes[inc[i].severity]
        BY <1>2, <1>3, <1>5
      <4>2. QED
        BY <1>2, <3>1, <4>1 DEF Timed, Known
    <3>9. QED
      BY <2>3, <3>7, <3>8
  <2>4. QED
    BY <2>2, <2>3
<1>9. ASSUME NEW j \in Incidents, inc'[j].state = "absent"
      PROVE  inc'[j].escalatedAt = 0 /\ inc'[j].escalationCount = 0
  <2>1. j # i
    BY <1>2, <1>3, <1>5, <1>9 DEF Known
  <2>2. QED
    BY <1>5, <1>9, <2>1 DEF TurnInv, Blank
<1>10. ASSUME NEW r \in Sweeps, NEW e \in sw'[r].todo
       PROVE  sw'[r].pc = "escalate" /\ Known(e, sw[r].at)'
  <2>1. e \in sw[r].todo /\ sw'[r].at = sw[r].at /\ sw'[r].pc = sw[r].pc
    BY <1>1, <1>2, <1>10, DoneLess
  <2>2. e.id \in Incidents /\ Known(e, sw[r].at)
    BY <1>2, <2>1 DEF TurnInv, TypeOK, Due
  <2>3. inc'[e.id].state = inc[e.id].state /\ numbered[e.id] \subseteq numbered'[e.id]
    BY <1>3, <1>5, <1>7, <2>2
  <2>4. QED
    BY <1>2, <2>1, <2>2, <2>3 DEF Known, TurnInv
<1>11. QED
  BY <1>8, <1>9, <1>10 DEF TurnInv, Blank

LEMMA NextTurn ==
  ASSUME TurnInv, [Next]_vars
  PROVE  TurnInv'
<1>1. RowInv'
  BY NextInv DEF TurnInv, Blank
<1>2. CASE \E s \in Sweeps : SweepStep(s)
  BY <1>1, <1>2, StartSweepTurn, EscalateTurn DEF SweepStep
<1>3. CASE ~ \E s \in Sweeps : SweepStep(s)
  BY <1>1, <1>3, OtherStepsCalm, CalmTurn DEF TurnInv
<1>4. QED
  BY <1>2, <1>3

LEMMA InitTurn == Init => TurnInv
<1> SUFFICES ASSUME Init PROVE TurnInv
  OBVIOUS
<1>1. RowInv
  BY InitInv
<1>2. ASSUME NEW i \in Incidents
      PROVE  /\ inc[i].state = "absent" /\ inc[i].escalatedAt = 0 /\ inc[i].escalationCount = 0
             /\ timeline[i]["escalated"] = 0 /\ numbered[i] = {} /\ now = 1
  BY DEF Init, NewRow, Kinds
<1>3. ASSUME NEW i \in Incidents PROVE Gapless(i) /\ Timed(i)
  <2>1. /\ 0 \in 0..timeline[i]["escalated"] /\ numbered[i] = 1..0
        /\ inc[i].escalationCount <= 0 /\ inc[i].escalationCount = 0
    BY <1>2
  <2>2. Gapless(i)
    BY <2>1 DEF Gapless
  <2>3. QED
    BY <1>2, <2>2 DEF Timed
<1>4. \A s \in Sweeps : sw[s].todo = {}
  BY DEF Init, IdleSweep
<1>5. QED
  BY <1>1, <1>2, <1>3, <1>4 DEF TurnInv, Blank

(* However sweeps overlap, the numbers of an incident's escalations have no *)
(* gap, and the column is their number until one of them is used twice.     *)
THEOREM NumbersHaveNoGap == Spec => []EscalationsNumbered
<1>1. TurnInv => EscalationsNumbered
  BY DEF TurnInv, Gapless, EscalationsNumbered
<1>2. TurnInv /\ [Next]_vars => TurnInv'
  BY NextTurn
<1>3. QED
  BY <1>1, <1>2, InitTurn, PTL DEF Spec

(* No sweep takes an incident a second time while one that was already late *)
(* then is left behind: the order of the sweep is by the next escalation,   *)
(* and an escalation moves its incident behind whatever is late.            *)
THEOREM NobodyIsPassedOver == Spec => NoSecondTurn
<1> DEFINE Turn ==
      \A s \in Sweeps : sw[s].pc = "idle" =>
        \A j \in Taken(s)', i \in Incidents \ Taken(s)' :
          Late(i) => inc[j].escalatedAt < inc[i].nextEscalationAt
<1>1. TurnInv /\ [Next]_vars => TurnInv'
  BY NextTurn
<1>2. TurnInv /\ [Next]_vars => [Turn]_vars
  <2> SUFFICES ASSUME TurnInv, [Next]_vars, NEW s \in Sweeps, sw[s].pc = "idle",
                      NEW j \in Taken(s)', NEW i \in Incidents, i \notin Taken(s)', Late(i),
                      vars' # vars
               PROVE  inc[j].escalatedAt < inc[i].nextEscalationAt
    OBVIOUS
  <2>1. PICK d \in sw'[s].todo : d.id = j
    BY DEF Taken
  <2>2. CASE StartSweep(s)
    <3> DEFINE Slow == {h \in Incidents : Overdue(h, now)}
    <3>1. PICK W \in First(Limit, Slow) :
            sw' = [sw EXCEPT ![s] =
                     IF W = {} THEN IdleSweep
                     ELSE [pc |-> "escalate", at |-> now,
                           todo |-> {[id |-> h, count |-> inc[h].escalationCount] : h \in W}]]
      BY <2>2 DEF StartSweep
    <3>2. sw \in [Sweeps -> [pc : {"idle", "escalate"}, at : Nat, todo : SUBSET Due]]
      BY DEF TurnInv, Blank, RowInv, TypeOK
    <3>3. W # {} /\ sw'[s].todo = {[id |-> h, count |-> inc[h].escalationCount] : h \in W}
      BY <2>1, <3>1, <3>2 DEF IdleSweep
    <3>4. Taken(s)' = W
      <4>1. ASSUME NEW h \in W PROVE h \in Taken(s)'
        <5>1. [id |-> h, count |-> inc[h].escalationCount] \in sw'[s].todo
          BY <3>3
        <5>2. QED
          BY <5>1 DEF Taken
      <4>2. ASSUME NEW e \in sw'[s].todo PROVE e.id \in W
        BY <3>3
      <4>3. QED
        BY <4>1, <4>2 DEF Taken
    <3>5. W \subseteq Slow /\ \A g \in W, h \in Slow \ W : Before(g, h)
      BY DEF First, kSubset
    <3>6. i \in Slow
      BY DEF Late, Overdue
    <3>7. j \in Incidents /\ Overdue(j, now) /\ Before(j, i)
      BY <3>4, <3>5, <3>6
    <3>8. /\ {inc[j].escalatedAt, inc[j].nextEscalationAt, inc[i].nextEscalationAt} \subseteq Nat
      BY <3>7, RowNumbers DEF TurnInv, Blank
    <3>9. /\ inc[j].escalatedAt < inc[j].nextEscalationAt
          /\ inc[j].nextEscalationAt <= inc[i].nextEscalationAt
      BY <3>7, <3>8 DEF TurnInv, Timed, Overdue, Before
    <3>10. QED
      BY <3>8, <3>9
  <2>3. CASE sw'[s].todo \subseteq sw[s].todo
    BY <2>1, <2>3 DEF TurnInv
  <2>4. StartSweep(s) \/ sw'[s].todo \subseteq sw[s].todo
    <3>1. CASE \E r \in Sweeps : StartSweep(r)
      BY <3>1, StartSweepShape DEF TurnInv, Blank
    <3>2. CASE \E r \in Sweeps : Escalate(r)
      <4>1. PICK r \in Sweeps : \E e \in sw[r].todo : Done(r, e)
        BY <3>2 DEF Escalate
      <4>2. QED
        BY <4>1, DoneLess DEF TurnInv, Blank, RowInv
    <3>3. CASE ~ \E r \in Sweeps : SweepStep(r)
      BY <3>3, OtherStepsCalm DEF TurnInv, Calm
    <3>4. QED
      BY <3>1, <3>2, <3>3 DEF SweepStep
  <2>5. QED
    BY <2>2, <2>3, <2>4
<1>3. QED
  BY <1>1, <1>2, InitTurn, PTL DEF Spec, NoSecondTurn

-----------------------------------------------------------------------------
(* One sweep at a time                                                      *)

(* A row agrees with its timeline, was not escalated in the future, and if  *)
(* it is open waits at least its severity's interval before the next time.  *)
Paced(row, escalations) ==
  /\ row.escalationCount = escalations
  /\ row.escalatedAt <= now
  /\ row.state = "absent" => row.escalatedAt = 0 /\ escalations = 0
  /\ row.state = "open" /\ row.escalatedAt # 0
       => row.nextEscalationAt >= row.escalatedAt + EscMinutes[row.severity]

(* What a sweep remembers of a due incident is still so: operators change   *)
(* neither the count nor the time of the last escalation.                   *)
Fresh(d, at) ==
  /\ at <= now
  /\ d.count = inc[d.id].escalationCount
  /\ inc[d.id].state # "absent"
  /\ inc[d.id].escalatedAt # 0
       => at >= inc[d.id].escalatedAt + EscMinutes[inc[d.id].severity]

PaceInv ==
  /\ RowInv
  /\ \A i \in Incidents : Paced(inc[i], timeline[i]["escalated"])
  /\ \A s \in Sweeps : \A d \in sw[s].todo : Fresh(d, sw[s].at)

OneSweep == \A r, s \in Sweeps : r = s

LEMMA PacedBlank == PaceInv => Blank
BY DEF PaceInv, Blank, Paced, RowInv, TypeOK

LEMMA UnescalatedPaced ==
  ASSUME PaceInv, RowInv', NEW i \in Incidents, Unescalated(i), now' >= now
  PROVE  Paced(inc[i], timeline[i]["escalated"])'
<1>1. /\ inc[i] \in Row /\ inc'[i] \in Row /\ now \in Nat /\ now' \in Nat
      /\ Paced(inc[i], timeline[i]["escalated"])
  BY DEF PaceInv, RowInv, TypeOK
<1>2. /\ EscMinutes[inc'[i].severity] \in Nat
      /\ {inc'[i].escalatedAt, inc[i].escalatedAt, inc'[i].nextEscalationAt} \subseteq Nat
  BY <1>1, IncidentAssumption DEF Row
<1>3. QED
  BY <1>1, <1>2 DEF Unescalated, Paced

LEMMA CalmInv ==
  ASSUME PaceInv, RowInv', Calm
  PROVE  PaceInv'
<1>1. \A i \in Incidents : Paced(inc[i], timeline[i]["escalated"])'
  BY UnescalatedPaced DEF Calm
<1>2. ASSUME NEW s \in Sweeps, NEW d \in sw'[s].todo
      PROVE  Fresh(d, sw[s].at)'
  <2> DEFINE at == sw[s].at
  <2>1. sw'[s] = sw[s] /\ d \in sw[s].todo
    BY <1>2 DEF Calm
  <2>2. at \in Nat /\ d.id \in Incidents
    BY <2>1 DEF PaceInv, RowInv, TypeOK, Due
  <2>3. Fresh(d, at)
    BY <2>1 DEF PaceInv
  <2>4. /\ at' = at
        /\ now \in Nat /\ now' \in Nat /\ now' >= now
        /\ Unescalated(d.id)
    <3>1. now \in Nat /\ now' \in Nat
      BY DEF PaceInv, RowInv, TypeOK
    <3>2. QED
      BY <2>1, <2>2, <3>1 DEF Calm
  <2> HIDE DEF at
  <2>5. Fresh(d, at)'
    BY <2>2, <2>3, <2>4 DEF Fresh, Unescalated
  <2>6. QED
    BY <2>5 DEF at
<1>3. QED
  BY <1>1, <1>2 DEF PaceInv

LEMMA StartSweepPace ==
  ASSUME PaceInv, RowInv', NEW s \in Sweeps, StartSweep(s)
  PROVE  PaceInv'
<1>1. /\ inc' = inc /\ timeline' = timeline /\ now' = now /\ now \in Nat
  BY DEF StartSweep, PaceInv, RowInv, TypeOK
<1>2. ASSUME NEW W \in SUBSET Incidents, \A i \in W : Overdue(i, now), NEW i \in W
      PROVE  Fresh([id |-> i, count |-> inc[i].escalationCount], now)
  <2>1. /\ inc[i] \in Row /\ TimerOK(inc[i]) /\ Paced(inc[i], timeline[i]["escalated"])
    BY DEF PaceInv, RowInv, RowOK, TypeOK
  <2>2. /\ inc[i].state = "open" /\ inc[i].nextEscalationAt <= now
    BY <1>2, <2>1 DEF Overdue, TimerOK
  <2>3. /\ EscMinutes[inc[i].severity] \in Nat
        /\ inc[i].escalatedAt \in Nat /\ inc[i].nextEscalationAt \in Nat
    BY <2>1, IncidentAssumption DEF Row
  <2>4. inc[i].escalatedAt # 0 => now >= inc[i].escalatedAt + EscMinutes[inc[i].severity]
    BY <1>1, <2>1, <2>2, <2>3 DEF Paced
  <2>5. QED
    BY <1>1, <2>2, <2>4 DEF Fresh
<1>3. ASSUME NEW r \in Sweeps, NEW d \in sw'[r].todo
      PROVE  Fresh(d, sw'[r].at)
  <2>1. CASE r # s
    BY <1>3, <2>1, StartSweepShape DEF PaceInv
  <2>2. CASE r = s /\ sw'[s] = IdleSweep
    BY <1>3, <2>2 DEF IdleSweep
  <2>3. CASE r = s /\ sw'[s] # IdleSweep
    <3>1. PICK W \in SUBSET Incidents :
            /\ \A i \in W : Overdue(i, now)
            /\ sw'[s] = [pc |-> "escalate", at |-> now,
                         todo |-> {[id |-> i, count |-> inc[i].escalationCount] : i \in W}]
      BY <2>3, StartSweepShape DEF PaceInv
    <3>2. /\ sw'[s].todo = {[id |-> i, count |-> inc[i].escalationCount] : i \in W}
          /\ sw'[s].at = now
      BY <3>1
    <3>3. PICK i \in W : d = [id |-> i, count |-> inc[i].escalationCount]
      BY <1>3, <2>3, <3>2
    <3>4. QED
      BY <1>2, <2>3, <3>1, <3>2, <3>3
  <2>4. QED
    BY <2>1, <2>2, <2>3
<1>4. \A r \in Sweeps : \A d \in sw'[r].todo : Fresh(d, sw[r].at)'
  BY <1>1, <1>3 DEF Fresh
<1>5. QED
  BY <1>1, <1>4 DEF PaceInv, Paced

(* Where the single sweep is needed: the others would still remember the    *)
(* count and the time that this escalation replaces.                        *)
LEMMA EscalatePace ==
  ASSUME OneSweep, PaceInv, RowInv', NEW s \in Sweeps, Escalate(s)
  PROVE  PaceInv'
<1>1. PICK d \in sw[s].todo : /\ inc' = [inc EXCEPT ![d.id] = Escalated(@, d, sw[s].at)]
                              /\ timeline' = Appended(d.id, "escalated")
                              /\ Done(s, d)
  BY DEF Escalate
<1>2. /\ now' = now /\ now \in Nat
      /\ sw[s].at \in Nat /\ d \in Due /\ d.id \in Incidents /\ Fresh(d, sw[s].at)
  BY <1>1 DEF Escalate, PaceInv, RowInv, TypeOK, Due
<1> DEFINE new == Escalated(inc[d.id], d, sw[s].at)
<1>3. /\ new.state = inc[d.id].state /\ new.severity = inc[d.id].severity
      /\ new.escalatedAt = sw[s].at /\ new.escalationCount = d.count + 1
      /\ new.nextEscalationAt = sw[s].at + EscMinutes[inc[d.id].severity]
  <2>1. inc[d.id] \in Row
    BY <1>2 DEF PaceInv, RowInv, TypeOK
  <2>2. QED
    BY <2>1 DEF Escalated, Row
<1>4. inc' = [inc EXCEPT ![d.id] = new]
  BY <1>1
<1> HIDE DEF new
<1>5. \A j \in Incidents : inc'[j] = IF j = d.id THEN new ELSE inc[j]
  BY <1>4 DEF PaceInv, RowInv, TypeOK
<1>6. \A j \in Incidents :
        timeline'[j]["escalated"] = IF j = d.id THEN timeline[j]["escalated"] + 1
                                    ELSE timeline[j]["escalated"]
  BY <1>1, <1>2, AppendedEscalated DEF PaceInv, RowInv
<1>7. ASSUME NEW j \in Incidents PROVE Paced(inc[j], timeline[j]["escalated"])'
  <2>1. Paced(inc[j], timeline[j]["escalated"])
    BY DEF PaceInv
  <2>2. CASE j # d.id
    BY <1>2, <1>5, <1>6, <2>1, <2>2 DEF Paced
  <2>3. CASE j = d.id
    <3>1. /\ inc'[j] = new /\ EscMinutes[inc[j].severity] \in Nat
          /\ timeline'[j]["escalated"] = timeline[j]["escalated"] + 1
          /\ d.count = timeline[j]["escalated"]
          /\ sw[s].at <= now /\ inc[j].state # "absent"
      <4>1. inc[j] \in Row
        BY DEF PaceInv, RowInv, TypeOK
      <4>2. inc[j].severity \in Severities
        BY <4>1 DEF Row
      <4>3. QED
        BY <1>2, <1>5, <1>6, <2>1, <2>3, <4>2, IncidentAssumption DEF Paced, Fresh
    <3>2. QED
      BY <1>2, <1>3, <2>3, <3>1 DEF Paced
  <2>4. QED
    BY <2>2, <2>3
<1>8. ASSUME NEW r \in Sweeps, NEW e \in sw'[r].todo PROVE Fresh(e, sw[r].at)'
  <2>1. r = s
    BY DEF OneSweep
  <2>2. e \in sw[s].todo /\ e # d /\ sw'[s].at = sw[s].at
    <3>1. sw \in [Sweeps -> [pc : {"idle", "escalate"}, at : Nat, todo : SUBSET Due]]
      BY DEF PaceInv, RowInv, TypeOK
    <3>2. CASE sw[s].todo = {d}
      BY <1>1, <1>8, <2>1, <3>1, <3>2 DEF Done, IdleSweep
    <3>3. CASE sw[s].todo # {d}
      BY <1>1, <1>8, <2>1, <3>1, <3>3 DEF Done
    <3>4. QED
      BY <3>2, <3>3
  <2>3. e \in Due /\ Fresh(e, sw[s].at)
    BY <2>2 DEF PaceInv, RowInv, TypeOK
  <2>4. e.id # d.id
    BY <1>2, <2>2, <2>3 DEF Fresh, Due
  <2>5. e.id \in Incidents /\ inc'[e.id] = inc[e.id]
    BY <1>5, <2>3, <2>4 DEF Due
  <2>6. QED
    BY <1>2, <2>1, <2>2, <2>3, <2>5 DEF Fresh
<1>9. QED
  BY <1>7, <1>8 DEF PaceInv

LEMMA NextPace ==
  ASSUME OneSweep, PaceInv, [Next]_vars
  PROVE  PaceInv'
<1>1. RowInv'
  BY NextInv DEF PaceInv
<1>2. CASE \E s \in Sweeps : SweepStep(s)
  BY <1>1, <1>2, StartSweepPace, EscalatePace DEF SweepStep
<1>3. CASE ~ \E s \in Sweeps : SweepStep(s)
  BY <1>1, <1>3, PacedBlank, OtherStepsCalm, CalmInv
<1>4. QED
  BY <1>2, <1>3

LEMMA InitPace == Init => PaceInv
<1> SUFFICES ASSUME Init PROVE PaceInv
  OBVIOUS
<1>1. RowInv
  BY InitInv
<1>2. ASSUME NEW i \in Incidents PROVE Paced(inc[i], timeline[i]["escalated"])
  <2>1. /\ inc[i].state = "absent" /\ inc[i].escalatedAt = 0 /\ inc[i].escalationCount = 0
        /\ timeline[i]["escalated"] = 0 /\ now = 1
    BY DEF Init, NewRow, Kinds
  <2>2. QED
    BY <2>1 DEF Paced
<1>3. QED
  BY <1>1, <1>2 DEF Init, PaceInv, IdleSweep

(* With one sweep at a time, the columns and the timeline never disagree on *)
(* how often an incident was escalated. Two sweeps would: each writes the   *)
(* count it read plus one.                                                  *)
THEOREM CountedWithOneSweep == ASSUME OneSweep PROVE Spec => []CountIsExact
<1>1. PaceInv => CountIsExact
  BY DEF PaceInv, Paced, CountIsExact
<1>2. OneSweep
  OBVIOUS
<1>3. PaceInv /\ [Next]_vars => PaceInv'
  BY <1>2, NextPace
<1>4. QED
  BY <1>1, <1>3, InitPace, PTL DEF Spec

(* With one sweep at a time, nobody is escalated to twice within the        *)
(* interval of the incident's severity.                                     *)
THEOREM PacedWithOneSweep == ASSUME OneSweep PROVE Spec => EscalationsPaced
<1> DEFINE Pace ==
      \A i \in Incidents :
        inc'[i].escalatedAt # inc[i].escalatedAt /\ inc[i].escalatedAt # 0
          => inc'[i].escalatedAt >= inc[i].escalatedAt + EscMinutes[inc[i].severity]
<1>1. OneSweep
  OBVIOUS
<1>2. PaceInv /\ [Next]_vars => PaceInv'
  BY <1>1, NextPace
<1>3. PaceInv /\ [Next]_vars => [Pace]_vars
  <2> SUFFICES ASSUME PaceInv, [Next]_vars, NEW i \in Incidents,
                      inc'[i].escalatedAt # inc[i].escalatedAt, inc[i].escalatedAt # 0
               PROVE  inc'[i].escalatedAt >= inc[i].escalatedAt + EscMinutes[inc[i].severity]
    OBVIOUS
  <2>1. PICK s \in Sweeps : Escalate(s)
    <3>1. PICK s \in Sweeps : SweepStep(s)
      BY PacedBlank, OtherStepsCalm DEF Calm, Unescalated
    <3>2. QED
      BY <3>1 DEF SweepStep, StartSweep
  <2>2. PICK d \in sw[s].todo : inc' = [inc EXCEPT ![d.id] = Escalated(@, d, sw[s].at)]
    BY <2>1 DEF Escalate
  <2>3. inc \in [Incidents -> Row] /\ Fresh(d, sw[s].at)
    BY <2>2 DEF PaceInv, RowInv, TypeOK
  <2>4. d.id = i
    BY <2>2, <2>3
  <2>5. inc'[i].escalatedAt = sw[s].at
    BY <2>2, <2>3, <2>4 DEF Escalated, Row
  <2>6. QED
    BY <2>3, <2>4, <2>5 DEF Fresh
<1>4. QED
  BY <1>2, <1>3, InitPace, PTL DEF Spec, EscalationsPaced
=============================================================================
