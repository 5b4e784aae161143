------------------------ MODULE QueueAdmissionProofs ------------------------
(* Theorems about QueueAdmission, for every policy and any number of hosts, *)
(* actions and calls. The one that needs calls not to overlap assumes Serial.*)
EXTENDS QueueAdmission, FiniteSetTheorems, TLAPS

-----------------------------------------------------------------------------
(* Types                                                                    *)

(* A call that is under way has a host, and an action where it needs one;   *)
(* what it still has to read is nothing once it is past its reads, and an   *)
(* autonomous call that has picked an action had not reached a limit.       *)
OperatorInv ==
  \A o \in Operators :
    /\ op[o].pc # "idle" => op[o].host \in Hosts /\ op[o].act \in Acts
    /\ op[o].pc = "insert" => op[o].left = {}
    /\ op[o].left \subseteq Reads \/ op[o].left = {"dry-run"}

SweepInv ==
  \A s \in Sweeps :
    /\ sw[s].pc # "idle" => sw[s].host \in Hosts
    /\ sw[s].pc \in {"next", "latest", "insert"} => sw[s].left = {}
    /\ sw[s].pc \in {"latest", "insert"} => sw[s].act \in Acts /\ ~Full(s)

(* A row that is not there has never been written, and no row is of a later *)
(* time than the clock's.                                                   *)
RowInv ==
  \A r \in Runs : /\ run[r].state = "absent" => run[r].kind = "execute"
                  /\ run[r].at <= now

(* The runs that count as executes.                                         *)
Counts(row) == row.state # "absent" /\ row.kind # "dry-run"

(* A replay takes executes, and its source is one that has ended.           *)
ReplayInv ==
  \A p \in Replays :
    /\ \A r \in rp[p].todo : Counts(run[r])
    /\ rp[p].pc \in {"count", "create"} =>
         /\ rp[p].source \in Runs
         /\ Counts(run[rp[p].source]) /\ run[rp[p].source].state \notin Active

TypeInv == TypeOK /\ OperatorInv /\ SweepInv /\ RowInv /\ ReplayInv

LEMMA InsertFacts ==
  ASSUME TypeOK, NEW state \in States \ {"absent"}, NEW kind \in Kinds, NEW h \in Hosts,
         NEW a \in Acts, NEW held \in BOOLEAN, Insert(state, kind, h, a, held)
  PROVE  \E r \in Runs :
           /\ run[r].state = "absent"
           /\ run' = [run EXCEPT ![r] = [state |-> state, kind |-> kind, host |-> h,
                                         act |-> a, at |-> now, held |-> held, replay |-> FALSE]]
           /\ run' \in [Runs -> Row]
<1>1. PICK r \in Free :
        run' = [run EXCEPT ![r] = [state |-> state, kind |-> kind, host |-> h,
                                   act |-> a, at |-> now, held |-> held, replay |-> FALSE]]
  BY DEF Insert
<1>2. r \in Runs /\ run[r].state = "absent"
  BY DEF Free
<1>3. [state |-> state, kind |-> kind, host |-> h, act |-> a, at |-> now,
       held |-> held, replay |-> FALSE] \in Row
  BY DEF TypeOK, Row
<1>4. run' \in [Runs -> Row]
  BY <1>1, <1>2, <1>3 DEF TypeOK
<1>5. QED
  BY <1>1, <1>2, <1>4

(* What a drain or a decision makes of a row leaves all but its state alone.*)
RowStep ==
  \E r \in Runs : Approve(r) \/ Reject(r) \/ Claim(r) \/ Settle(r)

LEMMA RowStepFacts ==
  ASSUME TypeOK, RowStep
  PROVE  /\ run' \in [Runs -> Row]
         /\ UNCHANGED <<op, sw, rp, now>>
         /\ \A q \in Runs :
              /\ run'[q].kind = run[q].kind /\ run'[q].host = run[q].host
              /\ run'[q].act = run[q].act /\ run'[q].at = run[q].at
              /\ run'[q].replay = run[q].replay
              /\ run[q].state \notin Active => run'[q].state = run[q].state
              /\ run'[q].state = "absent" => run[q].state = "absent"
<1>1. PICK r \in Runs : Approve(r) \/ Reject(r) \/ Claim(r) \/ Settle(r)
  BY DEF RowStep
<1>2. UNCHANGED <<op, sw, rp, now>>
  BY <1>1 DEF Approve, Reject, Claim, Settle
<1>3. run[r] \in Row /\ run \in [Runs -> Row]
  BY DEF TypeOK
<1>4. \E row \in Row :
        /\ run' = [run EXCEPT ![r] = row]
        /\ row.kind = run[r].kind /\ row.host = run[r].host
        /\ row.act = run[r].act /\ row.at = run[r].at /\ row.replay = run[r].replay
        /\ run[r].state \in Active /\ row.state # "absent"
  <2>1. CASE Approve(r)
    <3> DEFINE row == [run[r] EXCEPT !.held = FALSE]
    <3>1. run' = [run EXCEPT ![r] = row] /\ run[r].state = "queued"
      BY <1>3, <2>1 DEF Approve
    <3>2. /\ row \in Row /\ row.kind = run[r].kind /\ row.host = run[r].host
          /\ row.act = run[r].act /\ row.at = run[r].at /\ row.replay = run[r].replay
          /\ row.state = run[r].state
      BY <1>3 DEF Row
    <3> HIDE DEF row
    <3>3. QED
      BY <3>1, <3>2 DEF Active
  <2>2. CASE Claim(r)
    <3> DEFINE row == [run[r] EXCEPT !.state = "running"]
    <3>1. run' = [run EXCEPT ![r] = row] /\ run[r].state = "queued"
      BY <1>3, <2>2 DEF Claim
    <3>2. /\ row \in Row /\ row.kind = run[r].kind /\ row.host = run[r].host
          /\ row.act = run[r].act /\ row.at = run[r].at /\ row.replay = run[r].replay
          /\ row.state = "running"
      BY <1>3 DEF Row, States
    <3> HIDE DEF row
    <3>3. QED
      BY <3>1, <3>2 DEF Active
  <2>3. CASE Settle(r)
    <3>1. PICK to \in {"queued", "succeeded", "failed", "canceled"} :
            run' = [run EXCEPT ![r].state = to]
      BY <2>3 DEF Settle
    <3> DEFINE row == [run[r] EXCEPT !.state = to]
    <3>2. run' = [run EXCEPT ![r] = row] /\ run[r].state = "running"
      BY <1>3, <2>3, <3>1 DEF Settle
    <3>3. /\ row \in Row /\ row.kind = run[r].kind /\ row.host = run[r].host
          /\ row.act = run[r].act /\ row.at = run[r].at /\ row.replay = run[r].replay
          /\ row.state = to
      BY <1>3 DEF Row, States
    <3> HIDE DEF row
    <3>4. QED
      BY <3>2, <3>3 DEF Active
  <2>4. CASE Reject(r)
    <3> DEFINE row == [run[r] EXCEPT !.state = "canceled", !.held = TRUE]
    <3>1. run' = [run EXCEPT ![r] = row] /\ run[r].state = "queued"
      BY <1>3, <2>4 DEF Reject
    <3>2. /\ row \in Row /\ row.kind = run[r].kind /\ row.host = run[r].host
          /\ row.act = run[r].act /\ row.at = run[r].at /\ row.replay = run[r].replay
          /\ row.state = "canceled"
      BY <1>3 DEF Row, States
    <3> HIDE DEF row
    <3>3. QED
      BY <3>1, <3>2 DEF Active
  <2>5. QED
    BY <1>1, <2>1, <2>2, <2>3, <2>4
<1>5. PICK row \in Row :
        /\ run' = [run EXCEPT ![r] = row]
        /\ row.kind = run[r].kind /\ row.host = run[r].host
        /\ row.act = run[r].act /\ row.at = run[r].at /\ row.replay = run[r].replay
        /\ run[r].state \in Active /\ row.state # "absent"
  BY <1>4
<1>6. QED
  BY <1>2, <1>3, <1>5

-----------------------------------------------------------------------------
(* What a step does to the rows                                             *)

(* The runs that count are the same, and none of them has become active.    *)
Kept ==
  \A q \in Runs :
    /\ Counts(run'[q]) <=> Counts(run[q])
    /\ Counts(run[q]) =>
         /\ run'[q].kind = run[q].kind /\ run'[q].host = run[q].host
         /\ run'[q].act = run[q].act /\ run'[q].at = run[q].at
         /\ run'[q].replay = run[q].replay
         /\ run'[q].state \in Active => run[q].state \in Active

(* No run has been admitted.                                                *)
Admits(row) == Counts(row) /\ ~row.replay

KeptAdmitted == \A q \in Runs : Admits(run'[q]) => Admits(run[q])

(* One run has been admitted.                                               *)
Grew(r, h, a) ==
  /\ run[r].state = "absent" /\ run'[r].state = "queued"
  /\ run'[r].kind # "dry-run" /\ run'[r].host = h /\ run'[r].act = a
  /\ run'[r].at = now /\ ~run'[r].replay
  /\ \A q \in Runs \ {r} : run'[q] = run[q]

(* A replay of the run q has been added.                                    *)
Replayed(r, q) ==
  /\ run[r].state = "absent" /\ run'[r].replay
  /\ run'[r].kind = run[q].kind /\ run'[r].host = run[q].host
  /\ run'[r].act = run[q].act /\ run'[r].at = now
  /\ \A t \in Runs \ {r} : Counts(run'[t]) => Counts(run[t])

(* A succeeded dry run is there for good.                                   *)
DryRunsKept ==
  \A q \in Runs :
    /\ run[q].state = "succeeded" /\ run[q].kind = "dry-run"
    => /\ run'[q].state = "succeeded" /\ run'[q].kind = "dry-run"
       /\ run'[q].host = run[q].host /\ run'[q].act = run[q].act
       /\ run'[q].at = run[q].at

(* So is an execute, and one that has ended stays so.                       *)
ExecutesKept ==
  \A q \in Runs : Counts(run[q]) =>
    /\ Counts(run'[q])
    /\ run'[q].kind = run[q].kind /\ run'[q].host = run[q].host
    /\ run'[q].act = run[q].act /\ run'[q].at = run[q].at
    /\ run'[q].replay = run[q].replay
    /\ run'[q].state \in Active => run[q].state \in Active

RowsRead == run' \in [Runs -> Row] /\ RowInv' /\ DryRunsKept /\ ExecutesKept

LEMMA KeptAll == ASSUME Kept PROVE KeptAdmitted /\ ExecutesKept
BY DEF Kept, KeptAdmitted, ExecutesKept, Admits

LEMMA DryRunFacts ==
  ASSUME TypeInv, NEW h \in Hosts, NEW a \in Acts, DryRun(h, a)
  PROVE  UNCHANGED <<op, sw, rp, now>> /\ RowsRead /\ Kept
<1>1. UNCHANGED <<op, sw, rp, now>>
  BY DEF DryRun
<1> DEFINE held == FALSE
<1>2. PICK r \in Runs :
        /\ run[r].state = "absent"
        /\ run' = [run EXCEPT ![r] = [state |-> "succeeded", kind |-> "dry-run", host |-> h,
                                      act |-> a, at |-> now, held |-> held, replay |-> FALSE]]
        /\ run' \in [Runs -> Row]
  <2>1. /\ "succeeded" \in States \ {"absent"} /\ "dry-run" \in Kinds /\ held \in BOOLEAN
        /\ TypeOK
    BY DEF TypeInv, States, Kinds
  <2>2. Insert("succeeded", "dry-run", h, a, held)
    BY DEF DryRun
  <2> HIDE DEF held
  <2>3. QED
    BY <2>1, <2>2, InsertFacts
<1>3. \A q \in Runs \ {r} : run'[q] = run[q]
  BY <1>2 DEF TypeInv, TypeOK
<1>4. /\ run'[r].state = "succeeded" /\ run'[r].kind = "dry-run" /\ run'[r].at = now
  BY <1>2 DEF TypeInv, TypeOK
<1>5. RowInv'
  BY <1>1, <1>3, <1>4 DEF TypeInv, TypeOK, RowInv
<1>6. DryRunsKept
  BY <1>2, <1>3 DEF DryRunsKept
<1>7. Kept
  BY <1>2, <1>3, <1>4 DEF Kept, Counts
<1>8. QED
  BY <1>1, <1>2, <1>5, <1>6, <1>7, KeptAll DEF RowsRead

LEMMA RowStepKeeps ==
  ASSUME TypeInv, RowStep
  PROVE  UNCHANGED <<op, sw, rp, now>> /\ RowsRead /\ Kept
<1>1. /\ run' \in [Runs -> Row]
      /\ UNCHANGED <<op, sw, rp, now>>
      /\ \A q \in Runs :
           /\ run'[q].kind = run[q].kind /\ run'[q].host = run[q].host
           /\ run'[q].act = run[q].act /\ run'[q].at = run[q].at
           /\ run'[q].replay = run[q].replay
           /\ run[q].state \notin Active => run'[q].state = run[q].state
           /\ run'[q].state = "absent" => run[q].state = "absent"
  BY RowStepFacts DEF TypeInv
<1>2. "absent" \notin Active /\ "succeeded" \notin Active
  BY DEF Active
<1>3. RowInv'
  BY <1>1 DEF TypeInv, RowInv
<1>4. DryRunsKept
  BY <1>1, <1>2, Zenon DEF DryRunsKept
<1>5. Kept
  <2> SUFFICES ASSUME NEW q \in Runs
               PROVE  /\ Counts(run'[q]) <=> Counts(run[q])
                      /\ Counts(run[q]) =>
                           /\ run'[q].kind = run[q].kind /\ run'[q].host = run[q].host
                           /\ run'[q].act = run[q].act /\ run'[q].at = run[q].at
                           /\ run'[q].replay = run[q].replay
                           /\ run'[q].state \in Active => run[q].state \in Active
    BY Zenon DEF Kept
  <2>1. run[q].state = "absent" => run'[q].state = "absent"
    BY <1>1, <1>2
  <2>2. QED
    BY <1>1, <2>1 DEF Counts
<1>6. QED
  BY <1>1, <1>3, <1>4, <1>5, KeptAll DEF RowsRead

LEMMA SameRows ==
  ASSUME TypeInv, UNCHANGED run, now' \in {now, now + 1}
  PROVE  RowsRead /\ Kept
<1>1. run' = run /\ run \in [Runs -> Row] /\ now \in Nat
  BY DEF TypeInv, TypeOK
<1>2. \A r \in Runs : run[r].at \in Nat
  BY <1>1 DEF Row
<1>3. RowInv'
  BY <1>1, <1>2 DEF TypeInv, RowInv
<1>4. DryRunsKept /\ Kept
  BY <1>1 DEF DryRunsKept, Kept
<1>5. QED
  BY <1>1, <1>3, <1>4, KeptAll DEF RowsRead

LEMMA InsertGrows ==
  ASSUME TypeInv, NEW kind \in {"execute", "auto"}, NEW h \in Hosts, NEW a \in Acts,
         NEW held \in BOOLEAN, Insert("queued", kind, h, a, held), UNCHANGED now
  PROVE  RowsRead /\ \E r \in Runs : Grew(r, h, a) /\ run'[r].kind = kind
<1>1. PICK r \in Runs :
        /\ run[r].state = "absent"
        /\ run' = [run EXCEPT ![r] = [state |-> "queued", kind |-> kind, host |-> h,
                                      act |-> a, at |-> now, held |-> held, replay |-> FALSE]]
        /\ run' \in [Runs -> Row]
  BY InsertFacts DEF TypeInv, States, Kinds
<1>2. \A q \in Runs \ {r} : run'[q] = run[q]
  BY <1>1 DEF TypeInv, TypeOK
<1>3. /\ run'[r].state = "queued" /\ run'[r].kind = kind /\ run'[r].at = now
      /\ run'[r].host = h /\ run'[r].act = a /\ ~run'[r].replay
  BY <1>1 DEF TypeInv, TypeOK
<1>4. RowInv'
  BY <1>2, <1>3 DEF TypeInv, TypeOK, RowInv
<1>5. DryRunsKept
  BY <1>1, <1>2 DEF DryRunsKept
<1>6. Grew(r, h, a)
  BY <1>1, <1>2, <1>3 DEF Grew
<1>7. ExecutesKept
  BY <1>1, <1>2 DEF ExecutesKept, Counts
<1>8. QED
  BY <1>1, <1>3, <1>4, <1>5, <1>6, <1>7 DEF RowsRead

-----------------------------------------------------------------------------
(* What a step does to the calls                                            *)

OpEdited(o) ==
  /\ op' \in [Operators -> OperatorState]
  /\ \A p \in Operators \ {o} : op'[p] = op[p]

LEMMA OpEdit ==
  ASSUME TypeInv, NEW o \in Operators, NEW rec \in OperatorState,
         op' = [op EXCEPT ![o] = rec]
  PROVE  OpEdited(o) /\ op'[o] = rec
BY DEF TypeInv, TypeOK, OpEdited

LEMMA IdleOperatorTyped ==
  IdleOperator \in OperatorState /\ IdleOperator.pc = "idle" /\ IdleOperator.left = {}
BY DEF IdleOperator, OperatorState

LEMMA RequestFacts ==
  ASSUME TypeInv, NEW o \in Operators, RequestExecute(o)
  PROVE  /\ UNCHANGED <<run, sw, rp, now>> /\ OpEdited(o) /\ MayBegin
         /\ op[o].pc = "idle" /\ op'[o].pc = "check" /\ op'[o].left = Reads
         /\ op'[o].host \in Hosts /\ op'[o].act \in Acts
<1>1. PICK h \in Hosts, a \in Acts :
        op' = [op EXCEPT ![o] = [pc |-> "check", host |-> h, act |-> a, left |-> Reads]]
  BY DEF RequestExecute
<1> DEFINE rec == [pc |-> "check", host |-> h, act |-> a, left |-> Reads]
<1>2. /\ rec \in OperatorState /\ rec.pc = "check" /\ rec.left = Reads
      /\ rec.host = h /\ rec.act = a
  BY DEF OperatorState
<1>3. op' = [op EXCEPT ![o] = rec]
  BY <1>1
<1> HIDE DEF rec
<1>4. OpEdited(o) /\ op'[o] = rec
  BY <1>2, <1>3, OpEdit
<1>5. QED
  BY <1>2, <1>4 DEF RequestExecute

LEMMA CheckFacts ==
  ASSUME TypeInv, NEW o \in Operators, NEW c \in op[o].left, Check(o, c)
  PROVE  /\ UNCHANGED <<run, sw, rp, now>> /\ OpEdited(o) /\ op[o].pc = "check"
         /\ \/ op'[o] = IdleOperator
            \/ /\ Allows(c, op[o].host, op[o].act)
               /\ op'[o].host = op[o].host /\ op'[o].act = op[o].act
               /\ \/ c = "dry-run" /\ op'[o].pc = "insert" /\ op'[o].left = {}
                  \/ /\ c # "dry-run" /\ op'[o].pc = "check"
                     /\ op'[o].left = op[o].left \ {c}
                  \/ /\ c # "dry-run" /\ op'[o].pc = "check"
                     /\ op'[o].left = {"dry-run"} /\ op[o].left \ {c} = {}
<1>1. UNCHANGED <<run, sw, rp, now>> /\ op[o].pc = "check"
  BY DEF Check
<1>2. op \in [Operators -> OperatorState] /\ op[o] \in OperatorState
  BY DEF TypeInv, TypeOK
<1>3. CASE ~Allows(c, op[o].host, op[o].act)
  <2>1. op' = [op EXCEPT ![o] = IdleOperator]
    BY <1>2, <1>3 DEF Check
  <2>2. QED
    BY <1>1, <2>1, OpEdit, IdleOperatorTyped
<1>4. CASE Allows(c, op[o].host, op[o].act) /\ c = "dry-run"
  <2> DEFINE rec == [op[o] EXCEPT !.pc = "insert", !.left = {}]
  <2>1. op' = [op EXCEPT ![o] = rec]
    BY <1>2, <1>4 DEF Check
  <2>2. /\ rec \in OperatorState /\ rec.pc = "insert" /\ rec.left = {}
        /\ rec.host = op[o].host /\ rec.act = op[o].act
    BY <1>2 DEF OperatorState
  <2> HIDE DEF rec
  <2>3. OpEdited(o) /\ op'[o] = rec
    BY <2>1, <2>2, OpEdit
  <2>4. QED
    BY <1>1, <1>4, <2>2, <2>3
<1>5. CASE Allows(c, op[o].host, op[o].act) /\ c # "dry-run" /\ op[o].left \ {c} = {}
  <2> DEFINE rec == [op[o] EXCEPT !.left = {"dry-run"}]
  <2>1. op' = [op EXCEPT ![o] = rec]
    BY <1>2, <1>5 DEF Check
  <2>2. /\ rec \in OperatorState /\ rec.pc = op[o].pc /\ rec.left = {"dry-run"}
        /\ rec.host = op[o].host /\ rec.act = op[o].act
    BY <1>2 DEF OperatorState
  <2> HIDE DEF rec
  <2>3. OpEdited(o) /\ op'[o] = rec
    BY <2>1, <2>2, OpEdit
  <2>4. QED
    BY <1>1, <1>5, <2>2, <2>3
<1>6. CASE Allows(c, op[o].host, op[o].act) /\ c # "dry-run" /\ op[o].left \ {c} # {}
  <2> DEFINE rec == [op[o] EXCEPT !.left = op[o].left \ {c}]
  <2>1. op' = [op EXCEPT ![o] = rec]
    BY <1>2, <1>6 DEF Check
  <2>2. /\ rec \in OperatorState /\ rec.pc = op[o].pc /\ rec.left = op[o].left \ {c}
        /\ rec.host = op[o].host /\ rec.act = op[o].act
    BY <1>2 DEF OperatorState
  <2> HIDE DEF rec
  <2>3. OpEdited(o) /\ op'[o] = rec
    BY <2>1, <2>2, OpEdit
  <2>4. QED
    BY <1>1, <1>6, <2>2, <2>3
<1>7. QED
  BY <1>3, <1>4, <1>5, <1>6

LEMMA ExecuteFacts ==
  ASSUME TypeInv, NEW o \in Operators, Execute(o)
  PROVE  /\ UNCHANGED <<sw, rp, now>> /\ OpEdited(o) /\ RowsRead
         /\ op[o].pc = "insert" /\ op'[o] = IdleOperator
         /\ \E r \in Runs : Grew(r, op[o].host, op[o].act) /\ run'[r].kind = "execute"
<1>1. UNCHANGED <<sw, rp, now>> /\ op[o].pc = "insert"
  BY DEF Execute
<1>2. op[o].host \in Hosts /\ op[o].act \in Acts
  BY <1>1 DEF TypeInv, OperatorInv
<1>3. OpEdited(o) /\ op'[o] = IdleOperator
  BY OpEdit, IdleOperatorTyped DEF Execute
<1> DEFINE held == FALSE
<1>4. Insert("queued", "execute", op[o].host, op[o].act, held) /\ held \in BOOLEAN
  BY DEF Execute
<1> HIDE DEF held
<1>5. RowsRead /\ \E r \in Runs : Grew(r, op[o].host, op[o].act) /\ run'[r].kind = "execute"
  BY <1>1, <1>2, <1>4, InsertGrows
<1>6. QED
  BY <1>1, <1>3, <1>5

LEMMA AbandonExecuteFacts ==
  ASSUME TypeInv, NEW o \in Operators, AbandonExecute(o)
  PROVE  /\ UNCHANGED <<run, sw, rp, now>> /\ OpEdited(o)
         /\ op[o].pc # "idle" /\ op'[o] = IdleOperator
BY OpEdit, IdleOperatorTyped DEF AbandonExecute

SwEdited(s) ==
  /\ sw' \in [Sweeps -> SweepState]
  /\ \A t \in Sweeps \ {s} : sw'[t] = sw[t]

LEMMA SwEdit ==
  ASSUME TypeInv, NEW s \in Sweeps, NEW rec \in SweepState, sw' = [sw EXCEPT ![s] = rec]
  PROVE  SwEdited(s) /\ sw'[s] = rec
BY DEF TypeInv, TypeOK, SwEdited

LEMMA CountKeys ==
  /\ DOMAIN NoCounts = {"host", "total", "hour", "auto"}
  /\ NoCounts \in [{"host", "total", "hour", "auto"} -> Nat]
BY DEF NoCounts

LEMMA IdleSweepTyped ==
  IdleSweep \in SweepState /\ IdleSweep.pc = "idle"
BY CountKeys DEF IdleSweep, SweepState

LEMMA StartFacts ==
  ASSUME TypeInv, NEW s \in Sweeps, StartSweep(s)
  PROVE  /\ UNCHANGED <<run, op, rp, now>> /\ SwEdited(s) /\ MayBegin
         /\ sw[s].pc = "idle" /\ sw'[s].pc = "count" /\ sw'[s].left = DOMAIN NoCounts
         /\ sw'[s].host \in Hosts /\ sw'[s].made = 0
<1>1. PICK h \in Hosts :
       sw' = [sw EXCEPT ![s] = [IdleSweep EXCEPT !.pc = "count", !.host = h,
                                  !.left = DOMAIN NoCounts, !.todo = Acts]]
  BY DEF StartSweep
<1> DEFINE rec == [IdleSweep EXCEPT !.pc = "count", !.host = h,
                                  !.left = DOMAIN NoCounts, !.todo = Acts]
<1>2. /\ rec \in SweepState /\ rec.pc = "count" /\ rec.left = DOMAIN NoCounts
      /\ rec.host = h /\ rec.made = 0
  BY CountKeys DEF IdleSweep, SweepState
<1>3. sw' = [sw EXCEPT ![s] = rec]
  BY <1>1
<1> HIDE DEF rec
<1>4. SwEdited(s) /\ sw'[s] = rec
  BY <1>2, <1>3, SwEdit
<1>5. QED
  BY <1>2, <1>4 DEF StartSweep

LEMMA SubsetsOfRuns ==
  ASSUME NEW S \in SUBSET Runs
  PROVE  IsFiniteSet(S) /\ Cardinality(S) \in Nat
BY AdmissionAssumption, FS_Subset, FS_CardinalityType DEF AdmissionAssumption

LEMMA LimitFacts ==
  /\ DOMAIN Limit = DOMAIN NoCounts
  /\ Limit["host"] = MaxHost /\ Limit["hour"] = MaxHour
  /\ \A c \in DOMAIN NoCounts : Limit[c] \in Nat /\ Limit[c] > 0
BY CountKeys, AdmissionAssumption DEF Limit, AdmissionAssumption

LEMMA CountOfType ==
  ASSUME NEW c \in DOMAIN NoCounts, NEW h
  PROVE  /\ CountOf(c, h) \in Nat /\ Cardinality(Rows(c, h)) \in Nat
         /\ CountOf(c, h) < Limit[c] => CountOf(c, h) = Cardinality(Rows(c, h))
<1>1. Rows(c, h) \in SUBSET Runs
  BY CountKeys DEF Rows, ActiveOn, Queued, LastHour, AutoLastHour, OnHost, Executes
<1>2. Cardinality(Rows(c, h)) \in Nat /\ Limit[c] \in Nat
  BY <1>1, SubsetsOfRuns, LimitFacts
<1>3. QED
  BY <1>2 DEF CountOf

LEMMA CountFacts ==
  ASSUME TypeInv, NEW s \in Sweeps, NEW c \in sw[s].left, Count(s, c)
  PROVE  /\ UNCHANGED <<run, op, rp, now>> /\ SwEdited(s) /\ sw[s].pc = "count"
         /\ c \in DOMAIN NoCounts
         /\ sw'[s].host = sw[s].host /\ sw'[s].made = sw[s].made
         /\ sw'[s].left = sw[s].left \ {c}
         /\ sw'[s].pc = (IF sw[s].left \ {c} = {} THEN "next" ELSE "count")
         /\ sw'[s].count[c] = CountOf(c, sw[s].host)
         /\ \A d \in DOMAIN NoCounts \ {c} : sw'[s].count[d] = sw[s].count[d]
<1>1. UNCHANGED <<run, op, rp, now>> /\ sw[s].pc = "count"
  BY DEF Count
<1>2. sw \in [Sweeps -> SweepState] /\ sw[s] \in SweepState
  BY DEF TypeInv, TypeOK
<1> DEFINE left  == sw[s].left \ {c}
           count == [sw[s].count EXCEPT ![c] = CountOf(c, sw[s].host)]
           pc    == IF left = {} THEN "next" ELSE "count"
<1>3. c \in DOMAIN NoCounts /\ left \in SUBSET DOMAIN NoCounts
  BY <1>2 DEF SweepState
<1>4. /\ sw[s].count \in [DOMAIN NoCounts -> Nat]
  BY <1>2 DEF SweepState
<1>5. /\ count \in [DOMAIN NoCounts -> Nat]
      /\ count[c] = CountOf(c, sw[s].host)
      /\ \A d \in DOMAIN NoCounts \ {c} : count[d] = sw[s].count[d]
  BY <1>3, <1>4, CountOfType
<1>6. sw' = [sw EXCEPT ![s] = [sw[s] EXCEPT !.count = count, !.left = left, !.pc = pc]]
  <2>1. sw' = [sw EXCEPT ![s] =
          [@ EXCEPT !.count[c] = CountOf(c, sw[s].host), !.left = left, !.pc = pc]]
    BY DEF Count
  <2>2. QED
    BY <1>2, <2>1
<1>7. pc \in {"next", "count"}
  OBVIOUS
<1> HIDE DEF left, count, pc
<1> DEFINE rec == [sw[s] EXCEPT !.count = count, !.left = left, !.pc = pc]
<1>8. /\ rec \in SweepState /\ rec.count = count /\ rec.left = left /\ rec.pc = pc
      /\ rec.host = sw[s].host /\ rec.made = sw[s].made
  BY <1>2, <1>3, <1>5, <1>7 DEF SweepState
<1> HIDE DEF rec
<1>9. SwEdited(s) /\ sw'[s] = rec
  <2>1. sw' = [sw EXCEPT ![s] = rec]
    BY <1>6 DEF rec
  <2>2. QED
    BY <1>8, <2>1, SwEdit
<1>10. QED
  BY <1>1, <1>3, <1>5, <1>8, <1>9 DEF left, pc

LEMMA EndFacts ==
  ASSUME TypeInv, NEW s \in Sweeps, EndSweep(s)
  PROVE  UNCHANGED <<run, op, rp, now>> /\ SwEdited(s) /\ sw'[s] = IdleSweep
BY SwEdit, IdleSweepTyped DEF EndSweep

LEMMA AbandonSweepFacts ==
  ASSUME TypeInv, NEW s \in Sweeps, AbandonSweep(s)
  PROVE  /\ UNCHANGED <<run, op, rp, now>> /\ SwEdited(s)
         /\ sw[s].pc # "idle" /\ sw'[s] = IdleSweep
BY SwEdit, IdleSweepTyped DEF AbandonSweep

LEMMA ConsiderFacts ==
  ASSUME TypeInv, NEW s \in Sweeps, NEW a \in sw[s].todo, Consider(s, a)
  PROVE  /\ UNCHANGED <<run, op, rp, now>> /\ SwEdited(s) /\ sw[s].pc = "next" /\ ~Full(s)
         /\ sw'[s].host = sw[s].host /\ sw'[s].left = sw[s].left
         /\ sw'[s].count = sw[s].count /\ sw'[s].made = sw[s].made
         /\ \/ sw'[s].pc = "next"
            \/ /\ sw'[s].pc = "latest" /\ sw'[s].act \in Acts
               /\ ~Busy(sw'[s].host, sw'[s].act)
<1>1. UNCHANGED <<run, op, rp, now>> /\ sw[s].pc = "next" /\ ~Full(s)
  BY DEF Consider
<1>2. sw \in [Sweeps -> SweepState] /\ sw[s] \in SweepState
  BY DEF TypeInv, TypeOK
<1>3. sw[s].todo \ {a} \in SUBSET Acts /\ a \in Acts
  BY <1>2 DEF SweepState
<1>4. CASE sw' = [sw EXCEPT ![s].todo = @ \ {a}]
  <2> DEFINE rec == [sw[s] EXCEPT !.todo = sw[s].todo \ {a}]
  <2>1. sw' = [sw EXCEPT ![s] = rec]
    BY <1>2, <1>4
  <2>2. /\ rec \in SweepState /\ rec.pc = sw[s].pc /\ rec.host = sw[s].host
        /\ rec.left = sw[s].left /\ rec.count = sw[s].count /\ rec.made = sw[s].made
    BY <1>2, <1>3 DEF SweepState
  <2> HIDE DEF rec
  <2>3. SwEdited(s) /\ sw'[s] = rec
    BY <2>1, <2>2, SwEdit
  <2>4. QED
    BY <1>1, <2>2, <2>3
<1>5. CASE /\ ~Busy(sw[s].host, a)
           /\ sw' = [sw EXCEPT ![s] =
                       [@ EXCEPT !.pc = "latest", !.act = a, !.todo = sw[s].todo \ {a}]]
  <2> DEFINE rec == [sw[s] EXCEPT !.pc = "latest", !.act = a, !.todo = sw[s].todo \ {a}]
  <2>1. sw' = [sw EXCEPT ![s] = rec]
    BY <1>2, <1>5
  <2>2. /\ rec \in SweepState /\ rec.pc = "latest" /\ rec.act = a /\ rec.host = sw[s].host
        /\ rec.left = sw[s].left /\ rec.count = sw[s].count /\ rec.made = sw[s].made
    BY <1>2, <1>3 DEF SweepState
  <2> HIDE DEF rec
  <2>3. SwEdited(s) /\ sw'[s] = rec
    BY <2>1, <2>2, SwEdit
  <2>4. QED
    BY <1>1, <1>3, <1>5, <2>2, <2>3
<1>6. QED
  BY <1>4, <1>5 DEF Consider

LEMMA LatestFacts ==
  ASSUME TypeInv, NEW s \in Sweeps, CheckLatest(s)
  PROVE  /\ UNCHANGED <<run, op, rp, now>> /\ SwEdited(s) /\ sw[s].pc = "latest"
         /\ sw'[s].host = sw[s].host /\ sw'[s].left = sw[s].left /\ sw'[s].act = sw[s].act
         /\ sw'[s].count = sw[s].count /\ sw'[s].made = sw[s].made
         /\ \/ sw'[s].pc = "next"
            \/ sw'[s].pc = "insert" /\ ~CoolingDown(sw[s].host, sw[s].act)
<1>1. UNCHANGED <<run, op, rp, now>> /\ sw[s].pc = "latest"
  BY DEF CheckLatest
<1>2. sw \in [Sweeps -> SweepState] /\ sw[s] \in SweepState
  BY DEF TypeInv, TypeOK
<1> DEFINE pc == IF CoolingDown(sw[s].host, sw[s].act) THEN "next" ELSE "insert"
           rec == [sw[s] EXCEPT !.pc = pc]
<1>3. \/ pc = "next"
      \/ pc = "insert" /\ ~CoolingDown(sw[s].host, sw[s].act)
  OBVIOUS
<1>4. sw' = [sw EXCEPT ![s] = rec]
  BY <1>2 DEF CheckLatest
<1> HIDE DEF pc
<1>5. /\ rec \in SweepState /\ rec.pc = pc /\ rec.act = sw[s].act /\ rec.host = sw[s].host
      /\ rec.left = sw[s].left /\ rec.count = sw[s].count /\ rec.made = sw[s].made
  BY <1>2, <1>3 DEF SweepState
<1> HIDE DEF rec
<1>6. SwEdited(s) /\ sw'[s] = rec
  BY <1>4, <1>5, SwEdit
<1>7. QED
  BY <1>1, <1>3, <1>5, <1>6

LEMMA CountedFacts ==
  ASSUME NEW count \in [DOMAIN NoCounts -> Nat]
  PROVE  /\ Counted(count) \in [DOMAIN NoCounts -> Nat]
         /\ \A c \in DOMAIN NoCounts : Counted(count)[c] = count[c] + 1
<1>1. DOMAIN count = DOMAIN NoCounts /\ \A c \in DOMAIN NoCounts : count[c] + 1 \in Nat
  OBVIOUS
<1>2. QED
  BY <1>1 DEF Counted

LEMMA QueueFacts ==
  ASSUME TypeInv, NEW s \in Sweeps, QueueAutonomously(s)
  PROVE  /\ UNCHANGED <<op, rp, now>> /\ SwEdited(s) /\ RowsRead
         /\ sw[s].pc = "insert" /\ sw'[s].pc = "next"
         /\ sw'[s].host = sw[s].host /\ sw'[s].left = sw[s].left
         /\ sw'[s].made = sw[s].made + 1
         /\ \A c \in DOMAIN NoCounts : sw'[s].count[c] = sw[s].count[c] + 1
         /\ \E r \in Runs : Grew(r, sw[s].host, sw[s].act) /\ run'[r].kind = "auto"
<1>1. UNCHANGED <<op, rp, now>> /\ sw[s].pc = "insert"
  BY DEF QueueAutonomously
<1>2. sw \in [Sweeps -> SweepState] /\ sw[s] \in SweepState
  BY DEF TypeInv, TypeOK
<1>3. sw[s].host \in Hosts /\ sw[s].act \in Acts
  BY <1>1 DEF TypeInv, SweepInv
<1> DEFINE held == approvalRequired(sw[s].act)
           count == Counted(sw[s].count)
<1>4. held \in BOOLEAN /\ Insert("queued", "auto", sw[s].host, sw[s].act, held)
  BY DEF QueueAutonomously, approvalRequired
<1>5. sw[s].count \in [DOMAIN NoCounts -> Nat] /\ sw[s].made + 1 \in Nat
  BY <1>2 DEF SweepState
<1>6. /\ count \in [DOMAIN NoCounts -> Nat]
      /\ \A c \in DOMAIN NoCounts : count[c] = sw[s].count[c] + 1
  BY <1>5, CountedFacts
<1>7. sw' = [sw EXCEPT ![s] = [sw[s] EXCEPT !.pc = "next", !.act = None,
                                            !.made = sw[s].made + 1, !.count = count]]
  BY <1>2 DEF QueueAutonomously
<1> HIDE DEF held, count
<1> DEFINE rec == [sw[s] EXCEPT !.pc = "next", !.act = None,
                                !.made = sw[s].made + 1, !.count = count]
<1>8. /\ rec \in SweepState /\ rec.pc = "next" /\ rec.host = sw[s].host
      /\ rec.left = sw[s].left /\ rec.count = count /\ rec.made = sw[s].made + 1
  BY <1>2, <1>5, <1>6 DEF SweepState
<1> HIDE DEF rec
<1>9. SwEdited(s) /\ sw'[s] = rec
  <2>1. sw' = [sw EXCEPT ![s] = rec]
    BY <1>7 DEF rec
  <2>2. QED
    BY <1>8, <2>1, SwEdit
<1>10. RowsRead /\ \E r \in Runs : Grew(r, sw[s].host, sw[s].act) /\ run'[r].kind = "auto"
  BY <1>1, <1>3, <1>4, InsertGrows
<1>11. QED
  BY <1>1, <1>6, <1>8, <1>9, <1>10

RpEdited(p) ==
  /\ rp' \in [Replays -> ReplayState]
  /\ \A q \in Replays \ {p} : rp'[q] = rp[q]

LEMMA RpEdit ==
  ASSUME TypeInv, NEW p \in Replays, NEW rec \in ReplayState, rp' = [rp EXCEPT ![p] = rec]
  PROVE  RpEdited(p) /\ rp'[p] = rec
BY DEF TypeInv, TypeOK, RpEdited

LEMMA IdleReplayTyped ==
  IdleReplay \in ReplayState /\ IdleReplay.pc = "idle" /\ IdleReplay.todo = {}
BY DEF IdleReplay, ReplayState

(* The steps of a replay that write no row. Only one of them gets it to its *)
(* transaction: the look for an active run that finds none.                 *)
ReplayMoves(p) ==
  \/ RequestReplay(p) \/ (\E r \in rp[p].todo : ReadSource(p, r))
  \/ CountActive(p) \/ EndReplay(p) \/ AbandonReplay(p)

SourceOf(call) == run[call.source]

LEMMA ReplayMovesFacts ==
  ASSUME TypeInv, NEW p \in Replays, ReplayMoves(p)
  PROVE  /\ UNCHANGED <<run, op, sw, now>> /\ RpEdited(p)
         /\ rp[p].pc = "idle" => MayBegin
         /\ \A r \in rp'[p].todo : Counts(run[r])
         /\ rp'[p].pc \in {"count", "create"} =>
              /\ rp'[p].source \in Runs /\ Counts(SourceOf(rp'[p]))
              /\ SourceOf(rp'[p]).state \notin Active
         /\ rp'[p].pc = "create" => ~Busy(SourceOf(rp'[p]).host, SourceOf(rp'[p]).act)
<1> DEFINE Good(call) ==
      /\ \A r \in call.todo : Counts(run[r])
      /\ call.pc \in {"count", "create"} =>
           /\ call.source \in Runs /\ Counts(SourceOf(call))
           /\ SourceOf(call).state \notin Active
      /\ call.pc = "create" => ~Busy(SourceOf(call).host, SourceOf(call).act)
<1>1. rp[p] \in ReplayState /\ \A r \in rp[p].todo : Counts(run[r])
  BY DEF TypeInv, TypeOK, ReplayInv
<1>2. UNCHANGED <<run, op, sw, now>>
  BY DEF ReplayMoves, RequestReplay, ReadSource, CountActive, EndReplay, AbandonReplay
<1>3. \E rec \in ReplayState :
        /\ rp' = [rp EXCEPT ![p] = rec] /\ Good(rec)
        /\ rp[p].pc = "idle" => MayBegin
  <2>1. CASE RequestReplay(p)
    <3>1. PICK T \in {{r} : r \in Executes}
                   \cup {S \in SUBSET {r \in Executes : run[r].state = "failed"} :
                           S # {} /\ Cardinality(S) <= Batch} :
            rp' = [rp EXCEPT ![p] = [IdleReplay EXCEPT !.pc = "read", !.todo = T]]
      BY <2>1 DEF RequestReplay
    <3>2. T \in SUBSET Executes
      OBVIOUS
    <3> DEFINE rec == [IdleReplay EXCEPT !.pc = "read", !.todo = T]
    <3>3. rec \in ReplayState /\ rec.pc = "read" /\ rec.todo = T
      BY <3>2 DEF IdleReplay, ReplayState, Executes
    <3>4. \A r \in T : Counts(run[r])
      BY <3>2 DEF Executes, Counts
    <3>5. rp' = [rp EXCEPT ![p] = rec] /\ MayBegin
      BY <2>1, <3>1 DEF RequestReplay
    <3> HIDE DEF rec
    <3>6. Good(rec)
      BY <3>3, <3>4
    <3>7. QED
      BY <3>3, <3>5, <3>6
  <2>2. ASSUME NEW r \in rp[p].todo, ReadSource(p, r)
        PROVE  \E rec \in ReplayState :
                 /\ rp' = [rp EXCEPT ![p] = rec] /\ Good(rec)
                 /\ rp[p].pc = "idle" => MayBegin
    <3>1. r \in Runs /\ Counts(run[r]) /\ rp[p].pc = "read"
      BY <1>1, <2>2 DEF ReadSource, ReplayState
    <3>2. CASE run[r].state \in Active
      <4> DEFINE rec == [rp[p] EXCEPT !.todo = rp[p].todo \ {r}]
      <4>1. rec \in ReplayState /\ rec.pc = "read" /\ rec.todo = rp[p].todo \ {r}
        BY <1>1, <3>1 DEF ReplayState
      <4>2. rp' = [rp EXCEPT ![p] = rec]
        BY <2>2, <3>2 DEF ReadSource, TypeInv, TypeOK
      <4> HIDE DEF rec
      <4>3. Good(rec)
        BY <1>1, <4>1
      <4>4. QED
        BY <3>1, <4>1, <4>2, <4>3
    <3>3. CASE run[r].state \notin Active
      <4> DEFINE rec == [pc |-> "count", todo |-> rp[p].todo \ {r}, source |-> r]
      <4>1. /\ rec \in ReplayState /\ rec.pc = "count" /\ rec.source = r
            /\ rec.todo = rp[p].todo \ {r}
        BY <1>1, <3>1 DEF ReplayState
      <4>2. rp' = [rp EXCEPT ![p] = rec]
        BY <2>2, <3>3 DEF ReadSource, TypeInv, TypeOK
      <4> HIDE DEF rec
      <4>3. Good(rec)
        BY <1>1, <3>1, <3>3, <4>1 DEF SourceOf
      <4>4. QED
        BY <3>1, <4>1, <4>2, <4>3
    <3>4. QED
      BY <3>2, <3>3
  <2>3. CASE CountActive(p)
    <3>1. /\ rp[p].pc = "count" /\ rp[p].source \in Runs /\ Counts(run[rp[p].source])
          /\ run[rp[p].source].state \notin Active
      BY <2>3 DEF CountActive, TypeInv, ReplayInv
    <3>2. CASE Busy(run[rp[p].source].host, run[rp[p].source].act)
      <4> DEFINE rec == NextSource(rp[p])
      <4>1. rec \in ReplayState /\ rec.pc = "read" /\ rec.todo = rp[p].todo
        BY <1>1 DEF NextSource, ReplayState
      <4>2. rp' = [rp EXCEPT ![p] = rec]
        BY <2>3, <3>2 DEF CountActive
      <4> HIDE DEF rec
      <4>3. Good(rec)
        BY <1>1, <4>1
      <4>4. QED
        BY <3>1, <4>1, <4>2, <4>3
    <3>3. CASE ~Busy(run[rp[p].source].host, run[rp[p].source].act)
      <4> DEFINE rec == [rp[p] EXCEPT !.pc = "create"]
      <4>1. /\ rec \in ReplayState /\ rec.pc = "create" /\ rec.todo = rp[p].todo
            /\ rec.source = rp[p].source
        BY <1>1 DEF ReplayState
      <4>2. rp' = [rp EXCEPT ![p] = rec]
        BY <2>3, <3>3 DEF CountActive, TypeInv, TypeOK
      <4> HIDE DEF rec
      <4>3. Good(rec)
        BY <1>1, <3>1, <3>3, <4>1 DEF SourceOf
      <4>4. QED
        BY <3>1, <4>1, <4>2, <4>3
    <3>4. QED
      BY <3>2, <3>3
  <2>4. CASE EndReplay(p) \/ AbandonReplay(p)
    <3>1. rp[p].pc # "idle" /\ rp' = [rp EXCEPT ![p] = IdleReplay]
      BY <2>4 DEF EndReplay, AbandonReplay
    <3>2. Good(IdleReplay)
      BY IdleReplayTyped
    <3>3. QED
      BY <3>1, <3>2, IdleReplayTyped
  <2>5. QED
    BY <2>1, <2>2, <2>3, <2>4 DEF ReplayMoves
<1>4. PICK rec \in ReplayState :
        /\ rp' = [rp EXCEPT ![p] = rec] /\ Good(rec)
        /\ rp[p].pc = "idle" => MayBegin
  BY <1>3
<1>5. RpEdited(p) /\ rp'[p] = rec
  BY <1>4, RpEdit
<1>6. QED
  BY <1>2, <1>4, <1>5

LEMMA CreateFacts ==
  ASSUME TypeInv, NEW p \in Replays, CreateReplay(p)
  PROVE  /\ UNCHANGED <<op, sw, now>> /\ RpEdited(p) /\ RowsRead /\ KeptAdmitted
         /\ rp[p].pc = "create" /\ rp'[p].pc = "read" /\ rp'[p].todo = rp[p].todo
         /\ rp[p].source \in Runs /\ Counts(run[rp[p].source])
         /\ \E r \in Runs : Replayed(r, rp[p].source)
<1> DEFINE source == rp[p].source
           row    == run[source]
<1>1. /\ UNCHANGED <<op, sw, now>> /\ rp[p].pc = "create"
      /\ rp' = [rp EXCEPT ![p] = NextSource(rp[p])]
  BY DEF CreateReplay
<1>2. source \in Runs /\ Counts(row) /\ row.state \notin Active
  BY <1>1 DEF TypeInv, ReplayInv
<1>3. PICK r \in Free, end \in {row.state} \cup {e \in {"canceled"} : row.state = "failed"} :
        run' = [run EXCEPT
            ![source].state = end,
            ![r] = [row EXCEPT !.state = "queued", !.at = now, !.replay = TRUE]]
  BY DEF CreateReplay
<1>4. /\ r \in Runs /\ run[r].state = "absent" /\ r # source
      /\ end \in States \ {"absent"} /\ end \notin Active
      /\ row.state = "succeeded" => end = "succeeded"
  BY <1>2, <1>3 DEF Free, Counts, States, Active, TypeInv, TypeOK, Row
<1>5. row \in Row /\ run \in [Runs -> Row] /\ now \in Nat
  BY <1>2 DEF TypeInv, TypeOK
<1> HIDE DEF source, row
<1> DEFINE new == [row EXCEPT !.state = "queued", !.at = now, !.replay = TRUE]
           old == [row EXCEPT !.state = end]
<1>6. /\ new \in Row /\ new.state = "queued" /\ new.at = now /\ new.replay
      /\ new.kind = row.kind /\ new.host = row.host /\ new.act = row.act
  BY <1>5 DEF Row, States
<1>7. /\ old \in Row /\ old.state = end /\ old.at = row.at /\ old.replay = row.replay
      /\ old.kind = row.kind /\ old.host = row.host /\ old.act = row.act
  BY <1>4, <1>5 DEF Row
<1>8. run' = [run EXCEPT ![source] = old, ![r] = new]
  BY <1>2, <1>3, <1>5 DEF row, source
<1> HIDE DEF new, old
<1>9. /\ run' \in [Runs -> Row] /\ run'[source] = old /\ run'[r] = new
      /\ \A q \in Runs \ {source, r} : run'[q] = run[q]
  BY <1>2, <1>4, <1>5, <1>6, <1>7, <1>8 DEF row, source
<1>10. run[source] = row /\ source \in Runs
  BY <1>2 DEF row, source
<1>11. ExecutesKept
  <2>1. SUFFICES ASSUME NEW q \in Runs, Counts(run[q])
                 PROVE  /\ Counts(run'[q])
                        /\ run'[q].kind = run[q].kind /\ run'[q].host = run[q].host
                        /\ run'[q].act = run[q].act /\ run'[q].at = run[q].at
                        /\ run'[q].replay = run[q].replay
                        /\ run'[q].state \in Active => run[q].state \in Active
    BY DEF ExecutesKept
  <2>2. q # r
    BY <1>4, <2>1 DEF Counts
  <2>3. CASE q = source
    BY <1>4, <1>7, <1>9, <1>10, <2>1, <2>3 DEF Counts
  <2>4. CASE q # source
    BY <1>9, <2>1, <2>2, <2>4
  <2>5. QED
    BY <2>3, <2>4
<1>12. DryRunsKept
  BY <1>2, <1>4, <1>9, <1>10 DEF DryRunsKept, Counts, row
<1>13. RowInv'
  <2>1. \A q \in Runs : run[q].at <= now
    BY DEF TypeInv, RowInv
  <2>2. now <= now
    BY <1>5
  <2>3. QED
    BY <1>1, <1>4, <1>6, <1>7, <1>9, <1>10, <2>1, <2>2 DEF TypeInv, RowInv
<1>14. \A t \in Runs \ {r} : Counts(run'[t]) => Counts(run[t])
  BY <1>2, <1>9, <1>10 DEF row
<1>15. KeptAdmitted
  <2>1. ASSUME NEW q \in Runs, Admits(run'[q]) PROVE Admits(run[q])
    <3>1. q # r
      BY <1>6, <1>9, <2>1 DEF Admits
    <3>2. CASE q = source
      BY <1>2, <1>7, <1>9, <1>10, <2>1, <3>2 DEF Admits, row
    <3>3. CASE q # source
      BY <1>9, <2>1, <3>1, <3>3
    <3>4. QED
      BY <3>2, <3>3
  <2>2. QED
    BY <2>1 DEF KeptAdmitted
<1>16. Replayed(r, source)
  BY <1>4, <1>6, <1>9, <1>10, <1>14 DEF Replayed
<1>17. RpEdited(p) /\ rp'[p].pc = "read" /\ rp'[p].todo = rp[p].todo
  <2>1. rp[p] \in ReplayState
    BY DEF TypeInv, TypeOK
  <2> DEFINE rec == NextSource(rp[p])
  <2>2. rec \in ReplayState /\ rec.pc = "read" /\ rec.todo = rp[p].todo
    BY <2>1 DEF NextSource, ReplayState
  <2> HIDE DEF rec
  <2>3. RpEdited(p) /\ rp'[p] = rec
    BY <1>1, <2>2, RpEdit DEF rec
  <2>4. QED
    BY <2>2, <2>3
<1>18. RowsRead
  BY <1>9, <1>11, <1>12, <1>13 DEF RowsRead
<1>19. QED
  BY <1>1, <1>2, <1>4, <1>10, <1>15, <1>16, <1>17, <1>18 DEF source, row

-----------------------------------------------------------------------------
(* The type invariant                                                       *)

LEMMA SameOperators ==
  ASSUME TypeInv, UNCHANGED op
  PROVE  op' \in [Operators -> OperatorState] /\ OperatorInv'
BY DEF TypeInv, TypeOK, OperatorInv

LEMMA SameSweeps ==
  ASSUME TypeInv, UNCHANGED sw
  PROVE  sw' \in [Sweeps -> SweepState] /\ SweepInv'
BY DEF TypeInv, TypeOK, SweepInv, Full

LEMMA EditedOperators ==
  ASSUME TypeInv, NEW o \in Operators, OpEdited(o),
         op'[o].pc # "idle" => op'[o].host \in Hosts /\ op'[o].act \in Acts,
         op'[o].pc = "insert" => op'[o].left = {},
         op'[o].left \subseteq Reads \/ op'[o].left = {"dry-run"}
  PROVE  op' \in [Operators -> OperatorState] /\ OperatorInv'
<1>1. op' \in [Operators -> OperatorState] /\ \A p \in Operators \ {o} : op'[p] = op[p]
  BY DEF OpEdited
<1>2. SUFFICES ASSUME NEW p \in Operators
               PROVE  /\ op'[p].pc # "idle" => op'[p].host \in Hosts /\ op'[p].act \in Acts
                      /\ op'[p].pc = "insert" => op'[p].left = {}
                      /\ op'[p].left \subseteq Reads \/ op'[p].left = {"dry-run"}
  BY <1>1, Zenon DEF OperatorInv
<1>3. CASE p = o
  BY <1>3
<1>4. CASE p # o
  BY <1>1, <1>4 DEF TypeInv, OperatorInv
<1>5. QED
  BY <1>3, <1>4

LEMMA EditedSweeps ==
  ASSUME TypeInv, NEW s \in Sweeps, SwEdited(s),
         sw'[s].pc # "idle" => sw'[s].host \in Hosts,
         sw'[s].pc \in {"next", "latest", "insert"} => sw'[s].left = {},
         sw'[s].pc \in {"latest", "insert"} => sw'[s].act \in Acts /\ ~Full(s)'
  PROVE  sw' \in [Sweeps -> SweepState] /\ SweepInv'
<1>1. sw' \in [Sweeps -> SweepState] /\ \A t \in Sweeps \ {s} : sw'[t] = sw[t]
  BY DEF SwEdited
<1>2. SUFFICES ASSUME NEW t \in Sweeps
               PROVE  /\ sw'[t].pc # "idle" => sw'[t].host \in Hosts
                      /\ sw'[t].pc \in {"next", "latest", "insert"} => sw'[t].left = {}
                      /\ sw'[t].pc \in {"latest", "insert"} => sw'[t].act \in Acts /\ ~Full(t)'
  BY <1>1, Zenon DEF SweepInv
<1>3. CASE t = s
  BY <1>3
<1>4. CASE t # s
  <2>1. sw'[t] = sw[t]
    BY <1>1, <1>4
  <2>2. Full(t)' <=> Full(t)
    BY <2>1 DEF Full
  <2>3. QED
    BY <2>1, <2>2 DEF TypeInv, SweepInv
<1>5. QED
  BY <1>3, <1>4

LEMMA SameReplays ==
  ASSUME TypeInv, RowsRead, UNCHANGED rp
  PROVE  rp' \in [Replays -> ReplayState] /\ ReplayInv'
<1>1. /\ rp' \in [Replays -> ReplayState]
      /\ \A p \in Replays : rp'[p] = rp[p] /\ rp[p].todo \in SUBSET Runs
  BY DEF TypeInv, TypeOK, ReplayState
<1>2. QED
  BY <1>1 DEF TypeInv, ReplayInv, RowsRead, ExecutesKept

LEMMA EditedReplays ==
  ASSUME TypeInv, RowsRead, NEW p \in Replays, RpEdited(p),
         \A r \in rp'[p].todo : Counts(run[r]),
         rp'[p].pc \in {"count", "create"} =>
           /\ rp'[p].source \in Runs /\ Counts(run[rp'[p].source])
           /\ run[rp'[p].source].state \notin Active
  PROVE  rp' \in [Replays -> ReplayState] /\ ReplayInv'
<1>1. /\ rp' \in [Replays -> ReplayState] /\ \A q \in Replays \ {p} : rp'[q] = rp[q]
      /\ \A q \in Replays : rp'[q].todo \in SUBSET Runs
  BY DEF RpEdited, ReplayState
<1>2. \A q \in Replays :
        /\ \A r \in rp'[q].todo : Counts(run[r])
        /\ rp'[q].pc \in {"count", "create"} =>
             /\ rp'[q].source \in Runs /\ Counts(run[rp'[q].source])
             /\ run[rp'[q].source].state \notin Active
  BY <1>1 DEF TypeInv, ReplayInv
<1>3. QED
  BY <1>1, <1>2 DEF ReplayInv, RowsRead, ExecutesKept

LEMMA TypeInitially == Init => TypeInv
<1> SUFFICES ASSUME Init PROVE TypeInv
  OBVIOUS
<1>1. /\ (CHOOSE h \in Hosts : TRUE) \in Hosts
      /\ (CHOOSE a \in Acts : TRUE) \in Acts
  BY AdmissionAssumption DEF AdmissionAssumption
<1>2. run \in [Runs -> Row] /\ RowInv
  BY <1>1 DEF Init, Row, States, Kinds, RowInv
<1>3. op \in [Operators -> OperatorState] /\ OperatorInv
  BY IdleOperatorTyped DEF Init, OperatorInv
<1>4. sw \in [Sweeps -> SweepState] /\ SweepInv
  <2>1. sw \in [Sweeps -> SweepState] /\ \A s \in Sweeps : sw[s].pc = "idle"
    BY IdleSweepTyped DEF Init
  <2>2. QED
    BY <2>1 DEF SweepInv
<1>5. rp \in [Replays -> ReplayState] /\ ReplayInv
  BY IdleReplayTyped DEF Init, ReplayInv
<1>6. QED
  BY <1>2, <1>3, <1>4, <1>5 DEF Init, TypeInv, TypeOK

LEMMA TypeStep ==
  ASSUME TypeInv, [Next]_vars
  PROVE  TypeInv'
<1>1. CASE UNCHANGED vars
  <2>1. UNCHANGED <<run, op, sw, rp, now>>
    BY <1>1 DEF vars
  <2>2. RowsRead /\ OperatorInv' /\ SweepInv'
    BY <2>1, SameRows, SameOperators, SameSweeps
  <2>3. QED
    BY <2>1, <2>2, SameReplays DEF TypeInv, TypeOK, RowsRead
<1>2. ASSUME NEW h \in Hosts, NEW a \in Acts, DryRun(h, a) PROVE TypeInv'
  <2>1. UNCHANGED <<op, sw, rp, now>> /\ RowsRead
    BY <1>2, DryRunFacts
  <2>2. OperatorInv' /\ SweepInv'
    BY <2>1, SameOperators, SameSweeps
  <2>3. QED
    BY <2>1, <2>2, SameReplays DEF TypeInv, TypeOK, RowsRead
<1>3. ASSUME NEW o \in Operators, RequestExecute(o) PROVE TypeInv'
  <2>1. /\ UNCHANGED <<run, sw, rp, now>> /\ OpEdited(o)
        /\ op'[o].pc = "check" /\ op'[o].host \in Hosts /\ op'[o].act \in Acts
        /\ op'[o].left = Reads
    BY <1>3, RequestFacts
  <2>2. op' \in [Operators -> OperatorState] /\ OperatorInv'
    BY <2>1, EditedOperators
  <2>3. RowsRead /\ SweepInv'
    BY <2>1, SameRows, SameSweeps
  <2>4. QED
    BY <2>1, <2>2, <2>3, SameReplays DEF TypeInv, TypeOK, RowsRead
<1>4. ASSUME NEW o \in Operators, NEW c \in op[o].left, Check(o, c) PROVE TypeInv'
  <2>1. UNCHANGED <<run, sw, rp, now>> /\ OpEdited(o) /\ op[o].pc = "check"
    BY <1>4, CheckFacts
  <2>2. op[o].host \in Hosts /\ op[o].act \in Acts
    BY <2>1 DEF TypeInv, OperatorInv
  <2>3. /\ op'[o].pc # "idle" => op'[o].host \in Hosts /\ op'[o].act \in Acts
        /\ op'[o].pc = "insert" => op'[o].left = {}
    BY <1>4, <2>2, CheckFacts, IdleOperatorTyped
  <2>7. op[o].left \subseteq Reads \/ op[o].left = {"dry-run"}
    BY DEF TypeInv, OperatorInv
  <2>8. op'[o].left \subseteq Reads \/ op'[o].left = {"dry-run"}
    BY <1>4, <2>7, CheckFacts, IdleOperatorTyped
  <2>4. op' \in [Operators -> OperatorState] /\ OperatorInv'
    BY <2>1, <2>3, <2>8, EditedOperators
  <2>5. RowsRead /\ SweepInv'
    BY <2>1, SameRows, SameSweeps
  <2>6. QED
    BY <2>1, <2>4, <2>5, SameReplays DEF TypeInv, TypeOK, RowsRead
<1>5. ASSUME NEW o \in Operators, Execute(o) PROVE TypeInv'
  <2>1. UNCHANGED <<sw, rp, now>> /\ OpEdited(o) /\ RowsRead /\ op'[o] = IdleOperator
    BY <1>5, ExecuteFacts
  <2>2. op' \in [Operators -> OperatorState] /\ OperatorInv'
    BY <2>1, EditedOperators, IdleOperatorTyped
  <2>3. SweepInv'
    BY <2>1, SameSweeps
  <2>4. QED
    BY <2>1, <2>2, <2>3, SameReplays DEF TypeInv, TypeOK, RowsRead
<1>6. ASSUME NEW s \in Sweeps, StartSweep(s) PROVE TypeInv'
  <2>1. /\ UNCHANGED <<run, op, rp, now>> /\ SwEdited(s)
        /\ sw'[s].pc = "count" /\ sw'[s].host \in Hosts
    BY <1>6, StartFacts
  <2>2. sw' \in [Sweeps -> SweepState] /\ SweepInv'
    BY <2>1, EditedSweeps
  <2>3. RowsRead /\ OperatorInv'
    BY <2>1, SameRows, SameOperators
  <2>4. QED
    BY <2>1, <2>2, <2>3, SameReplays DEF TypeInv, TypeOK, RowsRead
<1>7. ASSUME NEW s \in Sweeps, NEW c \in sw[s].left, Count(s, c) PROVE TypeInv'
  <2>1. /\ UNCHANGED <<run, op, rp, now>> /\ SwEdited(s) /\ sw[s].pc = "count"
        /\ sw'[s].host = sw[s].host /\ sw'[s].left = sw[s].left \ {c}
        /\ sw'[s].pc = (IF sw[s].left \ {c} = {} THEN "next" ELSE "count")
    BY <1>7, CountFacts
  <2>2. sw[s].host \in Hosts
    BY <2>1 DEF TypeInv, SweepInv
  <2>3. sw' \in [Sweeps -> SweepState] /\ SweepInv'
    BY <2>1, <2>2, EditedSweeps
  <2>4. RowsRead /\ OperatorInv'
    BY <2>1, SameRows, SameOperators
  <2>5. QED
    BY <2>1, <2>3, <2>4, SameReplays DEF TypeInv, TypeOK, RowsRead
<1>8. ASSUME NEW s \in Sweeps, EndSweep(s) PROVE TypeInv'
  <2>1. UNCHANGED <<run, op, rp, now>> /\ SwEdited(s) /\ sw'[s].pc = "idle"
    BY <1>8, EndFacts, IdleSweepTyped
  <2>2. sw' \in [Sweeps -> SweepState] /\ SweepInv'
    BY <2>1, EditedSweeps
  <2>3. RowsRead /\ OperatorInv'
    BY <2>1, SameRows, SameOperators
  <2>4. QED
    BY <2>1, <2>2, <2>3, SameReplays DEF TypeInv, TypeOK, RowsRead
<1>9. ASSUME NEW s \in Sweeps, NEW a \in sw[s].todo, Consider(s, a) PROVE TypeInv'
  <2>1. /\ UNCHANGED <<run, op, rp, now>> /\ SwEdited(s) /\ sw[s].pc = "next" /\ ~Full(s)
        /\ sw'[s].host = sw[s].host /\ sw'[s].left = sw[s].left
        /\ sw'[s].count = sw[s].count /\ sw'[s].made = sw[s].made
        /\ \/ sw'[s].pc = "next"
           \/ sw'[s].pc = "latest" /\ sw'[s].act \in Acts
    BY <1>9, ConsiderFacts
  <2>2. sw[s].host \in Hosts /\ sw[s].left = {}
    BY <2>1 DEF TypeInv, SweepInv
  <2>3. ~Full(s)'
    BY <2>1 DEF Full
  <2>4. sw' \in [Sweeps -> SweepState] /\ SweepInv'
    BY <2>1, <2>2, <2>3, EditedSweeps
  <2>5. RowsRead /\ OperatorInv'
    BY <2>1, SameRows, SameOperators
  <2>6. QED
    BY <2>1, <2>4, <2>5, SameReplays DEF TypeInv, TypeOK, RowsRead
<1>10. ASSUME NEW s \in Sweeps, CheckLatest(s) PROVE TypeInv'
  <2>1. /\ UNCHANGED <<run, op, rp, now>> /\ SwEdited(s) /\ sw[s].pc = "latest"
        /\ sw'[s].host = sw[s].host /\ sw'[s].left = sw[s].left /\ sw'[s].act = sw[s].act
        /\ sw'[s].count = sw[s].count /\ sw'[s].made = sw[s].made
    BY <1>10, LatestFacts
  <2>2. sw[s].host \in Hosts /\ sw[s].left = {} /\ sw[s].act \in Acts /\ ~Full(s)
    BY <2>1 DEF TypeInv, SweepInv
  <2>3. ~Full(s)'
    BY <2>1, <2>2 DEF Full
  <2>4. sw' \in [Sweeps -> SweepState] /\ SweepInv'
    BY <2>1, <2>2, <2>3, EditedSweeps
  <2>5. RowsRead /\ OperatorInv'
    BY <2>1, SameRows, SameOperators
  <2>6. QED
    BY <2>1, <2>4, <2>5, SameReplays DEF TypeInv, TypeOK, RowsRead
<1>11. ASSUME NEW s \in Sweeps, QueueAutonomously(s) PROVE TypeInv'
  <2>1. /\ UNCHANGED <<op, rp, now>> /\ SwEdited(s) /\ RowsRead
        /\ sw[s].pc = "insert" /\ sw'[s].pc = "next"
        /\ sw'[s].host = sw[s].host /\ sw'[s].left = sw[s].left
    BY <1>11, QueueFacts
  <2>2. sw[s].host \in Hosts /\ sw[s].left = {}
    BY <2>1 DEF TypeInv, SweepInv
  <2>3. sw' \in [Sweeps -> SweepState] /\ SweepInv'
    BY <2>1, <2>2, EditedSweeps
  <2>4. OperatorInv'
    BY <2>1, SameOperators
  <2>5. QED
    BY <2>1, <2>3, <2>4, SameReplays DEF TypeInv, TypeOK, RowsRead
<1>12. ASSUME NEW r \in Runs, Approve(r) \/ Reject(r) \/ Claim(r) \/ Settle(r) PROVE TypeInv'
  <2>1. RowStep
    BY <1>12 DEF RowStep
  <2>2. UNCHANGED <<op, sw, rp, now>> /\ RowsRead
    BY <2>1, RowStepKeeps
  <2>3. OperatorInv' /\ SweepInv'
    BY <2>2, SameOperators, SameSweeps
  <2>4. QED
    BY <2>2, <2>3, SameReplays DEF TypeInv, TypeOK, RowsRead
<1>13. CASE Tick
  <2>1. UNCHANGED <<run, op, sw, rp>> /\ now' = now + 1 /\ now' \in Nat
    BY <1>13 DEF Tick, TypeInv, TypeOK
  <2>2. RowsRead /\ OperatorInv' /\ SweepInv'
    BY <2>1, SameRows, SameOperators, SameSweeps
  <2>3. QED
    BY <2>1, <2>2, SameReplays DEF TypeInv, TypeOK, RowsRead
<1>14. ASSUME NEW o \in Operators, AbandonExecute(o) PROVE TypeInv'
  <2>1. UNCHANGED <<run, sw, rp, now>> /\ OpEdited(o) /\ op'[o] = IdleOperator
    BY <1>14, AbandonExecuteFacts
  <2>2. op' \in [Operators -> OperatorState] /\ OperatorInv'
    BY <2>1, EditedOperators, IdleOperatorTyped
  <2>3. RowsRead /\ SweepInv'
    BY <2>1, SameRows, SameSweeps
  <2>4. QED
    BY <2>1, <2>2, <2>3, SameReplays DEF TypeInv, TypeOK, RowsRead
<1>15. ASSUME NEW s \in Sweeps, AbandonSweep(s) PROVE TypeInv'
  <2>1. UNCHANGED <<run, op, rp, now>> /\ SwEdited(s) /\ sw'[s].pc = "idle"
    BY <1>15, AbandonSweepFacts, IdleSweepTyped
  <2>2. sw' \in [Sweeps -> SweepState] /\ SweepInv'
    BY <2>1, EditedSweeps
  <2>3. RowsRead /\ OperatorInv'
    BY <2>1, SameRows, SameOperators
  <2>4. QED
    BY <2>1, <2>2, <2>3, SameReplays DEF TypeInv, TypeOK, RowsRead
<1>16. ASSUME NEW p \in Replays, ReplayMoves(p) PROVE TypeInv'
  <2>1. UNCHANGED <<run, op, sw, now>> /\ RowsRead /\ OperatorInv' /\ SweepInv'
    BY <1>16, ReplayMovesFacts, SameRows, SameOperators, SameSweeps
  <2>2. rp' \in [Replays -> ReplayState] /\ ReplayInv'
    BY <1>16, <2>1, ReplayMovesFacts, EditedReplays DEF SourceOf
  <2>3. QED
    BY <2>1, <2>2 DEF TypeInv, TypeOK, RowsRead
<1>17. ASSUME NEW p \in Replays, CreateReplay(p) PROVE TypeInv'
  <2>1. /\ UNCHANGED <<op, sw, now>> /\ RowsRead /\ RpEdited(p)
        /\ rp'[p].pc = "read" /\ rp'[p].todo = rp[p].todo
    BY <1>17, CreateFacts
  <2>2. OperatorInv' /\ SweepInv'
    BY <2>1, SameOperators, SameSweeps
  <2>3. \A r \in rp'[p].todo : Counts(run[r])
    BY <2>1 DEF TypeInv, ReplayInv
  <2>4. rp' \in [Replays -> ReplayState] /\ ReplayInv'
    BY <2>1, <2>3, EditedReplays
  <2>5. QED
    BY <2>1, <2>2, <2>4 DEF TypeInv, TypeOK, RowsRead
<1>18. ASSUME NEW p \in Replays, ReplayStep(p) PROVE TypeInv'
  BY <1>16, <1>17, <1>18 DEF ReplayStep, ReplayMoves
<1>19. ASSUME NEW o \in Operators, OperatorStep(o) PROVE TypeInv'
  BY <1>3, <1>4, <1>5, <1>14, <1>19 DEF OperatorStep
<1>20. ASSUME NEW s \in Sweeps, SweepStep(s) PROVE TypeInv'
  BY <1>6, <1>7, <1>8, <1>9, <1>10, <1>11, <1>15, <1>20 DEF SweepStep
<1>21. QED
  BY <1>1, <1>2, <1>12, <1>13, <1>18, <1>19, <1>20 DEF Next

(* Every value the calls and the table can take is of its type.             *)
THEOREM TypeCorrect == Spec => []TypeOK
<1>1. Init => TypeInv
  BY TypeInitially
<1>2. TypeInv /\ [Next]_vars => TypeInv'
  BY TypeStep
<1>3. TypeInv => TypeOK
  BY DEF TypeInv
<1>4. QED
  BY <1>1, <1>2, <1>3, PTL DEF Spec

-----------------------------------------------------------------------------
(* The steps by what they change                                            *)

(* No call that admits runs moves, nor is a run added.                      *)
Quiet == UNCHANGED <<op, sw>> /\ Kept /\ RowsRead /\ now' \in {now, now + 1}

(* The same, but a replay may be added.                                     *)
Still == UNCHANGED <<op, sw>> /\ KeptAdmitted /\ RowsRead /\ now' \in {now, now + 1}

OperatorMoves(o) ==
  RequestExecute(o) \/ (\E c \in op[o].left : Check(o, c)) \/ AbandonExecute(o)

SweepMoves(s) ==
  \/ StartSweep(s) \/ (\E c \in sw[s].left : Count(s, c)) \/ EndSweep(s)
  \/ (\E a \in sw[s].todo : Consider(s, a)) \/ CheckLatest(s) \/ AbandonSweep(s)

LEMMA StepCases ==
  ASSUME TypeInv, [Next]_vars
  PROVE  \/ Quiet /\ UNCHANGED rp
         \/ \E o \in Operators : OperatorMoves(o) \/ Execute(o)
         \/ \E s \in Sweeps : SweepMoves(s) \/ QueueAutonomously(s)
         \/ \E p \in Replays : (Quiet /\ ReplayMoves(p)) \/ CreateReplay(p)
<1>1. CASE UNCHANGED vars
  <2>1. UNCHANGED <<run, op, sw, rp, now>>
    BY <1>1 DEF vars
  <2>2. QED
    BY <2>1, SameRows DEF Quiet
<1>2. ASSUME NEW h \in Hosts, NEW a \in Acts, DryRun(h, a) PROVE Quiet /\ UNCHANGED rp
  BY <1>2, DryRunFacts DEF Quiet
<1>3. ASSUME NEW o \in Operators, OperatorStep(o)
      PROVE  OperatorMoves(o) \/ Execute(o)
  BY <1>3, Zenon DEF OperatorStep, OperatorMoves
<1>4. ASSUME NEW s \in Sweeps, SweepStep(s)
      PROVE  SweepMoves(s) \/ QueueAutonomously(s)
  BY <1>4, Zenon DEF SweepStep, SweepMoves
<1>5. ASSUME NEW r \in Runs, Approve(r) \/ Reject(r) \/ Claim(r) \/ Settle(r)
      PROVE  Quiet /\ UNCHANGED rp
  <2>1. RowStep
    BY <1>5 DEF RowStep
  <2>2. QED
    BY <2>1, RowStepKeeps DEF Quiet
<1>6. CASE Tick
  <2>1. UNCHANGED <<run, op, sw, rp>> /\ now' = now + 1
    BY <1>6 DEF Tick
  <2>2. QED
    BY <2>1, SameRows DEF Quiet
<1>7. ASSUME NEW p \in Replays, ReplayStep(p)
      PROVE  (Quiet /\ ReplayMoves(p)) \/ CreateReplay(p)
  <2>1. ReplayMoves(p) \/ CreateReplay(p)
    BY <1>7, Zenon DEF ReplayStep, ReplayMoves
  <2>2. ASSUME ReplayMoves(p) PROVE Quiet
    BY <2>2, ReplayMovesFacts, SameRows DEF Quiet
  <2>3. QED
    BY <2>1, <2>2
<1>8. CASE Next
  BY <1>2, <1>3, <1>4, <1>5, <1>6, <1>7, <1>8, Zenon DEF Next
<1>9. QED
  BY <1>1, <1>8

LEMMA AdmittedCases ==
  ASSUME TypeInv, [Next]_vars
  PROVE  \/ Still
         \/ \E o \in Operators : OperatorMoves(o) \/ Execute(o)
         \/ \E s \in Sweeps : SweepMoves(s) \/ QueueAutonomously(s)
<1>1. ASSUME Quiet PROVE Still
  BY <1>1, KeptAll DEF Quiet, Still
<1>2. ASSUME NEW p \in Replays, CreateReplay(p) PROVE Still
  BY <1>2, CreateFacts DEF Still
<1>3. QED
  BY <1>1, <1>2, StepCases

LEMMA OperatorMovesFacts ==
  ASSUME TypeInv, NEW o \in Operators, OperatorMoves(o)
  PROVE  /\ UNCHANGED <<run, sw, rp, now>> /\ OpEdited(o)
         /\ op[o].pc = "idle" => MayBegin
         /\ op'[o].pc = "insert" =>
              /\ Allows("dry-run", op'[o].host, op'[o].act)
              /\ op[o].pc # "idle" /\ op'[o].host = op[o].host /\ op'[o].act = op[o].act
         /\ \A c \in Reads : op'[o].pc # "idle" /\ c \notin op'[o].left =>
              /\ op[o].pc # "idle" /\ op'[o].host = op[o].host /\ op'[o].act = op[o].act
              /\ c \notin op[o].left \/ Allows(c, op[o].host, op[o].act)
<1>1. CASE RequestExecute(o)
  BY <1>1, RequestFacts
<1>2. ASSUME NEW d \in op[o].left, Check(o, d) PROVE
         /\ UNCHANGED <<run, sw, rp, now>> /\ OpEdited(o) /\ op[o].pc = "check"
         /\ op'[o].pc = "insert" =>
              /\ Allows("dry-run", op'[o].host, op'[o].act)
              /\ op'[o].host = op[o].host /\ op'[o].act = op[o].act
         /\ \A c \in Reads : op'[o].pc # "idle" /\ c \notin op'[o].left =>
              /\ op'[o].host = op[o].host /\ op'[o].act = op[o].act
              /\ c \notin op[o].left \/ Allows(c, op[o].host, op[o].act)
  <2>1. op[o].left \subseteq Reads \/ op[o].left = {"dry-run"}
    BY DEF TypeInv, OperatorInv
  <2>2. "dry-run" \notin Reads
    BY DEF Reads
  <2>3. UNCHANGED <<run, sw, rp, now>> /\ OpEdited(o) /\ op[o].pc = "check"
    BY <1>2, CheckFacts
  <2>4. \/ op'[o] = IdleOperator
        \/ /\ Allows(d, op[o].host, op[o].act)
           /\ op'[o].host = op[o].host /\ op'[o].act = op[o].act
           /\ \/ d = "dry-run" /\ op'[o].pc = "insert" /\ op'[o].left = {}
              \/ /\ d # "dry-run" /\ op'[o].pc = "check"
                 /\ op'[o].left = op[o].left \ {d}
              \/ /\ d # "dry-run" /\ op'[o].pc = "check"
                 /\ op'[o].left = {"dry-run"} /\ op[o].left \ {d} = {}
    BY <1>2, CheckFacts
  <2>5. CASE op'[o] = IdleOperator
    BY <2>3, <2>5, IdleOperatorTyped
  <2>6. CASE d = "dry-run" /\ op'[o].pc = "insert" /\ op'[o] # IdleOperator
    <3>1. op[o].left = {"dry-run"}
      BY <2>1, <2>2, <2>6
    <3>2. QED
      BY <2>2, <2>3, <2>4, <2>6, <3>1
  <2>7. CASE d # "dry-run" /\ op'[o] # IdleOperator
    BY <2>2, <2>3, <2>4, <2>7
  <2>8. QED
    BY <2>4, <2>5, <2>6, <2>7
<1>3. CASE AbandonExecute(o)
  BY <1>3, AbandonExecuteFacts, IdleOperatorTyped
<1>4. QED
  BY <1>1, <1>2, <1>3 DEF OperatorMoves

LEMMA SweepMovesFacts ==
  ASSUME TypeInv, NEW s \in Sweeps, SweepMoves(s)
  PROVE  /\ UNCHANGED <<run, op, rp, now>> /\ SwEdited(s)
         /\ sw[s].pc = "idle" => MayBegin
         /\ \A c \in DOMAIN NoCounts : sw'[s].pc # "idle" /\ c \notin sw'[s].left =>
              /\ sw[s].pc # "idle" /\ sw'[s].host = sw[s].host /\ sw'[s].made = sw[s].made
              /\ \/ c \notin sw[s].left /\ sw'[s].count[c] = sw[s].count[c]
                 \/ sw'[s].count[c] = CountOf(c, sw[s].host)
         /\ sw'[s].pc \in {"latest", "insert"} =>
              /\ sw'[s].host = sw[s].host
              /\ \/ sw[s].pc \in {"latest", "insert"} /\ sw'[s].act = sw[s].act
                 \/ ~Busy(sw'[s].host, sw'[s].act)
         /\ sw'[s].pc = "insert" => ~CoolingDown(sw'[s].host, sw'[s].act)
<1> DEFINE Goal ==
         /\ UNCHANGED <<run, op, rp, now>> /\ SwEdited(s)
         /\ sw[s].pc = "idle" => MayBegin
         /\ \A c \in DOMAIN NoCounts : sw'[s].pc # "idle" /\ c \notin sw'[s].left =>
              /\ sw[s].pc # "idle" /\ sw'[s].host = sw[s].host /\ sw'[s].made = sw[s].made
              /\ \/ c \notin sw[s].left /\ sw'[s].count[c] = sw[s].count[c]
                 \/ sw'[s].count[c] = CountOf(c, sw[s].host)
         /\ sw'[s].pc \in {"latest", "insert"} =>
              /\ sw'[s].host = sw[s].host
              /\ \/ sw[s].pc \in {"latest", "insert"} /\ sw'[s].act = sw[s].act
                 \/ ~Busy(sw'[s].host, sw'[s].act)
         /\ sw'[s].pc = "insert" => ~CoolingDown(sw'[s].host, sw'[s].act)
<1>1. CASE StartSweep(s)
  BY <1>1, StartFacts
<1>2. ASSUME NEW d \in sw[s].left, Count(s, d) PROVE Goal
  <2>1. /\ UNCHANGED <<run, op, rp, now>> /\ SwEdited(s) /\ sw[s].pc = "count"
        /\ d \in DOMAIN NoCounts
        /\ sw'[s].host = sw[s].host /\ sw'[s].made = sw[s].made
        /\ sw'[s].left = sw[s].left \ {d}
        /\ sw'[s].pc \in {"next", "count"}
        /\ sw'[s].count[d] = CountOf(d, sw[s].host)
        /\ \A e \in DOMAIN NoCounts \ {d} : sw'[s].count[e] = sw[s].count[e]
    BY <1>2, CountFacts
  <2>2. QED
    BY <2>1
<1>3. CASE EndSweep(s)
  <2>1. UNCHANGED <<run, op, rp, now>> /\ SwEdited(s) /\ sw'[s].pc = "idle" /\ sw[s].pc = "next"
    BY <1>3, EndFacts, IdleSweepTyped DEF EndSweep
  <2>2. QED
    BY <2>1
<1>4. ASSUME NEW a \in sw[s].todo, Consider(s, a) PROVE Goal
  BY <1>4, ConsiderFacts
<1>5. CASE CheckLatest(s)
  BY <1>5, LatestFacts
<1>6. CASE AbandonSweep(s)
  BY <1>6, AbandonSweepFacts, IdleSweepTyped
<1>7. QED
  BY <1>1, <1>2, <1>3, <1>4, <1>5, <1>6 DEF SweepMoves

-----------------------------------------------------------------------------
(* A dry run comes first                                                    *)

Earlier(table, h, a, t) ==
  \E d \in Runs : /\ table[d].state = "succeeded" /\ table[d].kind = "dry-run"
                  /\ table[d].host = h /\ table[d].act = a /\ table[d].at <= t

DryRunInv ==
  /\ \A o \in Operators : op[o].pc = "insert" => Earlier(run, op[o].host, op[o].act, now)
  /\ \A r \in Runs : Counts(run[r]) /\ run[r].kind = "execute" =>
       Earlier(run, run[r].host, run[r].act, run[r].at)

LEMMA EarlierStays ==
  ASSUME DryRunsKept, NEW h, NEW a, NEW t, Earlier(run, h, a, t)
  PROVE  Earlier(run', h, a, t)
BY DEF DryRunsKept, Earlier

LEMMA EarlierLasts ==
  ASSUME TypeInv, NEW h, NEW a, NEW t \in Nat, Earlier(run, h, a, t)
  PROVE  Earlier(run, h, a, t + 1)
<1>1. PICK d \in Runs : /\ run[d].state = "succeeded" /\ run[d].kind = "dry-run"
                        /\ run[d].host = h /\ run[d].act = a /\ run[d].at <= t
  BY DEF Earlier
<1>2. run[d].at \in Nat
  BY DEF TypeInv, TypeOK, Row
<1>3. run[d].at <= t + 1
  BY <1>1, <1>2
<1>4. QED
  BY <1>1, <1>3 DEF Earlier

LEMMA DryRunStep ==
  ASSUME TypeInv, TypeInv', DryRunInv, [Next]_vars
  PROVE  DryRunInv'
<1> DEFINE OpOk(o)  == op'[o].pc = "insert" => Earlier(run', op'[o].host, op'[o].act, now')
           RowOk(r) == Counts(run'[r]) /\ run'[r].kind = "execute" =>
                         Earlier(run', run'[r].host, run'[r].act, run'[r].at)
<1>1. SUFFICES (\A o \in Operators : OpOk(o)) /\ (\A r \in Runs : RowOk(r))
  BY DEF DryRunInv
<1> now \in Nat
  BY DEF TypeInv, TypeOK
<1>2. CASE Quiet
  <2>1. UNCHANGED op /\ Kept /\ DryRunsKept /\ now' \in {now, now + 1}
    BY <1>2 DEF Quiet, RowsRead
  <2>2. ASSUME NEW o \in Operators, op'[o].pc = "insert"
        PROVE  Earlier(run', op'[o].host, op'[o].act, now')
    <3>1. Earlier(run, op[o].host, op[o].act, now)
      BY <2>1, <2>2 DEF DryRunInv
    <3>2. Earlier(run, op[o].host, op[o].act, now')
      BY <2>1, <3>1, EarlierLasts
    <3>3. QED
      BY <2>1, <3>2, EarlierStays
  <2>3. ASSUME NEW r \in Runs, Counts(run'[r]), run'[r].kind = "execute"
        PROVE  Earlier(run', run'[r].host, run'[r].act, run'[r].at)
    <3>1. /\ Counts(run[r]) /\ run[r].kind = "execute"
          /\ run'[r].host = run[r].host /\ run'[r].act = run[r].act /\ run'[r].at = run[r].at
      BY <2>1, <2>3 DEF Kept
    <3>2. Earlier(run, run[r].host, run[r].act, run[r].at)
      BY <3>1 DEF DryRunInv
    <3>3. QED
      BY <2>1, <3>1, <3>2, EarlierStays
  <2>4. QED
    BY <2>2, <2>3
<1>3. ASSUME NEW o \in Operators, OperatorMoves(o)
      PROVE  (\A p \in Operators : OpOk(p)) /\ (\A r \in Runs : RowOk(r))
  <2>1. /\ UNCHANGED <<run, now>> /\ \A p \in Operators \ {o} : op'[p] = op[p]
        /\ op'[o].pc = "insert" => Allows("dry-run", op'[o].host, op'[o].act)
    BY <1>3, OperatorMovesFacts DEF OpEdited
  <2>2. ASSUME NEW p \in Operators, p # o PROVE OpOk(p)
    BY <2>1, <2>2 DEF DryRunInv
  <2>3. ASSUME op'[o].pc = "insert" PROVE Earlier(run', op'[o].host, op'[o].act, now')
    <3>1. PICK d \in DryRuns(op'[o].host, op'[o].act) : TRUE
      BY <2>1, <2>3 DEF Allows
    <3>2. d \in Runs /\ run[d].at <= now
      BY <3>1 DEF DryRuns, TypeInv, RowInv
    <3>3. QED
      BY <2>1, <3>1, <3>2 DEF DryRuns, Earlier
  <2>4. \A r \in Runs : RowOk(r)
    BY <2>1 DEF DryRunInv
  <2>5. QED
    BY <2>2, <2>3, <2>4
<1>4. ASSUME NEW o \in Operators, Execute(o)
      PROVE  (\A p \in Operators : OpOk(p)) /\ (\A r \in Runs : RowOk(r))
  <2>1. /\ UNCHANGED now /\ (\A p \in Operators \ {o} : op'[p] = op[p]) /\ DryRunsKept
        /\ op[o].pc = "insert" /\ op'[o] = IdleOperator
        /\ \E r \in Runs : Grew(r, op[o].host, op[o].act)
    BY <1>4, ExecuteFacts DEF OpEdited, RowsRead
  <2>2. PICK r \in Runs : Grew(r, op[o].host, op[o].act)
    BY <2>1
  <2>3. ASSUME NEW p \in Operators, op'[p].pc = "insert"
        PROVE  Earlier(run', op'[p].host, op'[p].act, now')
    <3>1. p # o /\ op'[p] = op[p]
      BY <2>1, <2>3, IdleOperatorTyped
    <3>2. Earlier(run, op[p].host, op[p].act, now)
      BY <2>3, <3>1 DEF DryRunInv
    <3>3. QED
      BY <2>1, <3>1, <3>2, EarlierStays
  <2>4. Earlier(run', run'[r].host, run'[r].act, run'[r].at)
    <3>1. Earlier(run, op[o].host, op[o].act, now)
      BY <2>1 DEF DryRunInv
    <3>2. run'[r].host = op[o].host /\ run'[r].act = op[o].act /\ run'[r].at = now
      BY <2>2 DEF Grew
    <3>3. QED
      BY <2>1, <3>1, <3>2, EarlierStays
  <2>5. ASSUME NEW q \in Runs \ {r}, Counts(run'[q]), run'[q].kind = "execute"
        PROVE  Earlier(run', run'[q].host, run'[q].act, run'[q].at)
    <3>1. run'[q] = run[q]
      BY <2>2 DEF Grew
    <3>2. Earlier(run, run[q].host, run[q].act, run[q].at)
      BY <2>5, <3>1 DEF DryRunInv
    <3>3. QED
      BY <2>1, <3>1, <3>2, EarlierStays
  <2>6. QED
    BY <2>3, <2>4, <2>5
<1>5. ASSUME NEW s \in Sweeps, SweepMoves(s)
      PROVE  (\A p \in Operators : OpOk(p)) /\ (\A r \in Runs : RowOk(r))
  <2>1. UNCHANGED <<run, op, rp, now>>
    BY <1>5, SweepMovesFacts
  <2>2. QED
    BY <2>1 DEF DryRunInv
<1>6. ASSUME NEW s \in Sweeps, QueueAutonomously(s)
      PROVE  (\A p \in Operators : OpOk(p)) /\ (\A r \in Runs : RowOk(r))
  <2>1. /\ UNCHANGED <<op, rp, now>> /\ DryRunsKept
        /\ \E r \in Runs : Grew(r, sw[s].host, sw[s].act) /\ run'[r].kind = "auto"
    BY <1>6, QueueFacts DEF RowsRead
  <2>2. PICK r \in Runs : Grew(r, sw[s].host, sw[s].act) /\ run'[r].kind = "auto"
    BY <2>1
  <2>3. ASSUME NEW p \in Operators, op'[p].pc = "insert"
        PROVE  Earlier(run', op'[p].host, op'[p].act, now')
    <3>1. Earlier(run, op[p].host, op[p].act, now)
      BY <2>1, <2>3 DEF DryRunInv
    <3>2. QED
      BY <2>1, <3>1, EarlierStays
  <2>4. ASSUME NEW q \in Runs, Counts(run'[q]), run'[q].kind = "execute"
        PROVE  Earlier(run', run'[q].host, run'[q].act, run'[q].at)
    <3>1. run'[q] = run[q]
      BY <2>2, <2>4 DEF Grew
    <3>2. Earlier(run, run[q].host, run[q].act, run[q].at)
      BY <2>4, <3>1 DEF DryRunInv
    <3>3. QED
      BY <2>1, <3>1, <3>2, EarlierStays
  <2>5. QED
    BY <2>3, <2>4
<1>7. ASSUME NEW p \in Replays, CreateReplay(p)
      PROVE  (\A o \in Operators : OpOk(o)) /\ (\A r \in Runs : RowOk(r))
  <2> DEFINE source == rp[p].source
  <2>1. /\ UNCHANGED <<op, now>> /\ DryRunsKept /\ ExecutesKept
        /\ source \in Runs /\ Counts(run[source])
        /\ \E r \in Runs : Replayed(r, source)
    BY <1>7, CreateFacts DEF RowsRead
  <2> HIDE DEF source
  <2>2. PICK r \in Runs : Replayed(r, source)
    BY <2>1
  <2>3. ASSUME NEW o \in Operators, op'[o].pc = "insert"
        PROVE  Earlier(run', op'[o].host, op'[o].act, now')
    <3>1. Earlier(run, op[o].host, op[o].act, now)
      BY <2>1, <2>3 DEF DryRunInv
    <3>2. QED
      BY <2>1, <3>1, EarlierStays
  <2>4. ASSUME run'[r].kind = "execute"
        PROVE  Earlier(run', run'[r].host, run'[r].act, run'[r].at)
    <3>1. /\ run[source].kind = "execute" /\ run'[r].host = run[source].host
          /\ run'[r].act = run[source].act /\ run'[r].at = now
      BY <2>2, <2>4 DEF Replayed
    <3>2. Earlier(run, run[source].host, run[source].act, run[source].at)
      BY <2>1, <3>1 DEF DryRunInv
    <3>3. \A q \in Runs : run[q].at \in Nat /\ run[q].at <= now
      BY DEF TypeInv, TypeOK, Row, RowInv
    <3>4. Earlier(run, run[source].host, run[source].act, now)
      <4>1. \A q \in Runs : run[q].at <= run[source].at => run[q].at <= now
        BY <2>1, <3>3
      <4>2. QED
        BY <3>2, <4>1 DEF Earlier
    <3>5. QED
      BY <2>1, <3>1, <3>4, EarlierStays
  <2>5. ASSUME NEW q \in Runs \ {r}, Counts(run'[q]), run'[q].kind = "execute"
        PROVE  Earlier(run', run'[q].host, run'[q].act, run'[q].at)
    <3>1. Counts(run[q])
      BY <2>2, <2>5 DEF Replayed
    <3>2. /\ run[q].kind = "execute" /\ run'[q].host = run[q].host
          /\ run'[q].act = run[q].act /\ run'[q].at = run[q].at
      BY <2>1, <2>5, <3>1 DEF ExecutesKept
    <3>3. Earlier(run, run[q].host, run[q].act, run[q].at)
      BY <3>1, <3>2 DEF DryRunInv
    <3>4. QED
      BY <2>1, <3>2, <3>3, EarlierStays
  <2>6. QED
    BY <2>3, <2>4, <2>5
<1>8. QED
  BY <1>2, <1>3, <1>4, <1>5, <1>6, <1>7, StepCases

(* No run an operator has queued lacks a dry run of its action on its host, *)
(* made before it: other calls and drains in between undo none, and a run   *)
(* that is replayed brings its own.                                         *)
THEOREM DryRunAlwaysFirst == Spec => []DryRunFirst
<1>1. Init => TypeInv
  BY TypeInitially
<1>2. Init => DryRunInv
  <2>1. Init => \A o \in Operators : op[o].pc = "idle"
    BY IdleOperatorTyped DEF Init
  <2>2. Init => \A r \in Runs : run[r].state = "absent"
    BY DEF Init
  <2>3. QED
    BY <2>1, <2>2 DEF DryRunInv, Counts
<1>3. TypeInv /\ [Next]_vars => TypeInv'
  BY TypeStep
<1>4. TypeInv /\ TypeInv' /\ DryRunInv /\ [Next]_vars => DryRunInv'
  BY DryRunStep
<1>5. DryRunInv => DryRunFirst
  BY DEF DryRunInv, DryRunFirst, Executes, Counts, Earlier, DryRuns
<1>6. QED
  BY <1>1, <1>2, <1>3, <1>4, <1>5, PTL DEF Spec

-----------------------------------------------------------------------------
(* Calls that do not overlap                                                *)

OneCall ==
  /\ \A o, p \in Operators : op[o].pc # "idle" /\ op[p].pc # "idle" => o = p
  /\ \A s, t \in Sweeps : sw[s].pc # "idle" /\ sw[t].pc # "idle" => s = t
  /\ \A p, q \in Replays : rp[p].pc # "idle" /\ rp[q].pc # "idle" => p = q
  /\ \A o \in Operators, s \in Sweeps : op[o].pc = "idle" \/ sw[s].pc = "idle"
  /\ \A o \in Operators, p \in Replays : op[o].pc = "idle" \/ rp[p].pc = "idle"
  /\ \A s \in Sweeps, p \in Replays : sw[s].pc = "idle" \/ rp[p].pc = "idle"

LEMMA NoneUnderWay ==
  ASSUME Serial, MayBegin
  PROVE  /\ \A o \in Operators : op[o].pc = "idle"
         /\ \A s \in Sweeps : sw[s].pc = "idle"
         /\ \A p \in Replays : rp[p].pc = "idle"
BY DEF MayBegin, Calls

LEMMA OneCallStep ==
  ASSUME Serial, TypeInv, OneCall, [Next]_vars
  PROVE  OneCall'
<1>1. CASE UNCHANGED <<op, sw, rp>>
  BY <1>1 DEF OneCall
<1>2. ASSUME NEW o \in Operators, UNCHANGED <<sw, rp>>, OpEdited(o),
             op[o].pc = "idle" => MayBegin
      PROVE  OneCall'
  <2>1. \A p \in Operators \ {o} : op'[p] = op[p]
    BY <1>2 DEF OpEdited
  <2>2. /\ \A p \in Operators \ {o} : op[p].pc = "idle"
        /\ \A s \in Sweeps : sw[s].pc = "idle"
        /\ \A p \in Replays : rp[p].pc = "idle"
    BY <1>2, NoneUnderWay DEF OneCall
  <2> QED
    BY <1>2, <2>1, <2>2 DEF OneCall
<1>3. ASSUME NEW s \in Sweeps, UNCHANGED <<op, rp>>, SwEdited(s), sw[s].pc = "idle" => MayBegin
      PROVE  OneCall'
  <2>1. \A t \in Sweeps \ {s} : sw'[t] = sw[t]
    BY <1>3 DEF SwEdited
  <2>2. /\ \A t \in Sweeps \ {s} : sw[t].pc = "idle"
        /\ \A o \in Operators : op[o].pc = "idle"
        /\ \A p \in Replays : rp[p].pc = "idle"
    BY <1>3, NoneUnderWay DEF OneCall
  <2> QED
    BY <1>3, <2>1, <2>2 DEF OneCall
<1>4. ASSUME NEW p \in Replays, UNCHANGED <<op, sw>>, RpEdited(p), rp[p].pc = "idle" => MayBegin
      PROVE  OneCall'
  <2>1. \A q \in Replays \ {p} : rp'[q] = rp[q]
    BY <1>4 DEF RpEdited
  <2>2. /\ \A q \in Replays \ {p} : rp[q].pc = "idle"
        /\ \A o \in Operators : op[o].pc = "idle"
        /\ \A s \in Sweeps : sw[s].pc = "idle"
    BY <1>4, NoneUnderWay DEF OneCall
  <2> QED
    BY <1>4, <2>1, <2>2 DEF OneCall
<1>5. CASE Quiet /\ UNCHANGED rp
  BY <1>1, <1>5 DEF Quiet
<1>6. ASSUME NEW o \in Operators, OperatorMoves(o) \/ Execute(o)
      PROVE  OneCall'
  BY <1>2, <1>6, OperatorMovesFacts, ExecuteFacts
<1>7. ASSUME NEW s \in Sweeps, SweepMoves(s) \/ QueueAutonomously(s)
      PROVE  OneCall'
  BY <1>3, <1>7, SweepMovesFacts, QueueFacts
<1>8. ASSUME NEW p \in Replays, ReplayMoves(p) \/ CreateReplay(p)
      PROVE  OneCall'
  BY <1>4, <1>8, ReplayMovesFacts, CreateFacts
<1>9. QED
  BY <1>5, <1>6, <1>7, <1>8, StepCases

LEMMA OneCallInitially == Init => OneCall
<1>1. Init => /\ \A o \in Operators : op[o].pc = "idle"
              /\ \A s \in Sweeps : sw[s].pc = "idle"
              /\ \A p \in Replays : rp[p].pc = "idle"
  BY IdleOperatorTyped, IdleSweepTyped, IdleReplayTyped DEF Init
<1>2. QED
  BY <1>1 DEF OneCall

-----------------------------------------------------------------------------
(* An autonomous call and a replay find the action idle                     *)

BusyIn(table, h, a) ==
  \E r \in Runs : /\ Counts(table[r]) /\ table[r].host = h /\ table[r].act = a
                  /\ table[r].state \in Active

LEMMA BusyMeaning ==
  ASSUME NEW h, NEW a
  PROVE  Busy(h, a) <=> BusyIn(run, h, a)
BY DEF Busy, BusyIn, OfAction, OnHost, Executes, Counts

IdleInv ==
  /\ \A s \in Sweeps : sw[s].pc \in {"latest", "insert"} => ~BusyIn(run, sw[s].host, sw[s].act)
  /\ \A p \in Replays : rp[p].pc = "create" =>
       ~BusyIn(run, run[rp[p].source].host, run[rp[p].source].act)

LEMMA IdleStep ==
  ASSUME TypeInv, OneCall, OneCall', IdleInv, [Next]_vars
  PROVE  IdleInv'
<1> DEFINE SwOk(s) == sw'[s].pc \in {"latest", "insert"} =>
                        ~BusyIn(run', sw'[s].host, sw'[s].act)
           RpOk(p) == rp'[p].pc = "create" =>
                        ~BusyIn(run', run'[rp'[p].source].host, run'[rp'[p].source].act)
           Goal == (\A s \in Sweeps : SwOk(s)) /\ (\A p \in Replays : RpOk(p))
<1>1. SUFFICES Goal
  BY DEF IdleInv
<1>2. ASSUME Quiet PROVE \A s \in Sweeps : SwOk(s)
  <2>1. sw' = sw /\ Kept
    BY <1>2 DEF Quiet
  <2>2. \A h, a : ~BusyIn(run, h, a) => ~BusyIn(run', h, a)
    BY <2>1 DEF Kept, BusyIn
  <2>3. QED
    BY <2>1, <2>2 DEF IdleInv
<1>3. CASE Quiet /\ UNCHANGED rp
  <2>1. rp' = rp /\ Kept
    BY <1>3 DEF Quiet
  <2>2. \A h, a : ~BusyIn(run, h, a) => ~BusyIn(run', h, a)
    BY <2>1 DEF Kept, BusyIn
  <2>3. ASSUME NEW p \in Replays, rp[p].pc = "create"
        PROVE  ~BusyIn(run', run'[rp[p].source].host, run'[rp[p].source].act)
    <3>1. rp[p].source \in Runs /\ Counts(run[rp[p].source])
      BY <2>3 DEF TypeInv, ReplayInv
    <3>2. /\ run'[rp[p].source].host = run[rp[p].source].host
          /\ run'[rp[p].source].act = run[rp[p].source].act
      BY <2>1, <3>1 DEF Kept
    <3>3. ~BusyIn(run, run[rp[p].source].host, run[rp[p].source].act)
      BY <2>3 DEF IdleInv
    <3>4. QED
      BY <2>2, <3>2, <3>3
  <2>4. QED
    BY <1>2, <1>3, <2>1, <2>3
<1>4. ASSUME NEW o \in Operators, OperatorMoves(o) PROVE Goal
  BY <1>4, OperatorMovesFacts DEF IdleInv
<1>5. ASSUME NEW o \in Operators, Execute(o) PROVE Goal
  <2>1. UNCHANGED <<sw, rp>> /\ op[o].pc = "insert"
    BY <1>5, ExecuteFacts
  <2>2. /\ \A s \in Sweeps : sw'[s].pc = "idle"
        /\ \A p \in Replays : rp'[p].pc = "idle"
    BY <2>1 DEF OneCall
  <2>3. QED
    BY <2>2
<1>6. ASSUME NEW t \in Sweeps, SweepMoves(t) PROVE Goal
  <2>1. UNCHANGED <<run, rp>> /\ \A u \in Sweeps \ {t} : sw'[u] = sw[u]
    BY <1>6, SweepMovesFacts DEF SwEdited
  <2>2. ASSUME sw'[t].pc \in {"latest", "insert"} PROVE ~BusyIn(run', sw'[t].host, sw'[t].act)
    <3>1. /\ sw'[t].host = sw[t].host
          /\ \/ sw[t].pc \in {"latest", "insert"} /\ sw'[t].act = sw[t].act
             \/ ~Busy(sw'[t].host, sw'[t].act)
      BY <1>6, <2>2, SweepMovesFacts
    <3>2. QED
      BY <2>1, <3>1, BusyMeaning DEF IdleInv
  <2>3. ASSUME NEW s \in Sweeps \ {t} PROVE SwOk(s)
    BY <2>1 DEF IdleInv
  <2>4. \A p \in Replays : RpOk(p)
    BY <2>1 DEF IdleInv
  <2>5. QED
    BY <2>2, <2>3, <2>4
<1>7. ASSUME NEW t \in Sweeps, QueueAutonomously(t) PROVE Goal
  <2>1. /\ sw[t].pc = "insert" /\ sw'[t].pc = "next" /\ rp' = rp
        /\ \A u \in Sweeps \ {t} : sw'[u] = sw[u]
    BY <1>7, QueueFacts DEF SwEdited
  <2>2. /\ \A s \in Sweeps \ {t} : sw[s].pc = "idle"
        /\ \A p \in Replays : rp[p].pc = "idle"
    BY <2>1 DEF OneCall
  <2>3. QED
    BY <2>1, <2>2
<1>8. ASSUME NEW p \in Replays, Quiet, ReplayMoves(p) PROVE Goal
  <2>1. run' = run /\ \A q \in Replays \ {p} : rp'[q] = rp[q]
    BY <1>8, ReplayMovesFacts DEF RpEdited
  <2>2. RpOk(p)
    BY <1>8, <2>1, ReplayMovesFacts, BusyMeaning DEF SourceOf
  <2>3. ASSUME NEW q \in Replays \ {p} PROVE RpOk(q)
    BY <2>1 DEF IdleInv
  <2>4. QED
    BY <1>2, <1>8, <2>2, <2>3
<1>9. ASSUME NEW p \in Replays, CreateReplay(p) PROVE Goal
  <2>1. /\ sw' = sw /\ rp[p].pc = "create" /\ rp'[p].pc = "read"
        /\ \A q \in Replays \ {p} : rp'[q] = rp[q]
    BY <1>9, CreateFacts DEF RpEdited
  <2>2. /\ \A s \in Sweeps : sw[s].pc = "idle"
        /\ \A q \in Replays \ {p} : rp[q].pc = "idle"
    BY <2>1 DEF OneCall
  <2>3. QED
    BY <2>1, <2>2
<1>10. QED
  BY <1>3, <1>4, <1>5, <1>6, <1>7, <1>8, <1>9, StepCases

LEMMA FindsIdle ==
  ASSUME TypeInv, TypeInv', IdleInv, [Next]_vars,
         NEW r \in Runs, run[r].state = "absent", run'[r].kind = "auto"
  PROVE  ~Busy(run'[r].host, run'[r].act)
<1>1. run[r].kind # "auto"
  BY DEF TypeInv, RowInv
<1>2. run'[r] # run[r]
  BY <1>1
<1>3. ~Counts(run[r]) /\ (~Counts(run'[r]) => FALSE)
  <2>1. ASSUME run'[r].state = "absent" PROVE FALSE
    BY <2>1 DEF TypeInv, RowInv
  <2>2. QED
    BY <2>1 DEF Counts
<1>4. ASSUME Quiet PROVE FALSE
  BY <1>3, <1>4 DEF Quiet, Kept
<1>5. ASSUME NEW o \in Operators, OperatorMoves(o) PROVE FALSE
  BY <1>2, <1>5, OperatorMovesFacts
<1>6. ASSUME NEW o \in Operators, Execute(o) PROVE FALSE
  <2>1. PICK q \in Runs : Grew(q, op[o].host, op[o].act) /\ run'[q].kind = "execute"
    BY <1>6, ExecuteFacts
  <2>2. QED
    BY <1>2, <2>1 DEF Grew
<1>7. ASSUME NEW s \in Sweeps, SweepMoves(s) PROVE FALSE
  BY <1>2, <1>7, SweepMovesFacts
<1>8. ASSUME NEW s \in Sweeps, QueueAutonomously(s)
      PROVE  ~Busy(run'[r].host, run'[r].act)
  <2>1. PICK q \in Runs : Grew(q, sw[s].host, sw[s].act)
    BY <1>8, QueueFacts
  <2>2. run'[r].host = sw[s].host /\ run'[r].act = sw[s].act
    BY <1>2, <2>1 DEF Grew
  <2>3. ~BusyIn(run, sw[s].host, sw[s].act)
    BY <1>8, QueueFacts DEF IdleInv
  <2>4. QED
    BY <2>2, <2>3, BusyMeaning
<1>9. ASSUME NEW p \in Replays, CreateReplay(p)
      PROVE  ~Busy(run'[r].host, run'[r].act)
  <2>1. PICK q \in Runs : Replayed(q, rp[p].source)
    BY <1>9, CreateFacts
  <2>2. r = q
    BY <1>3, <2>1 DEF Replayed
  <2>3. run'[r].host = run[rp[p].source].host /\ run'[r].act = run[rp[p].source].act
    BY <2>1, <2>2 DEF Replayed
  <2>4. ~BusyIn(run, run[rp[p].source].host, run[rp[p].source].act)
    BY <1>9, CreateFacts DEF IdleInv
  <2>5. QED
    BY <2>3, <2>4, BusyMeaning
<1>10. QED
  BY <1>4, <1>5, <1>6, <1>7, <1>8, <1>9, StepCases

(* Where calls do not overlap, an autonomous call queues an action, and a   *)
(* replay queues an autonomous run of it again, only when no run of it is   *)
(* queued or running, although the call looks before it asks for the latest *)
(* run and inserts after.                                                   *)
THEOREM AutonomousAlwaysFindsIdle == ASSUME Serial PROVE Spec => AutonomousFindsIdle
<1>1. Init => TypeInv
  BY TypeInitially
<1>2. Init => IdleInv
  <2>1. Init => /\ \A s \in Sweeps : sw[s].pc = "idle"
                /\ \A p \in Replays : rp[p].pc = "idle"
    BY IdleSweepTyped, IdleReplayTyped DEF Init
  <2>2. QED
    BY <2>1 DEF IdleInv
<1>3. Init => OneCall
  BY OneCallInitially
<1>4. TypeInv /\ [Next]_vars => TypeInv'
  BY TypeStep
<1>5. TypeInv /\ OneCall /\ [Next]_vars => OneCall'
  BY OneCallStep
<1>6. TypeInv /\ OneCall /\ OneCall' /\ IdleInv /\ [Next]_vars => IdleInv'
  BY IdleStep
<1>7. TypeInv /\ TypeInv' /\ IdleInv /\ [Next]_vars =>
        [\A r \in Runs : run[r].state = "absent" /\ run'[r].kind = "auto"
           => ~Busy(run'[r].host, run'[r].act)]_vars
  BY FindsIdle
<1>8. QED
  BY <1>1, <1>2, <1>3, <1>4, <1>5, <1>6, <1>7, PTL DEF Spec, AutonomousFindsIdle

-----------------------------------------------------------------------------
(* Ledgers                                                                  *)
(*                                                                          *)
(* The runs a limit bounds are by themselves no invariant: a call that has  *)
(* passed the check will add to them later. So a ledger counts with the     *)
(* runs (a) what calls that have passed may still add: one run for each of  *)
(* a set of execute calls (o), one for each slot of a set s. A slot that is *)
(* used becomes a run, and a check passes only when there is room.          *)

Total(a, o, s) == Cardinality(a) + Cardinality(o) + Cardinality(s)

LEMMA Smaller ==
  ASSUME NEW S, IsFiniteSet(S), NEW T \in SUBSET S
  PROVE  /\ IsFiniteSet(T) /\ Cardinality(S) \in Nat /\ Cardinality(T) \in Nat
         /\ Cardinality(T) <= Cardinality(S)
BY FS_Subset, FS_CardinalityType

LEMMA OneMore ==
  ASSUME NEW S, IsFiniteSet(S), NEW r, NEW T \in SUBSET (S \cup {r})
  PROVE  /\ Cardinality(S) \in Nat /\ Cardinality(T) \in Nat
         /\ Cardinality(T) <= Cardinality(S) + 1
<1>1. Cardinality(S) \in Nat
  BY FS_CardinalityType
<1>2. /\ IsFiniteSet(S \cup {r})
      /\ Cardinality(S \cup {r}) = IF r \in S THEN Cardinality(S) ELSE Cardinality(S) + 1
  BY FS_AddElement
<1>3. /\ Cardinality(T) \in Nat /\ Cardinality(S \cup {r}) \in Nat
      /\ Cardinality(T) <= Cardinality(S \cup {r})
  BY <1>2, Smaller
<1>4. QED
  BY <1>1, <1>2, <1>3

LEMMA OneLess ==
  ASSUME NEW S, IsFiniteSet(S), NEW x \in S, NEW T \in SUBSET (S \ {x})
  PROVE  /\ Cardinality(S) \in Nat /\ Cardinality(T) \in Nat
         /\ Cardinality(T) <= Cardinality(S) - 1
<1>1. Cardinality(S) \in Nat
  BY FS_CardinalityType
<1>2. IsFiniteSet(S \ {x}) /\ Cardinality(S \ {x}) = Cardinality(S) - 1
  BY FS_RemoveElement
<1>3. Cardinality(T) \in Nat /\ Cardinality(T) <= Cardinality(S \ {x})
  BY <1>2, Smaller
<1>4. QED
  BY <1>1, <1>2, <1>3

LEMMA Shrinks ==
  ASSUME NEW a, NEW o, NEW s, IsFiniteSet(a), IsFiniteSet(o), IsFiniteSet(s),
         NEW a2 \in SUBSET a, NEW o2 \in SUBSET o, NEW s2 \in SUBSET s
  PROVE  /\ Total(a, o, s) \in Nat /\ Total(a2, o2, s2) \in Nat
         /\ Total(a2, o2, s2) <= Total(a, o, s)
         /\ Cardinality(a) \in Nat /\ Cardinality(a) <= Total(a, o, s)
<1>1. /\ {Cardinality(a), Cardinality(o), Cardinality(s)} \subseteq Nat
      /\ {Cardinality(a2), Cardinality(o2), Cardinality(s2)} \subseteq Nat
      /\ Cardinality(a2) <= Cardinality(a) /\ Cardinality(o2) <= Cardinality(o)
      /\ Cardinality(s2) <= Cardinality(s)
  BY Smaller
<1>2. QED
  BY <1>1 DEF Total

LEMMA OperatorSlotUsed ==
  ASSUME NEW a, NEW o, NEW s, IsFiniteSet(a), IsFiniteSet(o), IsFiniteSet(s),
         NEW r, NEW a2 \in SUBSET (a \cup {r}), NEW x \in o, NEW o2 \in SUBSET (o \ {x})
  PROVE  Total(a2, o2, s) \in Nat /\ Total(a2, o2, s) <= Total(a, o, s)
<1>1. /\ Cardinality(a) \in Nat /\ Cardinality(a2) \in Nat
      /\ Cardinality(a2) <= Cardinality(a) + 1
  BY OneMore
<1>2. /\ Cardinality(o) \in Nat /\ Cardinality(o2) \in Nat
      /\ Cardinality(o2) <= Cardinality(o) - 1
  BY OneLess
<1>3. Cardinality(s) \in Nat
  BY FS_CardinalityType
<1>4. QED
  BY <1>1, <1>2, <1>3 DEF Total

LEMMA SlotUsed ==
  ASSUME NEW a, NEW o, NEW s, IsFiniteSet(a), IsFiniteSet(o), IsFiniteSet(s),
         NEW r, NEW a2 \in SUBSET (a \cup {r}), NEW x \in s, NEW s2 \in SUBSET (s \ {x})
  PROVE  Total(a2, o, s2) \in Nat /\ Total(a2, o, s2) <= Total(a, o, s)
<1>1. /\ Cardinality(a) \in Nat /\ Cardinality(a2) \in Nat
      /\ Cardinality(a2) <= Cardinality(a) + 1
  BY OneMore
<1>2. /\ Cardinality(s) \in Nat /\ Cardinality(s2) \in Nat
      /\ Cardinality(s2) <= Cardinality(s) - 1
  BY OneLess
<1>3. Cardinality(o) \in Nat
  BY FS_CardinalityType
<1>4. QED
  BY <1>1, <1>2, <1>3 DEF Total

LEMMA FiniteIds ==
  /\ IsFiniteSet(Runs) /\ IsFiniteSet(Operators)
  /\ IsFiniteSet(Sweeps) /\ IsFiniteSet(Replays)
BY AdmissionAssumption DEF AdmissionAssumption

LEMMA EmptySize == IsFiniteSet({}) /\ Cardinality({}) = 0
BY FS_EmptySet
-----------------------------------------------------------------------------
(* The backlog and the hourly rate                                          *)

(* The admitted runs a limit bounds: the active ones of a host, or those of *)
(* the hour that begins at t. An hour that has passed gains no run.         *)
Part(table, c, h, t) ==
  {r \in Runs : /\ Admits(table[r]) /\ table[r].host = h
                /\ c = "host" => table[r].state \in Active
                /\ c = "hour" => table[r].at \in t..(t + Hour)}

Open(c, t, clock) == c = "hour" => clock <= t + Hour

OperatorsAhead(calls, c, h) ==
  {o \in Operators : calls[o].pc # "idle" /\ c \notin calls[o].left /\ calls[o].host = h}

Slots == Sweeps \X (1..Cycle)

(* The n-th run of an autonomous call is still to come and within the limit.*)
HasRoom(call, c, h, n) ==
  /\ call.pc # "idle" /\ c \notin call.left /\ call.host = h
  /\ call.made < n /\ call.count[c] + n - call.made <= Limit[c]

SlotsAhead(calls, c, h) == {x \in Slots : HasRoom(calls[x[1]], c, h, x[2])}

Bound(c) == Limit[c] + Slack

LedgerInv ==
  \A c \in {"host", "hour"}, h \in Hosts, t \in Nat :
    /\ Cardinality(Part(run, c, h, t)) <= Bound(c)
    /\ Open(c, t, now) =>
         Total(Part(run, c, h, t), OperatorsAhead(op, c, h), SlotsAhead(sw, c, h)) <= Bound(c)

LEMMA SlotFacts ==
  /\ IsFiniteSet(Slots) /\ Cardinality(Slots) = Cycle * Cardinality(Sweeps)
  /\ Cardinality(Slots) \in Nat
<1>1. /\ IsFiniteSet(Sweeps) /\ Cycle \in Nat /\ Cardinality(Sweeps) \in Nat
  BY AdmissionAssumption, FS_CardinalityType DEF AdmissionAssumption
<1>2. IsFiniteSet(1..Cycle) /\ Cardinality(1..Cycle) = Cycle
  <2>1. /\ IsFiniteSet(1..Cycle)
        /\ Cardinality(1..Cycle) = IF 1 > Cycle THEN 0 ELSE Cycle - 1 + 1
    BY <1>1, FS_Interval
  <2>2. QED
    BY <1>1, <2>1
<1>3. /\ IsFiniteSet(Slots)
      /\ Cardinality(Slots) = Cardinality(Sweeps) * Cardinality(1..Cycle)
  BY <1>1, <1>2, FS_Product DEF Slots
<1>4. Cardinality(Slots) \in Nat
  BY <1>3, FS_CardinalityType
<1>5. Cardinality(Sweeps) * Cycle = Cycle * Cardinality(Sweeps)
  BY <1>1
<1>6. QED
  BY <1>2, <1>3, <1>4, <1>5

LEMMA BoundFacts ==
  ASSUME NEW c \in {"host", "hour"}
  PROVE  /\ Limit[c] \in Nat /\ Limit[c] > 0 /\ Bound(c) \in Nat
         /\ c \in Reads /\ c \in DOMAIN NoCounts
         /\ Cardinality(Operators) \in Nat /\ Cardinality(Slots) \in Nat
         /\ Serial => Bound(c) = Limit[c]
         /\ ~Serial => Bound(c) = Limit[c] + Cardinality(Operators) + Cardinality(Slots) - 1
<1>1. c \in Reads /\ c \in DOMAIN NoCounts
  BY CountKeys DEF Reads
<1>2. Limit[c] \in Nat /\ Limit[c] > 0
  BY <1>1, LimitFacts
<1>3. Cardinality(Operators) \in Nat
  BY FiniteIds, FS_CardinalityType
<1>4. QED
  BY <1>1, <1>2, <1>3, SlotFacts DEF Bound, Slack

LEMMA PartsFinite ==
  ASSUME NEW table, NEW ops, NEW sws, NEW c, NEW h, NEW t
  PROVE  /\ Part(table, c, h, t) \in SUBSET Runs /\ IsFiniteSet(Part(table, c, h, t))
         /\ OperatorsAhead(ops, c, h) \in SUBSET Operators
         /\ IsFiniteSet(OperatorsAhead(ops, c, h))
         /\ SlotsAhead(sws, c, h) \in SUBSET Slots /\ IsFiniteSet(SlotsAhead(sws, c, h))
<1>1. /\ Part(table, c, h, t) \in SUBSET Runs
      /\ OperatorsAhead(ops, c, h) \in SUBSET Operators
      /\ SlotsAhead(sws, c, h) \in SUBSET Slots
  BY DEF Part, OperatorsAhead, SlotsAhead
<1>2. QED
  BY <1>1, FiniteIds, SlotFacts, Smaller

(* A check counts every run of the part, and others.                        *)
LEMMA PartSeen ==
  ASSUME TypeInv, NEW c \in {"host", "hour"}, NEW h, NEW t \in Nat, Open(c, t, now)
  PROVE  /\ Cardinality(Part(run, c, h, t)) <= Cardinality(Rows(c, h))
         /\ Cardinality(Part(run, c, h, t)) \in Nat /\ Cardinality(Rows(c, h)) \in Nat
<1>1. Rows(c, h) \in SUBSET Runs
  BY DEF Rows, ActiveOn, LastHour, OnHost, Executes
<1>2. Part(run, c, h, t) \in SUBSET Rows(c, h)
  <2>1. CASE c = "host"
    BY <2>1 DEF Part, Rows, ActiveOn, OnHost, Executes, Admits, Counts
  <2>2. CASE c = "hour"
    <3>1. now \in Nat /\ Hour \in Nat
      BY AdmissionAssumption DEF AdmissionAssumption, TypeInv, TypeOK
    <3>2. ASSUME NEW r \in Runs, run[r].at \in t..(t + Hour) PROVE Within(run[r].at, Hour)
      BY <2>2, <3>1, <3>2 DEF Open, Within
    <3>3. QED
      BY <2>2, <3>2 DEF Part, Rows, LastHour, OnHost, Executes, Admits, Counts
  <2>3. QED
    BY <2>1, <2>2
<1>3. QED
  BY <1>1, <1>2, FiniteIds, Smaller

(* A run that is admitted adds to the parts of its host alone.              *)
LEMMA PartGrows ==
  ASSUME NEW h, NEW a, NEW r \in Runs, Grew(r, h, a), NEW c, NEW g, NEW t
  PROVE  /\ Part(run', c, g, t) \in SUBSET (Part(run, c, g, t) \cup {r})
         /\ g # h => Part(run', c, g, t) \in SUBSET Part(run, c, g, t)
BY DEF Part, Grew

LEMMA ClosedPart ==
  ASSUME TypeInv, NEW h, NEW a, NEW r \in Runs, Grew(r, h, a), NEW c, NEW g, NEW t \in Nat,
         ~Open(c, t, now)
  PROVE  Part(run', c, g, t) \in SUBSET Part(run, c, g, t)
<1>1. c = "hour" /\ ~(now <= t + Hour) /\ now \in Nat /\ Hour \in Nat
  BY AdmissionAssumption DEF Open, AdmissionAssumption, TypeInv, TypeOK
<1>2. run'[r].at \notin t..(t + Hour)
  BY <1>1 DEF Grew
<1>3. r \notin Part(run', c, g, t)
  BY <1>1, <1>2 DEF Part
<1>4. QED
  BY <1>3, PartGrows

LEMMA StillPart ==
  ASSUME TypeInv, Still, NEW c, NEW h, NEW t \in Nat
  PROVE  /\ Part(run', c, h, t) \in SUBSET Part(run, c, h, t)
         /\ Open(c, t, now') => Open(c, t, now)
<1>1. now \in Nat /\ Hour \in Nat /\ now' \in {now, now + 1}
  BY AdmissionAssumption DEF AdmissionAssumption, TypeInv, TypeOK, Still
<1>2. Open(c, t, now') => Open(c, t, now)
  BY <1>1 DEF Open
<1>3. QED
  BY <1>2 DEF Part, Still, KeptAdmitted, RowsRead, ExecutesKept, Admits

(* An execute call passes a check.                                          *)
LEMMA OperatorPasses ==
  ASSUME Serial => OneCall', NEW c \in {"host", "hour"}, NEW h, NEW t,
         Cardinality(Part(run, c, h, t)) < Limit[c], NEW o \in OperatorsAhead(op', c, h)
  PROVE  Total(Part(run, c, h, t), OperatorsAhead(op', c, h), SlotsAhead(sw', c, h))
           <= Bound(c)
<1> DEFINE a == Part(run, c, h, t)
           O == OperatorsAhead(op', c, h)
           S == SlotsAhead(sw', c, h)
<1>1. /\ IsFiniteSet(O) /\ O \in SUBSET Operators /\ IsFiniteSet(S) /\ S \in SUBSET Slots
      /\ Cardinality(a) \in Nat
  BY PartsFinite, FS_CardinalityType
<1>2. CASE ~Serial
  <2> HIDE DEF a, O, S
  <2>1. /\ Cardinality(O) \in Nat /\ Cardinality(O) <= Cardinality(Operators)
        /\ Cardinality(S) \in Nat /\ Cardinality(S) <= Cardinality(Slots)
    BY <1>1, FiniteIds, SlotFacts, Smaller
  <2>2. Total(a, O, S) <= Bound(c)
    <3>1. Cardinality(a) < Limit[c]
      BY DEF a
    <3>2. QED
      BY <1>1, <1>2, <2>1, <3>1, BoundFacts DEF Total
  <2>3. QED
    BY <2>2 DEF a, O, S
<1>3. CASE Serial
  <2>1. O \in SUBSET {o} /\ S = {}
    BY <1>3 DEF OneCall, OperatorsAhead, SlotsAhead, HasRoom, Slots
  <2>2. Cardinality(a) < Limit[c]
    OBVIOUS
  <2> HIDE DEF a, O, S
  <2>3. IsFiniteSet({o}) /\ Cardinality({o}) = 1
    BY FS_Singleton
  <2>4. Cardinality(O) \in Nat /\ Cardinality(O) <= 1 /\ Cardinality(S) = 0
    BY <2>1, <2>3, Smaller, EmptySize
  <2>5. Total(a, O, S) <= Bound(c)
    BY <1>1, <1>3, <2>2, <2>4, BoundFacts DEF Total
  <2>6. QED
    BY <2>5 DEF a, O, S
<1>4. QED
  BY <1>2, <1>3

(* An autonomous call reads a count that leaves it room.                    *)
LEMMA SweepPasses ==
  ASSUME Serial => OneCall', sw' \in [Sweeps -> SweepState],
         NEW c \in {"host", "hour"}, NEW h, NEW t,
         NEW x \in SlotsAhead(sw', c, h),
         Cardinality(Part(run, c, h, t)) <= sw'[x[1]].count[c]
  PROVE  Total(Part(run, c, h, t), OperatorsAhead(op', c, h), SlotsAhead(sw', c, h))
           <= Bound(c)
<1> DEFINE a == Part(run, c, h, t)
           O == OperatorsAhead(op', c, h)
           S == SlotsAhead(sw', c, h)
           s == x[1]
           k == sw'[s].count[c]
           m == sw'[s].made
<1>1. /\ IsFiniteSet(O) /\ O \in SUBSET Operators /\ IsFiniteSet(S) /\ S \in SUBSET Slots
      /\ Cardinality(a) \in Nat
  BY PartsFinite, FS_CardinalityType
<1>2. s \in Sweeps /\ x[2] \in Nat /\ HasRoom(sw'[s], c, h, x[2])
  BY DEF SlotsAhead, Slots
<1>3. k \in Nat /\ m \in Nat /\ Limit[c] \in Nat
  <2>1. sw'[s] \in SweepState
    BY <1>2
  <2>2. QED
    BY <2>1, BoundFacts DEF SweepState
<1>4. Cardinality(a) <= k /\ k < Limit[c]
  <2>1. m < x[2] /\ k + x[2] - m <= Limit[c]
    BY <1>2 DEF HasRoom
  <2>2. QED
    BY <1>2, <1>3, <2>1
<1>5. CASE ~Serial
  <2> HIDE DEF a, O, S, k, m, s
  <2>1. /\ Cardinality(O) \in Nat /\ Cardinality(O) <= Cardinality(Operators)
        /\ Cardinality(S) \in Nat /\ Cardinality(S) <= Cardinality(Slots)
    BY <1>1, FiniteIds, SlotFacts, Smaller
  <2>2. Total(a, O, S) <= Bound(c)
    BY <1>1, <1>3, <1>4, <1>5, <2>1, BoundFacts DEF Total
  <2>3. QED
    BY <2>2 DEF a, O, S
<1>6. CASE Serial
  <2> DEFINE room == (m + 1)..(m + (Limit[c] - k))
  <2>1. O = {}
    BY <1>2, <1>6 DEF OneCall, OperatorsAhead, HasRoom
  <2>2. S \in SUBSET ({s} \X room)
    <3>1. SUFFICES ASSUME NEW y \in Slots, HasRoom(sw'[y[1]], c, h, y[2])
                   PROVE  y \in {s} \X room
      BY DEF SlotsAhead
    <3>2. y[1] \in Sweeps /\ y[2] \in Nat /\ y = <<y[1], y[2]>>
      BY DEF Slots
    <3>3. y[1] = s
      BY <1>2, <1>6, <3>1, <3>2 DEF OneCall, HasRoom
    <3>4. m < y[2] /\ k + y[2] - m <= Limit[c]
      BY <3>1, <3>3 DEF HasRoom
    <3>5. y[2] \in room
      BY <1>3, <3>2, <3>4
    <3>6. QED
      BY <3>2, <3>3, <3>5
  <2>3. IsFiniteSet(room) /\ Cardinality(room) = Limit[c] - k
    <3> DEFINE lo == m + 1
               hi == m + (Limit[c] - k)
    <3>1. lo \in Int /\ hi \in Int /\ hi - lo + 1 = Limit[c] - k /\ lo <= hi
      BY <1>3, <1>4
    <3>2. room = lo..hi
      OBVIOUS
    <3> HIDE DEF lo, hi, room
    <3>3. /\ IsFiniteSet(lo..hi)
          /\ Cardinality(lo..hi) = IF lo > hi THEN 0 ELSE hi - lo + 1
      BY <3>1, FS_Interval
    <3>4. QED
      BY <3>1, <3>2, <3>3
  <2> HIDE DEF a, O, S, k, m, s, room
  <2>4. IsFiniteSet({s}) /\ Cardinality({s}) = 1
    BY FS_Singleton
  <2>5. IsFiniteSet({s} \X room) /\ Cardinality({s} \X room) = 1 * (Limit[c] - k)
    BY <2>3, <2>4, FS_Product
  <2>6. Cardinality(S) \in Nat /\ Cardinality(S) <= Limit[c] - k
    <3>1. Cardinality(S) \in Nat /\ Cardinality(S) <= Cardinality({s} \X room)
      BY <2>2, <2>5, Smaller
    <3>2. QED
      BY <1>3, <2>5, <3>1
  <2>7. Cardinality(O) = 0
    BY <2>1, EmptySize
  <2>8. Total(a, O, S) <= Bound(c)
    BY <1>1, <1>3, <1>4, <1>6, <2>6, <2>7, BoundFacts DEF Total
  <2>9. QED
    BY <2>8 DEF a, O, S
<1>7. QED
  BY <1>5, <1>6

LEMMA LedgerStep ==
  ASSUME TypeInv, TypeInv', Serial => OneCall', LedgerInv, [Next]_vars
  PROVE  LedgerInv'
<1> SUFFICES ASSUME NEW c \in {"host", "hour"}, NEW h \in Hosts, NEW t \in Nat
             PROVE  /\ Cardinality(Part(run', c, h, t)) <= Bound(c)
                    /\ Open(c, t, now') =>
                         Total(Part(run', c, h, t), OperatorsAhead(op', c, h),
                               SlotsAhead(sw', c, h)) <= Bound(c)
  BY DEF LedgerInv, Bound
<1> DEFINE a  == Part(run, c, h, t)
           b  == Part(run', c, h, t)
           O  == OperatorsAhead(op, c, h)
           P  == OperatorsAhead(op', c, h)
           S  == SlotsAhead(sw, c, h)
           T  == SlotsAhead(sw', c, h)
           Goal == /\ Cardinality(b) <= Bound(c)
                   /\ Open(c, t, now') => Total(b, P, T) <= Bound(c)
<1>1. /\ Cardinality(a) <= Bound(c)
      /\ Open(c, t, now) => Total(a, O, S) <= Bound(c)
  BY DEF LedgerInv
<1>2. /\ IsFiniteSet(a) /\ IsFiniteSet(b) /\ IsFiniteSet(O) /\ IsFiniteSet(P)
      /\ IsFiniteSet(S) /\ IsFiniteSet(T) /\ Bound(c) \in Nat
  BY PartsFinite, BoundFacts
(* A step after which nothing is more than before. *)
<1>3. ASSUME b \in SUBSET a, P \in SUBSET O, T \in SUBSET S,
             Open(c, t, now') => Open(c, t, now)
      PROVE  Goal
  <2> HIDE DEF a, b, O, P, S, T
  <2>1. /\ Cardinality(b) \in Nat /\ Cardinality(a) \in Nat /\ Cardinality(b) <= Cardinality(a)
        /\ Total(a, O, S) \in Nat /\ Total(b, P, T) \in Nat /\ Total(b, P, T) <= Total(a, O, S)
    BY <1>2, <1>3, Smaller, Shrinks
  <2>2. QED
    BY <1>1, <1>2, <1>3, <2>1
(* A step that keeps the sum of an hour that has not passed. *)
<1>4. ASSUME Open(c, t, now), Total(b, P, T) <= Total(a, O, S), Total(b, P, T) \in Nat
      PROVE  Goal
  <2> HIDE DEF a, b, O, P, S, T
  <2>1. /\ Cardinality(b) \in Nat /\ Cardinality(b) <= Total(b, P, T)
        /\ Total(a, O, S) \in Nat
    BY <1>2, Shrinks
  <2>2. QED
    BY <1>1, <1>2, <1>4, <2>1
<1>5. CASE Still
  <2>1. P = O /\ T = S
    BY <1>5 DEF Still
  <2>2. b \in SUBSET a /\ (Open(c, t, now') => Open(c, t, now))
    BY <1>5, StillPart
  <2>3. QED
    BY <1>3, <2>1, <2>2
<1>6. ASSUME NEW o \in Operators, OperatorMoves(o) PROVE Goal
  <2>1. /\ run' = run /\ sw' = sw /\ now' = now
        /\ \A p \in Operators \ {o} : op'[p] = op[p]
    BY <1>6, OperatorMovesFacts DEF OpEdited
  <2>2. b = a /\ T = S
    BY <2>1
  <2>3. CASE P \in SUBSET O
    BY <1>3, <2>1, <2>2, <2>3
  <2>4. CASE P \notin SUBSET O
    <3>1. o \in P /\ o \notin O
      BY <2>1, <2>4 DEF OperatorsAhead
    <3>2. op'[o].pc # "idle" /\ c \notin op'[o].left /\ op'[o].host = h
      BY <3>1 DEF OperatorsAhead
    <3>3. /\ op[o].pc # "idle" /\ op[o].host = h
          /\ c \notin op[o].left \/ Allows(c, op[o].host, op[o].act)
      BY <1>6, <3>2, BoundFacts, OperatorMovesFacts
    <3>4. Allows(c, h, op[o].act)
      BY <3>1, <3>3 DEF OperatorsAhead
    <3>5. Cardinality(Rows(c, h)) < Limit[c]
      BY <3>4, LimitFacts DEF Allows, Rows
    <3>6. ASSUME Open(c, t, now) PROVE Total(b, P, T) <= Bound(c)
      <4>1. Cardinality(a) < Limit[c]
        <5>1. Cardinality(a) <= Cardinality(Rows(c, h)) /\ Cardinality(a) \in Nat
              /\ Cardinality(Rows(c, h)) \in Nat /\ Limit[c] \in Nat
          BY <3>6, PartSeen, BoundFacts
        <5>2. QED
          BY <3>5, <5>1
      <4>2. QED
        BY <2>2, <3>1, <4>1, OperatorPasses
    <3>7. QED
      BY <1>1, <2>1, <2>2, <3>6
  <2>5. QED
    BY <2>3, <2>4
<1>7. ASSUME NEW o \in Operators, Execute(o) PROVE Goal
  <2>1. /\ sw' = sw /\ now' = now /\ (\A p \in Operators \ {o} : op'[p] = op[p])
        /\ op[o].pc = "insert" /\ op'[o].pc = "idle"
        /\ \E r \in Runs : Grew(r, op[o].host, op[o].act)
    BY <1>7, ExecuteFacts, IdleOperatorTyped DEF OpEdited
  <2>2. PICK r \in Runs : Grew(r, op[o].host, op[o].act)
    BY <2>1
  <2>3. T = S /\ P \in SUBSET (O \ {o})
    BY <2>1 DEF OperatorsAhead
  <2>4. CASE h # op[o].host \/ ~Open(c, t, now)
    <3>1. b \in SUBSET a
      BY <2>2, <2>4, PartGrows, ClosedPart
    <3>2. QED
      BY <1>3, <2>1, <2>3, <3>1
  <2>5. CASE h = op[o].host /\ Open(c, t, now)
    <3>1. o \in O
      BY <2>1, <2>5 DEF OperatorsAhead, TypeInv, OperatorInv
    <3>2. b \in SUBSET (a \cup {r})
      BY <2>2, PartGrows
    <3>3. Total(b, P, T) \in Nat /\ Total(b, P, T) <= Total(a, O, S)
      <4> HIDE DEF a, b, O, P, S, T
      <4>1. QED
        BY <1>2, <2>3, <3>1, <3>2, OperatorSlotUsed
    <3>4. QED
      BY <1>4, <2>5, <3>3
  <2>6. QED
    BY <2>4, <2>5
<1>8. ASSUME NEW s \in Sweeps, SweepMoves(s) PROVE Goal
  <2>1. /\ run' = run /\ op' = op /\ now' = now
        /\ \A u \in Sweeps \ {s} : sw'[u] = sw[u]
    BY <1>8, SweepMovesFacts DEF SwEdited
  <2>2. b = a /\ P = O
    BY <2>1
  <2>3. CASE T \in SUBSET S
    BY <1>3, <2>1, <2>2, <2>3
  <2>4. CASE T \notin SUBSET S
    <3>1. PICK x \in Slots : x \in T /\ x \notin S
      BY <2>4 DEF SlotsAhead
    <3>2. x[1] \in Sweeps /\ HasRoom(sw'[x[1]], c, h, x[2])
      BY <3>1 DEF SlotsAhead, Slots
    <3>3. x[1] = s
      BY <2>1, <3>1, <3>2 DEF SlotsAhead
    <3>4. sw'[s].pc # "idle" /\ c \notin sw'[s].left /\ sw'[s].host = h
      BY <3>2, <3>3 DEF HasRoom
    <3>5. /\ sw[s].pc # "idle" /\ sw[s].host = h /\ sw'[s].made = sw[s].made
          /\ \/ c \notin sw[s].left /\ sw'[s].count[c] = sw[s].count[c]
             \/ sw'[s].count[c] = CountOf(c, sw[s].host)
      BY <1>8, <3>4, BoundFacts, SweepMovesFacts
    <3>6. sw'[s].count[c] = CountOf(c, h)
      BY <3>1, <3>2, <3>3, <3>5 DEF SlotsAhead, HasRoom
    <3>7. CountOf(c, h) < Limit[c]
      <4>1. /\ sw'[s].made < x[2] /\ sw'[s].count[c] + x[2] - sw'[s].made <= Limit[c]
        BY <3>2, <3>3 DEF HasRoom
      <4>2. sw'[s].made \in Nat /\ x[2] \in Nat
        BY <3>1 DEF TypeInv, TypeOK, SweepState, Slots
      <4>3. CountOf(c, h) \in Nat /\ Limit[c] \in Nat
        BY CountOfType, BoundFacts
      <4>4. QED
        BY <3>6, <4>1, <4>2, <4>3
    <3>8. ASSUME Open(c, t, now) PROVE Total(b, P, T) <= Bound(c)
      <4>1. Cardinality(a) <= sw'[s].count[c]
        BY <3>6, <3>7, <3>8, PartSeen, CountOfType, BoundFacts
      <4>2. sw' \in [Sweeps -> SweepState]
        BY DEF TypeInv, TypeOK
      <4>3. QED
        BY <2>2, <3>1, <3>3, <4>1, <4>2, SweepPasses
    <3>9. QED
      BY <1>1, <2>1, <2>2, <3>8
  <2>5. QED
    BY <2>3, <2>4
<1>9. ASSUME NEW s \in Sweeps, QueueAutonomously(s) PROVE Goal
  <2>1. /\ op' = op /\ now' = now /\ (\A u \in Sweeps \ {s} : sw'[u] = sw[u])
        /\ sw[s].pc = "insert" /\ sw'[s].host = sw[s].host /\ sw'[s].left = sw[s].left
        /\ sw'[s].made = sw[s].made + 1
        /\ sw'[s].count[c] = sw[s].count[c] + 1
        /\ \E r \in Runs : Grew(r, sw[s].host, sw[s].act)
    BY <1>9, BoundFacts, QueueFacts DEF SwEdited
  <2>2. PICK r \in Runs : Grew(r, sw[s].host, sw[s].act)
    BY <2>1
  <2>3. /\ sw[s].made \in Nat /\ sw[s].count[c] \in Nat
        /\ Cycle \in Nat /\ Limit[c] \in Nat
    <3>1. sw[s] \in SweepState
      BY DEF TypeInv, TypeOK
    <3>2. QED
      BY <3>1, BoundFacts, AdmissionAssumption DEF SweepState, AdmissionAssumption
  <2>4. sw[s].made < Cycle /\ sw[s].count[c] < Limit[c] /\ sw[s].left = {}
    <3>1. ~Full(s) /\ sw[s].left = {}
      BY <2>1 DEF TypeInv, SweepInv
    <3>2. ~(sw[s].made >= Cycle) /\ ~(sw[s].count[c] >= Limit[c])
      BY <3>1, BoundFacts, LimitFacts DEF Full
    <3>3. QED
      BY <2>3, <3>1, <3>2
  <2> DEFINE x == <<s, sw[s].made + 1>>
  <2>5. T \in SUBSET S
    <3>1. SUFFICES ASSUME NEW y \in Slots, HasRoom(sw'[y[1]], c, h, y[2])
                   PROVE  HasRoom(sw[y[1]], c, h, y[2])
      BY DEF SlotsAhead
    <3>2. y[1] \in Sweeps /\ y[2] \in Nat
      BY DEF Slots
    <3>3. CASE y[1] = s
      <4>1. /\ sw'[s].host = h /\ sw[s].made + 1 < y[2]
            /\ (sw[s].count[c] + 1) + y[2] - (sw[s].made + 1) <= Limit[c]
        BY <2>1, <3>1, <3>3 DEF HasRoom
      <4>2. sw[s].made < y[2] /\ sw[s].count[c] + y[2] - sw[s].made <= Limit[c]
        BY <2>3, <3>2, <4>1
      <4>3. QED
        BY <2>1, <2>4, <3>3, <4>1, <4>2 DEF HasRoom
    <3>4. CASE y[1] # s
      BY <2>1, <3>1, <3>2, <3>4
    <3>5. QED
      BY <3>3, <3>4
  <2>6. x \notin T
    <3>1. x[1] = s /\ x[2] = sw[s].made + 1
      OBVIOUS
    <3>2. ~(sw'[s].made < x[2])
      BY <2>1, <2>3, <3>1
    <3>3. QED
      BY <3>1, <3>2 DEF SlotsAhead, HasRoom
  <2>7. CASE h # sw[s].host \/ ~Open(c, t, now)
    <3>1. b \in SUBSET a /\ P = O
      BY <2>1, <2>2, <2>7, PartGrows, ClosedPart
    <3>2. QED
      BY <1>3, <2>1, <2>5, <3>1
  <2>8. CASE h = sw[s].host /\ Open(c, t, now)
    <3>1. x \in S
      <4>1. x[1] = s /\ x[2] = sw[s].made + 1 /\ x \in Slots
        BY <2>3, <2>4 DEF Slots
      <4>2. /\ sw[s].made < sw[s].made + 1
            /\ sw[s].count[c] + (sw[s].made + 1) - sw[s].made <= Limit[c]
        BY <2>3, <2>4
      <4>3. QED
        BY <2>1, <2>4, <2>8, <4>1, <4>2 DEF SlotsAhead, HasRoom
    <3>2. b \in SUBSET (a \cup {r}) /\ P = O
      BY <2>1, <2>2, PartGrows
    <3>3. T \in SUBSET (S \ {x})
      BY <2>5, <2>6
    <3>4. Total(b, P, T) \in Nat /\ Total(b, P, T) <= Total(a, O, S)
      <4> HIDE DEF a, b, O, P, S, T, x
      <4>1. QED
        BY <1>2, <3>1, <3>2, <3>3, SlotUsed
    <3>5. QED
      BY <1>4, <2>8, <3>4
  <2>9. QED
    BY <2>7, <2>8
<1>10. QED
  BY <1>5, <1>6, <1>7, <1>8, <1>9, AdmittedCases

LEMMA LedgerInitially == Init => LedgerInv
<1> SUFFICES ASSUME Init, NEW c \in {"host", "hour"}, NEW h \in Hosts, NEW t \in Nat
             PROVE  /\ Cardinality(Part(run, c, h, t)) <= Bound(c)
                    /\ Total(Part(run, c, h, t), OperatorsAhead(op, c, h), SlotsAhead(sw, c, h))
                         <= Bound(c)
  BY DEF LedgerInv
<1>1. Part(run, c, h, t) = {}
  BY DEF Init, Part, Admits, Counts
<1>2. OperatorsAhead(op, c, h) = {}
  BY IdleOperatorTyped DEF Init, OperatorsAhead
<1>3. SlotsAhead(sw, c, h) = {}
  BY IdleSweepTyped DEF Init, SlotsAhead, HasRoom, Slots
<1>4. QED
  BY <1>1, <1>2, <1>3, EmptySize, BoundFacts DEF Total

-----------------------------------------------------------------------------
(* The cooldown                                                             *)

(* The admitted runs of an action in the stretch that begins at t, and the  *)
(* calls that have found none and will add one.                             *)
CoolPart(table, h, a, t) ==
  {r \in Runs : /\ Admits(table[r]) /\ table[r].host = h /\ table[r].act = a
                /\ table[r].at \in t..(t + Cooldown)}

CoolOperators(calls, h, a) ==
  {o \in Operators : /\ calls[o].pc # "idle" /\ "cooldown" \notin calls[o].left
                     /\ calls[o].host = h /\ calls[o].act = a}

CoolSweeps(calls, h, a) ==
  {s \in Sweeps : calls[s].pc = "insert" /\ calls[s].host = h /\ calls[s].act = a}

Together == IF Serial THEN 1 ELSE Cardinality(Operators) + Cardinality(Sweeps)

CoolInv ==
  Cooldown > 0 => \A h \in Hosts, a \in Acts, t \in Nat :
    /\ Cardinality(CoolPart(run, h, a, t)) <= Together
    /\ now <= t + Cooldown =>
         Total(CoolPart(run, h, a, t), CoolOperators(op, h, a), CoolSweeps(sw, h, a)) <= Together

LEMMA CoolFinite ==
  ASSUME NEW table, NEW ops, NEW sws, NEW h, NEW a, NEW t
  PROVE  /\ IsFiniteSet(CoolPart(table, h, a, t))
         /\ IsFiniteSet(CoolOperators(ops, h, a)) /\ IsFiniteSet(CoolSweeps(sws, h, a))
         /\ Cardinality(CoolOperators(ops, h, a)) \in Nat
         /\ Cardinality(CoolOperators(ops, h, a)) <= Cardinality(Operators)
         /\ Cardinality(CoolSweeps(sws, h, a)) \in Nat
         /\ Cardinality(CoolSweeps(sws, h, a)) <= Cardinality(Sweeps)
         /\ Cardinality(Operators) \in Nat /\ Cardinality(Sweeps) \in Nat /\ Together \in Nat
<1>1. /\ CoolPart(table, h, a, t) \in SUBSET Runs
      /\ CoolOperators(ops, h, a) \in SUBSET Operators
      /\ CoolSweeps(sws, h, a) \in SUBSET Sweeps
  BY DEF CoolPart, CoolOperators, CoolSweeps
<1>2. Cardinality(Operators) \in Nat /\ Cardinality(Sweeps) \in Nat
  BY FiniteIds, FS_CardinalityType
<1>3. Together \in Nat
  BY <1>2 DEF Together
<1>4. QED
  BY <1>1, <1>2, <1>3, FiniteIds, Smaller

(* A check that passes sees an empty stretch, and then there is room for    *)
(* every call.                                                              *)
LEMMA CoolPasses ==
  ASSUME TypeInv, Serial => OneCall', Cooldown > 0, NEW h, NEW a, NEW t \in Nat,
         now <= t + Cooldown, ~CoolingDown(h, a)
  PROVE  Total(CoolPart(run, h, a, t), CoolOperators(op', h, a), CoolSweeps(sw', h, a))
           <= Together
<1> DEFINE O == CoolOperators(op', h, a)
           S == CoolSweeps(sw', h, a)
<1>1. CoolPart(run, h, a, t) = {}
  <2>1. now \in Nat /\ Cooldown \in Nat
    BY AdmissionAssumption DEF AdmissionAssumption, TypeInv, TypeOK
  <2>2. ASSUME NEW r \in Runs, run[r].at \in t..(t + Cooldown) PROVE Within(run[r].at, Cooldown)
    BY <2>1, <2>2 DEF Within
  <2>3. QED
    BY <2>2 DEF CoolPart, CoolingDown, OfAction, OnHost, Executes, Admits, Counts
<1>2. Cardinality(O) + Cardinality(S) <= Together
  <2>1. CASE ~Serial
    BY <2>1, CoolFinite DEF Together
  <2>2. CASE Serial
    <3>1. ASSUME NEW o \in O PROVE O \in SUBSET {o} /\ S = {}
      BY <2>2, <3>1 DEF OneCall, CoolOperators, CoolSweeps
    <3>2. ASSUME NEW u \in S PROVE O = {} /\ S \in SUBSET {u}
      BY <2>2, <3>2 DEF OneCall, CoolOperators, CoolSweeps
    <3> HIDE DEF O, S
    <3>3. CASE O = {} /\ S = {}
      BY <2>2, <3>3, EmptySize DEF Together
    <3>4. ASSUME NEW o \in O PROVE Cardinality(O) + Cardinality(S) <= Together
      <4>1. IsFiniteSet({o}) /\ Cardinality({o}) = 1
        BY FS_Singleton
      <4>2. Cardinality(O) \in Nat /\ Cardinality(O) <= 1 /\ Cardinality(S) = 0
        BY <3>1, <3>4, <4>1, Smaller, EmptySize
      <4>3. QED
        BY <2>2, <4>2 DEF Together
    <3>5. ASSUME NEW u \in S PROVE Cardinality(O) + Cardinality(S) <= Together
      <4>1. IsFiniteSet({u}) /\ Cardinality({u}) = 1
        BY FS_Singleton
      <4>2. Cardinality(S) \in Nat /\ Cardinality(S) <= 1 /\ Cardinality(O) = 0
        BY <3>2, <3>5, <4>1, Smaller, EmptySize
      <4>3. QED
        BY <2>2, <4>2 DEF Together
    <3>6. QED
      BY <3>3, <3>4, <3>5
  <2>3. QED
    BY <2>1, <2>2
<1>3. Cardinality(O) \in Nat /\ Cardinality(S) \in Nat
  BY CoolFinite
<1> HIDE DEF O, S
<1>4. Total({}, O, S) <= Together
  BY <1>2, <1>3, EmptySize DEF Total
<1>5. QED
  BY <1>1, <1>4 DEF O, S

LEMMA CoolGrows ==
  ASSUME TypeInv, NEW h, NEW a, NEW r \in Runs, Grew(r, h, a), NEW g, NEW b, NEW t \in Nat
  PROVE  /\ CoolPart(run', g, b, t) \in SUBSET (CoolPart(run, g, b, t) \cup {r})
         /\ g # h \/ b # a \/ ~(now <= t + Cooldown) =>
              CoolPart(run', g, b, t) \in SUBSET CoolPart(run, g, b, t)
<1>1. now \in Nat /\ Cooldown \in Nat
  BY AdmissionAssumption DEF AdmissionAssumption, TypeInv, TypeOK
<1>2. ~(now <= t + Cooldown) => run'[r].at \notin t..(t + Cooldown)
  BY <1>1 DEF Grew
<1>3. QED
  BY <1>2 DEF CoolPart, Grew

LEMMA StillCool ==
  ASSUME TypeInv, Still, NEW h, NEW a, NEW t \in Nat
  PROVE  /\ CoolPart(run', h, a, t) \in SUBSET CoolPart(run, h, a, t)
         /\ now' <= t + Cooldown => now <= t + Cooldown
<1>1. now \in Nat /\ Cooldown \in Nat /\ now' \in {now, now + 1}
  BY AdmissionAssumption DEF AdmissionAssumption, TypeInv, TypeOK, Still
<1>2. now' <= t + Cooldown => now <= t + Cooldown
  BY <1>1
<1>3. QED
  BY <1>2 DEF CoolPart, Still, KeptAdmitted, RowsRead, ExecutesKept, Admits

LEMMA CoolStep ==
  ASSUME TypeInv, Serial => OneCall', CoolInv, [Next]_vars
  PROVE  CoolInv'
<1> SUFFICES ASSUME Cooldown > 0, NEW h \in Hosts, NEW a \in Acts, NEW t \in Nat
             PROVE  /\ Cardinality(CoolPart(run', h, a, t)) <= Together
                    /\ now' <= t + Cooldown =>
                         Total(CoolPart(run', h, a, t), CoolOperators(op', h, a),
                               CoolSweeps(sw', h, a)) <= Together
  BY DEF CoolInv, Together
<1> DEFINE d  == CoolPart(run, h, a, t)
           b  == CoolPart(run', h, a, t)
           O  == CoolOperators(op, h, a)
           P  == CoolOperators(op', h, a)
           S  == CoolSweeps(sw, h, a)
           T  == CoolSweeps(sw', h, a)
           Goal == /\ Cardinality(b) <= Together
                   /\ now' <= t + Cooldown => Total(b, P, T) <= Together
<1>1. /\ Cardinality(d) <= Together
      /\ now <= t + Cooldown => Total(d, O, S) <= Together
  BY DEF CoolInv
<1>2. /\ IsFiniteSet(d) /\ IsFiniteSet(b) /\ IsFiniteSet(O) /\ IsFiniteSet(P)
      /\ IsFiniteSet(S) /\ IsFiniteSet(T) /\ Together \in Nat
  BY CoolFinite
<1>3. ASSUME b \in SUBSET d, P \in SUBSET O, T \in SUBSET S,
             now' <= t + Cooldown => now <= t + Cooldown
      PROVE  Goal
  <2> HIDE DEF d, b, O, P, S, T
  <2>1. /\ Cardinality(b) \in Nat /\ Cardinality(d) \in Nat /\ Cardinality(b) <= Cardinality(d)
        /\ Total(d, O, S) \in Nat /\ Total(b, P, T) \in Nat /\ Total(b, P, T) <= Total(d, O, S)
    BY <1>2, <1>3, Smaller, Shrinks
  <2>2. QED
    BY <1>1, <1>2, <1>3, <2>1
<1>4. ASSUME now <= t + Cooldown, Total(b, P, T) <= Total(d, O, S), Total(b, P, T) \in Nat
      PROVE  Goal
  <2> HIDE DEF d, b, O, P, S, T
  <2>1. /\ Cardinality(b) \in Nat /\ Cardinality(b) <= Total(b, P, T)
        /\ Total(d, O, S) \in Nat
    BY <1>2, Shrinks
  <2>2. QED
    BY <1>1, <1>2, <1>4, <2>1
<1>5. CASE Still
  <2>1. P = O /\ T = S
    BY <1>5 DEF Still
  <2>2. b \in SUBSET d /\ (now' <= t + Cooldown => now <= t + Cooldown)
    BY <1>5, StillCool
  <2>3. QED
    BY <1>3, <2>1, <2>2
<1>6. ASSUME NEW o \in Operators, OperatorMoves(o) PROVE Goal
  <2>1. /\ run' = run /\ sw' = sw /\ now' = now
        /\ \A p \in Operators \ {o} : op'[p] = op[p]
    BY <1>6, OperatorMovesFacts DEF OpEdited
  <2>2. b = d /\ T = S
    BY <2>1
  <2>3. CASE P \in SUBSET O
    BY <1>3, <2>1, <2>2, <2>3
  <2>4. CASE P \notin SUBSET O
    <3>1. o \in P /\ o \notin O
      BY <2>1, <2>4 DEF CoolOperators
    <3>2. /\ op'[o].pc # "idle" /\ "cooldown" \notin op'[o].left
          /\ op'[o].host = h /\ op'[o].act = a /\ "cooldown" \in Reads
      BY <3>1 DEF CoolOperators, Reads
    <3>3. /\ op[o].pc # "idle" /\ op[o].host = h /\ op[o].act = a
          /\ "cooldown" \notin op[o].left \/ Allows("cooldown", op[o].host, op[o].act)
      BY <1>6, <3>2, OperatorMovesFacts
    <3>4. ~CoolingDown(h, a)
      BY <3>1, <3>3 DEF CoolOperators, Allows
    <3>5. now <= t + Cooldown => Total(b, P, T) <= Together
      BY <2>2, <3>4, CoolPasses
    <3>6. QED
      BY <1>1, <2>1, <2>2, <3>5
  <2>5. QED
    BY <2>3, <2>4
<1>7. ASSUME NEW o \in Operators, Execute(o) PROVE Goal
  <2>1. /\ sw' = sw /\ now' = now /\ (\A p \in Operators \ {o} : op'[p] = op[p])
        /\ op[o].pc = "insert" /\ op'[o].pc = "idle"
        /\ \E r \in Runs : Grew(r, op[o].host, op[o].act)
    BY <1>7, ExecuteFacts, IdleOperatorTyped DEF OpEdited
  <2>2. PICK r \in Runs : Grew(r, op[o].host, op[o].act)
    BY <2>1
  <2>3. T = S /\ P \in SUBSET (O \ {o})
    BY <2>1 DEF CoolOperators
  <2>4. CASE h # op[o].host \/ a # op[o].act \/ ~(now <= t + Cooldown)
    <3>1. b \in SUBSET d
      BY <2>2, <2>4, CoolGrows
    <3>2. QED
      BY <1>3, <2>1, <2>3, <3>1
  <2>5. CASE h = op[o].host /\ a = op[o].act /\ now <= t + Cooldown
    <3>1. o \in O
      BY <2>1, <2>5 DEF CoolOperators, TypeInv, OperatorInv
    <3>2. b \in SUBSET (d \cup {r})
      BY <2>2, CoolGrows
    <3>3. Total(b, P, T) \in Nat /\ Total(b, P, T) <= Total(d, O, S)
      <4> HIDE DEF d, b, O, P, S, T
      <4>1. QED
        BY <1>2, <2>3, <3>1, <3>2, OperatorSlotUsed
    <3>4. QED
      BY <1>4, <2>5, <3>3
  <2>6. QED
    BY <2>4, <2>5
<1>8. ASSUME NEW s \in Sweeps, SweepMoves(s) PROVE Goal
  <2>1. /\ run' = run /\ op' = op /\ now' = now
        /\ \A u \in Sweeps \ {s} : sw'[u] = sw[u]
        /\ sw'[s].pc = "insert" => ~CoolingDown(sw'[s].host, sw'[s].act)
    BY <1>8, SweepMovesFacts DEF SwEdited
  <2>2. b = d /\ P = O
    BY <2>1
  <2>3. CASE T \in SUBSET S
    BY <1>3, <2>1, <2>2, <2>3
  <2>4. CASE T \notin SUBSET S
    <3>1. sw'[s].pc = "insert" /\ sw'[s].host = h /\ sw'[s].act = a
      BY <2>1, <2>4 DEF CoolSweeps
    <3>2. now <= t + Cooldown => Total(b, P, T) <= Together
      BY <2>1, <2>2, <3>1, CoolPasses
    <3>3. QED
      BY <1>1, <2>1, <2>2, <3>2
  <2>5. QED
    BY <2>3, <2>4
<1>9. ASSUME NEW s \in Sweeps, QueueAutonomously(s) PROVE Goal
  <2>1. /\ op' = op /\ now' = now /\ (\A u \in Sweeps \ {s} : sw'[u] = sw[u])
        /\ sw[s].pc = "insert" /\ sw'[s].pc = "next"
        /\ \E r \in Runs : Grew(r, sw[s].host, sw[s].act)
    BY <1>9, QueueFacts DEF SwEdited
  <2>2. PICK r \in Runs : Grew(r, sw[s].host, sw[s].act)
    BY <2>1
  <2>3. P = O /\ T \in SUBSET (S \ {s})
    BY <2>1 DEF CoolSweeps
  <2>4. CASE h # sw[s].host \/ a # sw[s].act \/ ~(now <= t + Cooldown)
    <3>1. b \in SUBSET d
      BY <2>2, <2>4, CoolGrows
    <3>2. QED
      BY <1>3, <2>1, <2>3, <3>1
  <2>5. CASE h = sw[s].host /\ a = sw[s].act /\ now <= t + Cooldown
    <3>1. s \in S
      BY <2>1, <2>5 DEF CoolSweeps
    <3>2. b \in SUBSET (d \cup {r})
      BY <2>2, CoolGrows
    <3>3. Total(b, P, T) \in Nat /\ Total(b, P, T) <= Total(d, O, S)
      <4> HIDE DEF d, b, O, P, S, T
      <4>1. QED
        BY <1>2, <2>3, <3>1, <3>2, SlotUsed
    <3>4. QED
      BY <1>4, <2>5, <3>3
  <2>6. QED
    BY <2>4, <2>5
<1>10. QED
  BY <1>5, <1>6, <1>7, <1>8, <1>9, AdmittedCases

LEMMA CoolInitially == Init => CoolInv
<1> SUFFICES ASSUME Init, NEW h \in Hosts, NEW a \in Acts, NEW t \in Nat
             PROVE  /\ Cardinality(CoolPart(run, h, a, t)) <= Together
                    /\ Total(CoolPart(run, h, a, t), CoolOperators(op, h, a),
                             CoolSweeps(sw, h, a)) <= Together
  BY DEF CoolInv
<1>1. CoolPart(run, h, a, t) = {}
  BY DEF Init, CoolPart, Admits, Counts
<1>2. CoolOperators(op, h, a) = {}
  BY IdleOperatorTyped DEF Init, CoolOperators
<1>3. CoolSweeps(sw, h, a) = {}
  BY IdleSweepTyped DEF Init, CoolSweeps
<1>4. QED
  BY <1>1, <1>2, <1>3, EmptySize, CoolFinite DEF Total

-----------------------------------------------------------------------------
(* The replays                                                              *)

(* The active replays of an action, and the calls that have found it idle.  *)
ReplayPart(table, h, a) ==
  {r \in Runs : /\ Counts(table[r]) /\ table[r].replay /\ table[r].state \in Active
                /\ table[r].host = h /\ table[r].act = a}

ReplaysAhead(calls, table, h, a) ==
  {p \in Replays : /\ calls[p].pc = "create"
                   /\ table[calls[p].source].host = h /\ table[calls[p].source].act = a}

ReplayLedger ==
  \A h \in Hosts, a \in Acts :
    Total(ReplayPart(run, h, a), {}, ReplaysAhead(rp, run, h, a)) <= Cardinality(Replays)

LEMMA ReplaysFinite ==
  ASSUME NEW table, NEW calls, NEW h, NEW a
  PROVE  /\ IsFiniteSet(ReplayPart(table, h, a))
         /\ IsFiniteSet(ReplaysAhead(calls, table, h, a))
         /\ Cardinality(ReplaysAhead(calls, table, h, a)) \in Nat
         /\ Cardinality(ReplaysAhead(calls, table, h, a)) <= Cardinality(Replays)
         /\ Cardinality(Replays) \in Nat
<1>1. /\ ReplayPart(table, h, a) \in SUBSET Runs
      /\ ReplaysAhead(calls, table, h, a) \in SUBSET Replays
  BY DEF ReplayPart, ReplaysAhead
<1>2. QED
  BY <1>1, FiniteIds, Smaller, FS_CardinalityType

(* The source of a call is an execute, so that its host and action stay.    *)
LEMMA SourcesStay ==
  ASSUME TypeInv, RowsRead, NEW p \in Replays, rp[p].pc = "create"
  PROVE  /\ run'[rp[p].source].host = run[rp[p].source].host
         /\ run'[rp[p].source].act = run[rp[p].source].act
BY DEF TypeInv, ReplayInv, RowsRead, ExecutesKept

LEMMA ReplayLedgerStep ==
  ASSUME TypeInv, ReplayLedger, [Next]_vars
  PROVE  ReplayLedger'
<1> SUFFICES ASSUME NEW h \in Hosts, NEW a \in Acts
             PROVE  Total(ReplayPart(run', h, a), {}, ReplaysAhead(rp', run', h, a))
                      <= Cardinality(Replays)
  BY DEF ReplayLedger
<1> DEFINE d == ReplayPart(run, h, a)
           b == ReplayPart(run', h, a)
           S == ReplaysAhead(rp, run, h, a)
           T == ReplaysAhead(rp', run', h, a)
           Goal == Total(b, {}, T) <= Cardinality(Replays)
<1>1. Total(d, {}, S) <= Cardinality(Replays)
  BY DEF ReplayLedger
<1>2. /\ IsFiniteSet(d) /\ IsFiniteSet(b) /\ IsFiniteSet(S) /\ IsFiniteSet(T)
      /\ IsFiniteSet({}) /\ Cardinality(Replays) \in Nat
  BY ReplaysFinite, EmptySize
<1>3. ASSUME b \in SUBSET d, T \in SUBSET S PROVE Goal
  <2> HIDE DEF d, b, S, T
  <2>1. /\ Total(d, {}, S) \in Nat /\ Total(b, {}, T) \in Nat
        /\ Total(b, {}, T) <= Total(d, {}, S)
    BY <1>2, <1>3, Shrinks
  <2>2. QED
    BY <1>1, <1>2, <2>1
<1>4. ASSUME RowsRead, UNCHANGED rp PROVE T \in SUBSET S
  BY <1>4, SourcesStay DEF ReplaysAhead
<1>5. ASSUME Kept PROVE b \in SUBSET d
  BY <1>5 DEF ReplayPart, Kept
<1>6. CASE Quiet /\ UNCHANGED rp
  BY <1>3, <1>4, <1>5, <1>6 DEF Quiet
<1>7. ASSUME NEW r \in Runs, NEW g, NEW e, Grew(r, g, e), RowsRead, UNCHANGED rp PROVE Goal
  <2>1. b \in SUBSET d
    BY <1>7 DEF ReplayPart, Grew
  <2>2. QED
    BY <1>3, <1>4, <1>7, <2>1
<1>8. ASSUME UNCHANGED <<run, rp>> PROVE Goal
  BY <1>3, <1>8
<1>9. ASSUME NEW o \in Operators, OperatorMoves(o) \/ Execute(o) PROVE Goal
  BY <1>7, <1>8, <1>9, OperatorMovesFacts, ExecuteFacts
<1>10. ASSUME NEW s \in Sweeps, SweepMoves(s) \/ QueueAutonomously(s) PROVE Goal
  BY <1>7, <1>8, <1>10, SweepMovesFacts, QueueFacts
<1>11. ASSUME NEW p \in Replays, ReplayMoves(p) PROVE Goal
  <2>1. /\ run' = run /\ \A q \in Replays \ {p} : rp'[q] = rp[q]
        /\ rp'[p].pc = "create" => ~Busy(SourceOf(rp'[p]).host, SourceOf(rp'[p]).act)
    BY <1>11, ReplayMovesFacts DEF RpEdited
  <2>2. CASE T \in SUBSET S
    BY <1>3, <2>1, <2>2
  <2>3. CASE T \notin SUBSET S
    <3>1. p \in T
      BY <2>1, <2>3 DEF ReplaysAhead
    <3>2. ~Busy(h, a)
      BY <2>1, <3>1 DEF ReplaysAhead, SourceOf
    <3>3. b = {}
      BY <2>1, <3>2 DEF ReplayPart, Busy, OfAction, OnHost, Executes, Counts
    <3>4. Cardinality(T) \in Nat /\ Cardinality(T) <= Cardinality(Replays)
      BY ReplaysFinite
    <3> HIDE DEF b, T
    <3>5. QED
      BY <1>2, <3>3, <3>4, EmptySize DEF Total
  <2>4. QED
    BY <2>2, <2>3
<1>12. ASSUME NEW p \in Replays, CreateReplay(p) PROVE Goal
  <2> DEFINE source == rp[p].source
  <2>1. /\ RowsRead /\ (\A q \in Replays \ {p} : rp'[q] = rp[q])
        /\ rp[p].pc = "create" /\ rp'[p].pc = "read"
        /\ \E r \in Runs : Replayed(r, source)
    BY <1>12, CreateFacts DEF RpEdited
  <2>2. PICK r \in Runs : Replayed(r, source)
    BY <2>1
  <2>3. T \in SUBSET (S \ {p})
    BY <2>1, SourcesStay DEF ReplaysAhead
  <2>4. b \in SUBSET (d \cup {r})
    BY <2>1, <2>2 DEF ReplayPart, Replayed, RowsRead, ExecutesKept
  <2>5. CASE run[source].host = h /\ run[source].act = a
    <3>1. p \in S
      BY <2>1, <2>5 DEF ReplaysAhead
    <3> HIDE DEF d, b, S, T
    <3>2. /\ Total(d, {}, S) \in Nat /\ Total(b, {}, T) \in Nat
          /\ Total(b, {}, T) <= Total(d, {}, S)
      BY <1>2, <2>3, <2>4, <3>1, Shrinks, SlotUsed
    <3>3. QED
      BY <1>1, <1>2, <3>2
  <2>6. CASE ~(run[source].host = h /\ run[source].act = a)
    <3>1. r \notin b
      BY <2>2, <2>6 DEF ReplayPart, Replayed
    <3>2. b \in SUBSET d /\ T \in SUBSET S
      BY <2>3, <2>4, <3>1
    <3>3. QED
      BY <1>3, <3>2
  <2>7. QED
    BY <2>5, <2>6
<1>13. QED
  BY <1>6, <1>9, <1>10, <1>11, <1>12, StepCases

LEMMA ReplayLedgerInitially == Init => ReplayLedger
<1> SUFFICES ASSUME Init, NEW h \in Hosts, NEW a \in Acts
             PROVE  Total(ReplayPart(run, h, a), {}, ReplaysAhead(rp, run, h, a))
                      <= Cardinality(Replays)
  BY DEF ReplayLedger
<1>1. ReplayPart(run, h, a) = {}
  BY DEF Init, ReplayPart, Counts
<1>2. ReplaysAhead(rp, run, h, a) = {}
  BY IdleReplayTyped DEF Init, ReplaysAhead
<1>3. QED
  BY <1>1, <1>2, EmptySize, ReplaysFinite DEF Total

-----------------------------------------------------------------------------
(* The limits                                                               *)

(* Calls that admit runs: in any stretch of a cooldown they admit one run   *)
(* of an action where they do not overlap, and never more than there are    *)
(* such calls. What replays add in the meantime is not limited by it.       *)
THEOREM CooldownAlwaysKept == Spec => []CooldownKept
<1>1. Init => TypeInv /\ CoolInv /\ OneCall
  BY TypeInitially, CoolInitially, OneCallInitially
<1>2. TypeInv /\ [Next]_vars => TypeInv'
  BY TypeStep
<1>3. (Serial => OneCall) /\ TypeInv /\ [Next]_vars => (Serial => OneCall')
  BY OneCallStep
<1>4. TypeInv /\ (Serial => OneCall') /\ CoolInv /\ [Next]_vars => CoolInv'
  BY CoolStep
<1>5. CoolInv => CooldownKept
  <2> SUFFICES ASSUME CoolInv, Cooldown > 0, NEW h \in Hosts, NEW a \in Acts, NEW t \in 0..MaxTime
               PROVE  Cardinality({r \in Admitted(h) \cap OfAction(h, a) :
                                     run[r].at \in t..(t + Cooldown)}) <= Together
    BY DEF CooldownKept, Together
  <2>1. {r \in Admitted(h) \cap OfAction(h, a) : run[r].at \in t..(t + Cooldown)}
          = CoolPart(run, h, a, t)
    BY DEF CoolPart, Admitted, OfAction, OnHost, Executes, Admits, Counts
  <2>2. t \in Nat
    BY AdmissionAssumption DEF AdmissionAssumption
  <2>3. QED
    BY <2>1, <2>2 DEF CoolInv
<1> DEFINE IInv == TypeInv /\ (Serial => OneCall) /\ CoolInv
<1>6. Init => IInv
  BY <1>1
<1>7. IInv /\ [Next]_vars => IInv'
  BY <1>2, <1>3, <1>4
<1>8. IInv => CooldownKept
  BY <1>5
<1> HIDE DEF IInv
<1>9. QED
  BY <1>6, <1>7, <1>8, PTL DEF Spec

LEMMA LedgerKept == Spec => []LedgerInv
<1> DEFINE IInv == TypeInv /\ (Serial => OneCall) /\ LedgerInv
<1>1. Init => IInv
  BY TypeInitially, LedgerInitially, OneCallInitially
<1>2. IInv /\ [Next]_vars => IInv'
  <2>1. (Serial => OneCall) /\ TypeInv /\ [Next]_vars => (Serial => OneCall')
    BY OneCallStep
  <2>2. QED
    BY <2>1, TypeStep, LedgerStep
<1>3. IInv => LedgerInv
  OBVIOUS
<1> HIDE DEF IInv
<1>4. QED
  BY <1>1, <1>2, <1>3, PTL DEF Spec

(* No hour, wherever it begins, sees more runs admitted for one host than   *)
(* the policy allows where calls do not overlap, although the autonomous    *)
(* call counts once and inserts several; where they do, the excess is less  *)
(* than one run per execute call and one cycle per autonomous call. Replays *)
(* are counted by the checks but not limited by them.                       *)
THEOREM HourlyRateAlwaysKept == Spec => []HourlyRate
<1>1. LedgerInv => HourlyRate
  <2> SUFFICES ASSUME LedgerInv, NEW h \in Hosts, NEW t \in 0..MaxTime
               PROVE  Cardinality({r \in Admitted(h) : run[r].at \in t..(t + Hour)})
                        <= MaxHour + Slack
    BY DEF HourlyRate
  <2>1. {r \in Admitted(h) : run[r].at \in t..(t + Hour)} = Part(run, "hour", h, t)
    BY DEF Part, Admitted, OnHost, Executes, Admits, Counts
  <2>2. t \in Nat
    BY AdmissionAssumption DEF AdmissionAssumption
  <2>3. Cardinality(Part(run, "hour", h, t)) <= Bound("hour")
    BY <2>2 DEF LedgerInv
  <2>4. QED
    BY <2>1, <2>3, LimitFacts DEF Bound
<1>2. QED
  BY <1>1, LedgerKept, PTL

(* However many calls overlap, and whatever replays and drains do meanwhile,*)
(* the admitted backlog of a host exceeds its limit by less than one run    *)
(* per execute call and one cycle per autonomous call, and not at all where *)
(* calls do not overlap; and of the replays, which no limit holds back,     *)
(* each action has no more active ones than there are calls that replay.    *)
THEOREM OvershootAlwaysBounded == Spec => []OvershootBounded
<1>1. LedgerInv /\ ReplayLedger => OvershootBounded
  <2> SUFFICES ASSUME LedgerInv, ReplayLedger, NEW h \in Hosts
               PROVE  /\ Cardinality(Admitted(h) \cap ActiveOn(h)) <= MaxHost + Slack
                      /\ \A a \in Acts :
                           Cardinality({r \in ActiveOn(h) \cap OfAction(h, a) : run[r].replay})
                             <= Cardinality(Replays)
    BY DEF OvershootBounded
  <2>1. Cardinality(Admitted(h) \cap ActiveOn(h)) <= MaxHost + Slack
    <3>1. Admitted(h) \cap ActiveOn(h) = Part(run, "host", h, 0)
      BY DEF Part, Admitted, ActiveOn, OnHost, Executes, Admits, Counts
    <3>2. Cardinality(Part(run, "host", h, 0)) <= Bound("host")
      BY DEF LedgerInv
    <3>3. QED
      BY <3>1, <3>2, LimitFacts DEF Bound
  <2>2. ASSUME NEW a \in Acts
        PROVE  Cardinality({r \in ActiveOn(h) \cap OfAction(h, a) : run[r].replay})
                 <= Cardinality(Replays)
    <3> DEFINE d == ReplayPart(run, h, a)
               S == ReplaysAhead(rp, run, h, a)
    <3>1. {r \in ActiveOn(h) \cap OfAction(h, a) : run[r].replay} = d
      BY DEF ReplayPart, ActiveOn, OfAction, OnHost, Executes, Counts
    <3>2. /\ IsFiniteSet(d) /\ IsFiniteSet(S) /\ IsFiniteSet({})
          /\ Cardinality(Replays) \in Nat
      BY ReplaysFinite, EmptySize
    <3>3. Total(d, {}, S) <= Cardinality(Replays)
      BY DEF ReplayLedger
    <3> HIDE DEF d, S
    <3>4. /\ Cardinality(d) \in Nat /\ Cardinality(d) <= Total(d, {}, S)
          /\ Total(d, {}, S) \in Nat
      BY <3>2, Shrinks
    <3>5. Cardinality(d) <= Cardinality(Replays)
      BY <3>2, <3>3, <3>4
    <3>6. QED
      BY <3>1, <3>5
  <2>3. QED
    BY <2>1, <2>2
<1>2. Init => TypeInv /\ ReplayLedger
  BY TypeInitially, ReplayLedgerInitially
<1>3. TypeInv /\ ReplayLedger /\ [Next]_vars => TypeInv' /\ ReplayLedger'
  BY TypeStep, ReplayLedgerStep
<1>4. QED
  BY <1>1, <1>2, <1>3, LedgerKept, PTL DEF Spec
=============================================================================
