----------------------- MODULE RemediationQueueProofs -----------------------
(* Theorems about RemediationQueue, for every value of its constants.       *)
EXTENDS RemediationQueue, TLAPS

-----------------------------------------------------------------------------
(* Types of the operators the actions are built from                        *)

LEMMA NoMetaType == NoMeta \in Meta
BY DEF NoMeta, Meta, Reasons, Approvals, Canaries, Rollbacks

LEMMA ParseType == ASSUME NEW m \in Meta PROVE Parse(m) \in Meta
BY DEF Parse, Meta

LEMMA FreshMetaType ==
  ASSUME NEW kind \in Catalog PROVE FreshMeta(kind) \in Meta
<1>1. kind \in [approval : {"none", "pending"}, canary : {"off", "unchecked"},
                rollback : {"off", "armed"}]
  BY QueueAssumption
<1>2. QED
  BY <1>1, NoMetaType DEF FreshMeta, Meta, Approvals, Canaries, Rollbacks

LEMMA IdleTypes ==
  /\ IdleWorker \in WorkerState
  /\ IdleOperator \in OperatorState
  /\ IdleReplayer \in ReplayState
BY NoMetaType DEF IdleWorker, IdleOperator, IdleReplayer, WorkerState,
                  OperatorState, ReplayState, States

LEMMA PrepareWriteType ==
  ASSUME TypeOK, NEW w \in Workers, NEW to \in States, NEW m \in Meta,
         NEW t \in Nat, PrepareWrite(w, to, m, t)
  PROVE  wk' \in [Workers -> WorkerState]
<1>1. wk[w] \in WorkerState
  BY DEF TypeOK
<1>2. [wk[w] EXCEPT !.pc = "write", !.to = to, !.meta = m, !.at = t] \in WorkerState
  BY <1>1 DEF WorkerState, Holding
<1>3. QED
  BY <1>2 DEF TypeOK, PrepareWrite

LEMMA SucceedType ==
  ASSUME TypeOK, NEW w \in Workers, NEW m \in Meta, Succeed(w, m)
  PROVE  wk' \in [Workers -> WorkerState]
<1>1. [m EXCEPT !.next = 0, !.dlq = FALSE, !.reason = "none"] \in Meta
  BY DEF Meta, Reasons
<1>2. wk[w].at \in Nat
  BY DEF TypeOK, WorkerState
<1>3. QED
  BY <1>1, <1>2, PrepareWriteType DEF Succeed, States

LEMMA RetryOrDlqType ==
  ASSUME TypeOK, NEW w \in Workers, NEW m \in Meta, m.attempts > 0,
         RetryOrDlq(w, m)
  PROVE  wk' \in [Workers -> WorkerState]
<1>1. wk[w].at \in Nat
  BY DEF TypeOK, WorkerState
<1>2. CASE ~ForceDlq(m) /\ shouldRetryAttempt(m)
  <2>1. m.attempts \in 1..MaxAttempts
    BY <1>2, QueueAssumption DEF shouldRetryAttempt, Meta
  <2>2. wk[w].at + Backoff[m.attempts] \in Nat
    <3>1. Backoff \in [1..MaxAttempts -> Nat \ {0}]
      BY QueueAssumption
    <3>2. Backoff[m.attempts] \in Nat
      BY <2>1, <3>1
    <3>3. QED
      BY <1>1, <3>2
  <2>3. [m EXCEPT !.next = wk[w].at + Backoff[m.attempts],
                  !.dlq = FALSE, !.reason = "none"] \in Meta
    BY <2>2 DEF Meta, Reasons
  <2>4. QED
    BY <1>1, <1>2, <2>3, PrepareWriteType DEF RetryOrDlq, States
<1>3. CASE ~(~ForceDlq(m) /\ shouldRetryAttempt(m))
  <2>1. DlqReason(m) \in Reasons
    BY DEF DlqReason, Reasons
  <2>2. [m EXCEPT !.next = 0, !.dlq = TRUE, !.reason = DlqReason(m)] \in Meta
    BY <2>1 DEF Meta
  <2>3. QED
    BY <1>1, <1>3, <2>2, PrepareWriteType DEF RetryOrDlq, States
<1>4. QED
  BY <1>2, <1>3

LEMMA AfterFailureType ==
  ASSUME TypeOK, NEW w \in Workers, NEW m \in Meta, m.attempts > 0,
         AfterFailure(w, m)
  PROVE  wk' \in [Workers -> WorkerState]
<1>1. CASE m.rollback = "armed"
  <2>1. [wk[w] EXCEPT !.pc = "rollback", !.meta = m] \in WorkerState
    BY DEF TypeOK, WorkerState, Holding, Executing
  <2>2. QED
    BY <1>1, <2>1 DEF AfterFailure, TypeOK
<1>2. CASE m.rollback # "armed"
  BY <1>2, RetryOrDlqType DEF AfterFailure
<1>3. QED
  BY <1>1, <1>2

LEMMA NextItemType ==
  ASSUME TypeOK, NEW p \in Replayers, NEW s, NextItem(p, s)
  PROVE  rp' \in [Replayers -> ReplayState]
BY IdleTypes DEF NextItem, TypeOK, ReplayState, IdleReplayer

-----------------------------------------------------------------------------
(* Every action preserves the types                                         *)

LEMMA EnqueueType ==
  ASSUME TypeOK, NEW r \in Runs, NEW t \in Targets, NEW kind \in Catalog,
         Enqueue(r, t, kind)
  PROVE  TypeOK'
<1>1. [state |-> "queued", target |-> t, requestedAt |-> now,
       meta |-> FreshMeta(kind)] \in Row
  BY FreshMetaType DEF TypeOK, Row, States
<1>2. QED
  BY <1>1 DEF Enqueue, TypeOK, hist

LEMMA ClaimStepsType ==
  ASSUME TypeOK, NEW w \in Workers, Scan(w) \/ Claim(w) \/ LoseClaim(w)
  PROVE  TypeOK'
<1> DEFINE v == wk[w]
<1>1. v \in WorkerState
  BY DEF TypeOK
<1>2. CASE Scan(w)
  <2>1. ASSUME NEW r \in Runs, NEW at \in Nat
        PROVE  [v EXCEPT !.pc = "claim", !.run = r, !.at = at] \in WorkerState
    BY <1>1 DEF WorkerState
  <2>2. (IF v.pc = "idle" THEN now ELSE v.at) \in Nat
    BY <1>1 DEF TypeOK, WorkerState
  <2>3. ASSUME NEW W \in Oldest(Window, InState({"queued"})), NEW S \in SUBSET W,
               NEW r \in FirstOf(S)
        PROVE  r \in Runs
    <3>1. InState({"queued"}) \subseteq Runs
      BY DEF InState
    <3>2. W \in SUBSET InState({"queued"})
      BY DEF Oldest, kSubset
    <3>3. QED
      BY <3>1, <3>2 DEF FirstOf
  <2>4. wk' \in [Workers -> WorkerState]
    <3>1. PICK W \in Oldest(Window, InState({"queued"})) :
             LET at == IF v.pc = "idle" THEN now ELSE v.at
                 ready == {r \in W : Claimable(r, at)}
             IN \/ ready = {} /\ wk' = [wk EXCEPT ![w] = IdleWorker]
                \/ \E r \in FirstOf(ready) :
                     wk' = [wk EXCEPT ![w] =
                              [@ EXCEPT !.pc = "claim", !.run = r, !.at = at]]
      BY <1>2 DEF Scan
    <3> DEFINE at == IF v.pc = "idle" THEN now ELSE v.at
               ready == {r \in W : Claimable(r, at)}
    <3>2. CASE wk' = [wk EXCEPT ![w] = IdleWorker]
      BY <3>2, IdleTypes DEF TypeOK
    <3>3. ASSUME NEW r \in FirstOf(ready),
                 wk' = [wk EXCEPT ![w] =
                          [@ EXCEPT !.pc = "claim", !.run = r, !.at = at]]
          PROVE  wk' \in [Workers -> WorkerState]
      <4>1. r \in Runs
        BY <2>3
      <4>2. [v EXCEPT !.pc = "claim", !.run = r, !.at = at] \in WorkerState
        BY <2>1, <2>2, <4>1
      <4>3. QED
        BY <3>3, <4>2 DEF TypeOK
    <3>4. QED
      BY <3>1, <3>2, <3>3
  <2>5. QED
    BY <1>2, <2>4 DEF Scan, TypeOK, hist
<1>3. CASE Claim(w)
  <2>1. [v EXCEPT !.pc = "load"] \in WorkerState
    BY <1>1 DEF WorkerState, Holding
  <2>2. ASSUME NEW r \in Runs PROVE [run[r] EXCEPT !.state = "running"] \in Row
    BY DEF TypeOK, Row, States
  <2>3. run' \in [Runs -> Row]
    BY <1>3, <2>2 DEF Claim, TypeOK
  <2>4. wk' \in [Workers -> WorkerState]
    BY <1>3, <2>1 DEF Claim, TypeOK
  <2>5. QED
    BY <1>3, <2>3, <2>4 DEF Claim, TypeOK, hist
<1>4. CASE LoseClaim(w)
  <2>1. [v EXCEPT !.pc = "scan", !.run = None, !.round = @ + 1] \in WorkerState
    <3>1. v.round + 1 \in Nat
      BY <1>1 DEF WorkerState
    <3>2. QED
      BY <1>1, <3>1 DEF WorkerState
  <2>2. wk' \in [Workers -> WorkerState]
    BY <1>4, <2>1, IdleTypes DEF LoseClaim, TypeOK
  <2>3. QED
    BY <1>4, <2>2 DEF LoseClaim, TypeOK, hist
<1>5. QED
  BY <1>2, <1>3, <1>4

LEMMA LoadType ==
  ASSUME TypeOK, NEW w \in Workers, Load(w), wk[w].run \in Runs
  PROVE  TypeOK'
<1> DEFINE r == wk[w].run
           m == Parse(run[r].meta)
<1>1. m \in Meta /\ now \in Nat
  BY ParseType DEF TypeOK, Row
<1>2. [m EXCEPT !.dlq = TRUE, !.reason = "policy_blocked", !.next = 0] \in Meta
  BY <1>1 DEF Meta, Reasons
<1>3. ASSUME NEW to \in {"canceled", "failed", "queued"}, NEW x \in Meta,
             PrepareWrite(w, to, x, now)
      PROVE  wk' \in [Workers -> WorkerState]
  BY <1>1, <1>3, PrepareWriteType DEF States
<1>4. ASSUME wk' = [wk EXCEPT ![w] =
                      [@ EXCEPT !.pc = "commands", !.meta = m, !.at = now]]
      PROVE  wk' \in [Workers -> WorkerState]
  <2>1. [wk[w] EXCEPT !.pc = "commands", !.meta = m, !.at = now] \in WorkerState
    BY <1>1 DEF TypeOK, WorkerState, Holding, Executing
  <2>2. QED
    BY <1>4, <2>1 DEF TypeOK
<1>5. wk' \in [Workers -> WorkerState]
  BY <1>1, <1>2, <1>3, <1>4 DEF Load
<1>6. /\ starts' \in [Runs -> Nat] /\ lastStart' \in [Runs -> Nat]
      /\ undone' = undone /\ root' = root /\ granted' = granted
  BY DEF Load, TypeOK, hist
<1>7. QED
  BY <1>5, <1>6 DEF Load, TypeOK

LEMMA CountAttemptType ==
  ASSUME NEW m \in Meta
  PROVE  /\ [m EXCEPT !.attempts = @ + 1] \in Meta
         /\ [m EXCEPT !.attempts = @ + 1].attempts > 0
BY DEF Meta

LEMMA RunStepsType ==
  ASSUME TypeOK, NEW w \in Workers, wk[w].run \in Runs,
         wk[w].pc \in {"canary", "rollback"} => wk[w].meta.attempts > 0,
         RunCommands(w) \/ RunCanary(w) \/ RunRollback(w)
  PROVE  TypeOK'
<1>1. wk[w] \in WorkerState /\ wk[w].meta \in Meta
  BY DEF TypeOK, WorkerState
<1>2. CASE RunCommands(w)
  <2> DEFINE m == [wk[w].meta EXCEPT !.attempts = @ + 1]
  <2>1. m \in Meta /\ m.attempts > 0
    BY <1>1, CountAttemptType
  <2>2. [wk[w] EXCEPT !.pc = "canary", !.meta = m] \in WorkerState
    BY <1>1, <2>1 DEF WorkerState, Holding, Executing
  <2>3. wk' \in [Workers -> WorkerState]
    <3>1. CASE Succeed(w, m)
      BY <2>1, <3>1, SucceedType
    <3>2. CASE wk' = [wk EXCEPT ![w] = [@ EXCEPT !.pc = "canary", !.meta = m]]
      BY <2>2, <3>2 DEF TypeOK
    <3>3. CASE AfterFailure(w, m)
      BY <2>1, <3>3, AfterFailureType
    <3>4. QED
      BY <1>2, <3>1, <3>2, <3>3 DEF RunCommands
  <2>4. QED
    BY <1>2, <2>3 DEF RunCommands, TypeOK, hist
<1>3. CASE RunCanary(w)
  <2> DEFINE good == [wk[w].meta EXCEPT !.canary = "passed"]
             bad == [wk[w].meta EXCEPT !.canary = "failed"]
  <2>1. good \in Meta /\ bad \in Meta /\ bad.attempts > 0
    BY <1>1, <1>3 DEF RunCanary, Meta, Canaries
  <2>2. wk' \in [Workers -> WorkerState]
    BY <1>3, <2>1, SucceedType, AfterFailureType DEF RunCanary
  <2>3. QED
    BY <1>3, <2>2 DEF RunCanary, TypeOK, hist
<1>4. CASE RunRollback(w)
  <2>1. ASSUME NEW result \in {"succeeded", "failed"}
        PROVE  /\ [wk[w].meta EXCEPT !.rollback = result] \in Meta
               /\ [wk[w].meta EXCEPT !.rollback = result].attempts > 0
    BY <1>1, <1>4 DEF RunRollback, Meta, Rollbacks
  <2>2. wk' \in [Workers -> WorkerState]
    BY <1>4, <2>1, RetryOrDlqType DEF RunRollback
  <2>3. undone' \in [Runs -> Nat]
    BY <1>4 DEF RunRollback, TypeOK
  <2>4. QED
    BY <1>4, <2>2, <2>3 DEF RunRollback, TypeOK
<1>5. QED
  BY <1>2, <1>3, <1>4

LEMMA WriteBackType ==
  ASSUME TypeOK, NEW w \in Workers, WriteBack(w) \/ Crash(w)
  PROVE  TypeOK'
<1>1. wk' \in [Workers -> WorkerState]
  BY IdleTypes DEF WriteBack, Crash, TypeOK
<1>2. run' \in [Runs -> Row]
  <2>1. wk[w].to \in States /\ wk[w].meta \in Meta
    BY DEF TypeOK, WorkerState
  <2>2. ASSUME NEW r \in Runs
        PROVE  [run[r] EXCEPT !.state = wk[w].to, !.meta = wk[w].meta] \in Row
    BY <2>1 DEF TypeOK, Row
  <2>3. CASE WriteBack(w)
    BY <2>2, <2>3 DEF WriteBack, TypeOK
  <2>4. CASE Crash(w)
    BY <2>4 DEF Crash, TypeOK
  <2>5. QED
    BY <2>3, <2>4
<1>3. QED
  BY <1>1, <1>2 DEF WriteBack, Crash, TypeOK, hist

LEMMA OperatorStepType ==
  ASSUME TypeOK, NEW o \in Operators, OperatorStep(o),
         op[o].pc = "decide" => op[o].run \in Runs
  PROVE  TypeOK'
<1>1. CASE Review(o)
  <2>1. ASSUME NEW r \in Runs
        PROVE  [pc |-> "decide", run |-> r, meta |-> Parse(run[r].meta)] \in OperatorState
    BY ParseType DEF TypeOK, Row, OperatorState
  <2>2. op' \in [Operators -> OperatorState]
    BY <1>1, <2>1 DEF Review, Reviewable, InState, TypeOK
  <2>3. QED
    BY <1>1, <2>2 DEF Review, TypeOK, hist
<1>2. CASE Approve(o) \/ Reject(o)
  <2>1. Approved(op[o].meta) \in Meta /\ Rejected(op[o].meta) \in Meta
    <3>1. op[o].meta \in Meta
      BY DEF TypeOK, OperatorState
    <3>2. QED
      BY <3>1 DEF Meta, Approved, Rejected, Approvals
  <2>2. ASSUME NEW r \in Runs
        PROVE  /\ [run[r] EXCEPT !.state = "queued",
                                 !.meta = Approved(op[o].meta)] \in Row
               /\ [run[r] EXCEPT !.state = "canceled",
                                 !.meta = Rejected(op[o].meta)] \in Row
    BY <2>1 DEF TypeOK, Row, States
  <2>3. run' \in [Runs -> Row]
    <3>1. CASE Approve(o)
      BY <2>2, <3>1 DEF Approve, TypeOK
    <3>2. CASE Reject(o)
      BY <2>2, <3>2 DEF Reject, TypeOK
    <3>3. QED
      BY <1>2, <3>1, <3>2
  <2>4. op' \in [Operators -> OperatorState]
    BY <1>2, IdleTypes DEF Approve, Reject, TypeOK
  <2>5. granted' \subseteq Runs
    BY <1>2 DEF Approve, Reject, TypeOK, hist
  <2>6. QED
    BY <1>2, <2>3, <2>4, <2>5 DEF Approve, Reject, TypeOK, hist
<1>3. QED
  BY <1>1, <1>2 DEF OperatorStep

LEMMA ReplayStepType ==
  ASSUME TypeOK, NEW p \in Replayers, ReplayStep(p),
         rp[p].pc \in {"count", "create"} => rp[p].src \in Runs
  PROVE  TypeOK'
<1>1. rp[p] \in ReplayState
  BY DEF TypeOK
<1>2. CASE RequestReplay(p)
  <2>1. ASSUME NEW todo \in {{r} : r \in InState(Active \cup Terminal)}
                            \cup Oldest(BatchLimit, DeadLetters)
        PROVE  [rp[p] EXCEPT !.pc = "read", !.todo = todo] \in ReplayState
    <3>1. todo \subseteq Runs
      BY DEF InState, DeadLetters, Oldest, kSubset
    <3>2. QED
      BY <1>1, <3>1 DEF ReplayState
  <2>2. rp' \in [Replayers -> ReplayState]
    BY <1>2, <2>1 DEF RequestReplay, TypeOK
  <2>3. QED
    BY <1>2, <2>2 DEF RequestReplay, TypeOK, hist
<1>3. CASE ReadSource(p)
  <2>1. ASSUME NEW s \in FirstOf(rp[p].todo)
        PROVE  [rp[p] EXCEPT !.pc = "count", !.src = s, !.state = run[s].state,
                             !.meta = Parse(run[s].meta)] \in ReplayState
    <3>1. s \in Runs
      BY <1>1 DEF FirstOf, ReplayState
    <3>2. run[s].state \in States /\ Parse(run[s].meta) \in Meta
      BY <3>1, ParseType DEF TypeOK, Row
    <3>3. QED
      BY <1>1, <3>1, <3>2 DEF ReplayState
  <2>2. rp' \in [Replayers -> ReplayState]
    BY <1>3, <2>1, NextItemType DEF ReadSource, TypeOK
  <2>3. QED
    BY <1>3, <2>2 DEF ReadSource, TypeOK, hist
<1>4. CASE CountActive(p)
  <2>1. [rp[p] EXCEPT !.pc = "create"] \in ReplayState
    BY <1>1 DEF ReplayState
  <2>2. rp' \in [Replayers -> ReplayState]
    BY <1>4, <2>1, NextItemType DEF CountActive, TypeOK
  <2>3. QED
    BY <1>4, <2>2 DEF CountActive, TypeOK, hist
<1>5. CASE CreateReplay(p)
  <2> DEFINE s == rp[p].src
             m == rp[p].meta
             copy == [state |-> "queued", target |-> run[s].target,
                      requestedAt |-> now, meta |-> ReplayMeta(m, s)]
  <2>1. s \in Runs /\ m \in Meta
    BY <1>1, <1>5 DEF CreateReplay, ReplayState
  <2>2. copy \in Row
    <3>1. ReplayMeta(m, s) \in Meta
      BY <2>1 DEF ReplayMeta, Meta, Reasons
    <3>2. QED
      BY <2>1, <3>1 DEF TypeOK, Row, States
  <2>3. RetireSource(s, m) \in Row
    <3>1. [m EXCEPT !.dlq = FALSE, !.reason = "replayed", !.next = 0] \in Meta
      BY <2>1 DEF Meta, Reasons
    <3>2. QED
      BY <2>1, <3>1 DEF RetireSource, TypeOK, Row, States
  <2>4. run' \in [Runs -> Row] /\ root' \in [Runs -> Runs]
    BY <1>5, <2>1, <2>2, <2>3 DEF CreateReplay, InState, TypeOK
  <2>5. rp' \in [Replayers -> ReplayState]
    BY <1>5, NextItemType DEF CreateReplay
  <2>6. QED
    BY <1>5, <2>4, <2>5 DEF CreateReplay, TypeOK
<1>6. QED
  BY <1>2, <1>3, <1>4, <1>5 DEF ReplayStep
-----------------------------------------------------------------------------
(* What a worker that has claimed a run does before it writes the result    *)

LEMMA PrepareWriteShape ==
  ASSUME TypeOK, NEW w \in Workers, NEW to, NEW m, NEW t, PrepareWrite(w, to, m, t)
  PROVE  /\ wk'[w].pc = "write" /\ wk'[w].run = wk[w].run
         /\ wk'[w].to = to /\ wk'[w].meta = m
         /\ \A v \in Workers \ {w} : wk'[v] = wk[v]
BY DEF PrepareWrite, TypeOK, WorkerState

(* An executed attempt, successful or not, keeps the approval of the payload*)
(* it was started with, and ends in a phase the worker goes on from.        *)
Continues(w, m) ==
  /\ wk'[w].pc \in {"canary", "rollback", "write"}
  /\ wk'[w].run = wk[w].run
  /\ wk'[w].pc = "write" => wk'[w].to \in {"queued"} \cup Terminal
  /\ wk'[w].pc # "write" => wk'[w].meta.attempts > 0
  /\ wk'[w].meta.approval = m.approval
  /\ \A v \in Workers \ {w} : wk'[v] = wk[v]

LEMMA SucceedShape ==
  ASSUME TypeOK, NEW w \in Workers, NEW m \in Meta, Succeed(w, m)
  PROVE  Continues(w, m)
<1> DEFINE x == [m EXCEPT !.next = 0, !.dlq = FALSE, !.reason = "none"]
<1>1. x.approval = m.approval
  BY DEF Meta
<1>2. PrepareWrite(w, "succeeded", x, wk[w].at)
  BY DEF Succeed
<1> HIDE DEF x
<1>3. QED
  BY <1>1, <1>2, PrepareWriteShape DEF Continues, Terminal

LEMMA RetryOrDlqShape ==
  ASSUME TypeOK, NEW w \in Workers, NEW m \in Meta, RetryOrDlq(w, m)
  PROVE  Continues(w, m)
<1> DEFINE x == [m EXCEPT !.next = wk[w].at + Backoff[m.attempts],
                          !.dlq = FALSE, !.reason = "none"]
           y == [m EXCEPT !.next = 0, !.dlq = TRUE, !.reason = DlqReason(m)]
<1>1. x.approval = m.approval /\ y.approval = m.approval
  BY DEF Meta
<1>2. \/ PrepareWrite(w, "queued", x, wk[w].at)
      \/ PrepareWrite(w, "failed", y, wk[w].at)
  BY DEF RetryOrDlq
<1> HIDE DEF x, y
<1>3. QED
  BY <1>1, <1>2, PrepareWriteShape DEF Continues, Terminal

LEMMA AfterFailureShape ==
  ASSUME TypeOK, NEW w \in Workers, NEW m \in Meta, m.attempts > 0,
         AfterFailure(w, m)
  PROVE  Continues(w, m)
<1>1. CASE m.rollback = "armed"
  <2>1. wk' = [wk EXCEPT ![w] = [@ EXCEPT !.pc = "rollback", !.meta = m]]
    BY <1>1 DEF AfterFailure
  <2>2. QED
    BY <2>1 DEF Continues, TypeOK, WorkerState
<1>2. CASE m.rollback # "armed"
  BY <1>2, RetryOrDlqShape DEF AfterFailure
<1>3. QED
  BY <1>1, <1>2

LEMMA RunStepsShape ==
  ASSUME TypeOK, NEW w \in Workers,
         wk[w].pc \in {"canary", "rollback"} => wk[w].meta.attempts > 0,
         RunCommands(w) \/ RunCanary(w) \/ RunRollback(w)
  PROVE  Continues(w, wk[w].meta)
<1>1. wk[w] \in WorkerState /\ wk[w].meta \in Meta
  BY DEF TypeOK, WorkerState
<1>2. CASE RunCommands(w)
  <2> DEFINE m == [wk[w].meta EXCEPT !.attempts = @ + 1]
  <2>1. m \in Meta /\ m.attempts > 0
    BY <1>1, CountAttemptType
  <2>2. m.approval = wk[w].meta.approval
    BY <1>1 DEF Meta
  <2>3. Continues(w, m)
    <3>1. CASE Succeed(w, m)
      BY <2>1, <3>1, SucceedShape
    <3>2. CASE wk' = [wk EXCEPT ![w] = [@ EXCEPT !.pc = "canary", !.meta = m]]
      <4> HIDE DEF m
      <4>1. QED
        BY <1>1, <2>1, <3>2 DEF Continues, TypeOK, WorkerState
    <3>3. CASE AfterFailure(w, m)
      BY <2>1, <3>3, AfterFailureShape
    <3>4. QED
      BY <1>2, <3>1, <3>2, <3>3 DEF RunCommands
  <2> HIDE DEF m
  <2>4. QED
    BY <2>2, <2>3 DEF Continues
<1>3. CASE RunCanary(w)
  <2> DEFINE good == [wk[w].meta EXCEPT !.canary = "passed"]
             bad == [wk[w].meta EXCEPT !.canary = "failed"]
  <2>1. good \in Meta /\ bad \in Meta /\ bad.attempts > 0
    BY <1>1, <1>3 DEF RunCanary, Meta, Canaries
  <2>2. good.approval = wk[w].meta.approval /\ bad.approval = wk[w].meta.approval
    BY <1>1 DEF Meta
  <2>3. Continues(w, good) \/ Continues(w, bad)
    BY <1>3, <2>1, SucceedShape, AfterFailureShape DEF RunCanary
  <2> HIDE DEF good, bad
  <2>4. QED
    BY <2>2, <2>3 DEF Continues
<1>4. CASE RunRollback(w)
  <2>1. PICK result \in {"succeeded", "failed"} :
          RetryOrDlq(w, [wk[w].meta EXCEPT !.rollback = result])
    BY <1>4 DEF RunRollback
  <2> DEFINE m == [wk[w].meta EXCEPT !.rollback = result]
  <2>2. m \in Meta /\ m.approval = wk[w].meta.approval
    BY <1>1, <2>1 DEF Meta, Rollbacks
  <2>3. Continues(w, m)
    BY <2>1, <2>2, RetryOrDlqShape
  <2> HIDE DEF m
  <2>4. QED
    BY <2>2, <2>3 DEF Continues
<1>5. QED
  BY <1>2, <1>3, <1>4

LEMMA LoadShape ==
  ASSUME TypeOK, NEW w \in Workers, wk[w].run \in Runs, Load(w)
  PROVE  /\ wk'[w].pc \in {"commands", "write"}
         /\ wk'[w].run = wk[w].run
         /\ wk'[w].pc = "write" => wk'[w].to \in {"queued"} \cup Terminal
         /\ wk'[w].meta.approval = run[wk[w].run].meta.approval
         /\ \A v \in Workers \ {w} : wk'[v] = wk[v]
<1> DEFINE r == wk[w].run
           m == Parse(run[r].meta)
           b == [m EXCEPT !.dlq = TRUE, !.reason = "policy_blocked", !.next = 0]
<1>1. m \in Meta /\ run[r].meta \in Meta
  BY ParseType DEF TypeOK, Row
<1>2. m.approval = run[r].meta.approval /\ b.approval = run[r].meta.approval
  BY <1>1 DEF Parse, Meta
<1>3. \/ \E to \in {"canceled", "failed", "queued"} :
             PrepareWrite(w, to, m, now) \/ PrepareWrite(w, to, b, now)
      \/ wk' = [wk EXCEPT ![w] = [@ EXCEPT !.pc = "commands", !.meta = m, !.at = now]]
  BY DEF Load
<1> HIDE DEF m, b
<1>4. CASE \E to \in {"canceled", "failed", "queued"} :
             PrepareWrite(w, to, m, now) \/ PrepareWrite(w, to, b, now)
  BY <1>2, <1>4, PrepareWriteShape DEF Terminal
<1>5. CASE wk' = [wk EXCEPT ![w] = [@ EXCEPT !.pc = "commands", !.meta = m, !.at = now]]
  BY <1>2, <1>5 DEF TypeOK, WorkerState
<1>6. QED
  BY <1>3, <1>4, <1>5
-----------------------------------------------------------------------------
(* Type correctness                                                         *)

(* What a process remembers when it is in the middle of a call.             *)
WorkerKnows(w) ==
  wk[w].pc \notin {"idle", "scan"} =>
    /\ wk[w].run \in Runs
    /\ wk[w].pc \in {"canary", "rollback"} => wk[w].meta.attempts > 0
    /\ wk[w].pc = "write" => wk[w].to \in {"queued"} \cup Terminal

CallsOK ==
  /\ \A w \in Workers : WorkerKnows(w)
  /\ \A o \in Operators : op[o].pc = "decide" => op[o].run \in Runs
  /\ \A p \in Replayers : rp[p].pc \in {"count", "create"} => rp[p].src \in Runs

TypeInv == TypeOK /\ CallsOK

LEMMA InitType == Init => TypeInv
<1> SUFFICES ASSUME Init PROVE TypeInv
  OBVIOUS
<1>1. ASSUME NEW r \in Runs PROVE run[r] \in Row
  BY NoMetaType, QueueAssumption DEF Init, Row, States
<1>2. run \in [Runs -> Row]
  BY <1>1 DEF Init
<1>3. TypeOK
  BY <1>2, IdleTypes DEF Init, TypeOK
<1>4. CallsOK
  BY DEF Init, CallsOK, WorkerKnows, IdleWorker, IdleOperator, IdleReplayer
<1>5. QED
  BY <1>3, <1>4 DEF TypeInv

(* A round of the claim moves only its own worker, to a candidate or away.  *)
LEMMA ScanShape ==
  ASSUME TypeOK, NEW w \in Workers, Scan(w)
  PROVE  /\ \A v \in Workers \ {w} : wk'[v] = wk[v]
         /\ \/ wk'[w] = IdleWorker
            \/ /\ wk'[w].pc = "claim" /\ wk'[w].run \in InState({"queued"})
               /\ \E t \in Nat : Claimable(wk'[w].run, t)
<1> DEFINE at == IF wk[w].pc = "idle" THEN now ELSE wk[w].at
<1>1. wk[w] \in WorkerState /\ at \in Nat
  BY DEF TypeOK, WorkerState
<1>2. PICK W \in Oldest(Window, InState({"queued"})) :
         \/ wk' = [wk EXCEPT ![w] = IdleWorker]
         \/ \E r \in FirstOf({r \in W : Claimable(r, at)}) :
               wk' = [wk EXCEPT ![w] = [@ EXCEPT !.pc = "claim", !.run = r, !.at = at]]
  BY DEF Scan
<1>3. W \subseteq InState({"queued"})
  BY DEF Oldest, kSubset
<1>4. CASE wk' = [wk EXCEPT ![w] = IdleWorker]
  BY <1>4 DEF TypeOK
<1>5. ASSUME NEW r \in FirstOf({r \in W : Claimable(r, at)}),
             wk' = [wk EXCEPT ![w] = [@ EXCEPT !.pc = "claim", !.run = r, !.at = at]]
      PROVE  /\ \A v \in Workers \ {w} : wk'[v] = wk[v]
             /\ wk'[w].pc = "claim" /\ wk'[w].run \in InState({"queued"})
             /\ \E t \in Nat : Claimable(wk'[w].run, t)
  <2>1. r \in InState({"queued"}) /\ Claimable(r, at)
    BY <1>3 DEF FirstOf
  <2>2. wk'[w].pc = "claim" /\ wk'[w].run = r /\ \A v \in Workers \ {w} : wk'[v] = wk[v]
    BY <1>1, <1>5 DEF TypeOK, WorkerState
  <2>3. QED
    BY <1>1, <2>1, <2>2
<1>6. QED
  BY <1>2, <1>4, <1>5

LEMMA WorkerStepCalls ==
  ASSUME TypeInv, NEW w \in Workers, WorkerStep(w) \/ Crash(w)
  PROVE  CallsOK'
<1> USE DEF TypeInv
<1>1. TypeOK /\ wk[w] \in WorkerState
  BY DEF TypeOK
<1>2. UNCHANGED <<op, rp>>
  BY DEF WorkerStep, Scan, Claim, LoseClaim, Load, RunCommands, RunCanary,
         RunRollback, WriteBack, Crash
<1>3. WorkerKnows(w)' /\ \A v \in Workers \ {w} : wk'[v] = wk[v]
  <2>1. CASE Scan(w)
    BY <1>1, <2>1, ScanShape DEF WorkerKnows, IdleWorker, InState
  <2>2. CASE Claim(w)
    BY <1>1, <2>2 DEF Claim, CallsOK, WorkerKnows, TypeOK, WorkerState
  <2>3. CASE LoseClaim(w)
    BY <1>1, <2>3 DEF LoseClaim, WorkerKnows, IdleWorker, TypeOK, WorkerState
  <2>4. CASE Load(w)
    <3>1. wk[w].run \in Runs
      BY <2>4 DEF Load, CallsOK, WorkerKnows
    <3>2. QED
      BY <1>1, <2>4, <3>1, LoadShape DEF WorkerKnows
  <2>5. CASE RunCommands(w) \/ RunCanary(w) \/ RunRollback(w)
    <3>1. /\ wk[w].run \in Runs
          /\ wk[w].pc \in {"canary", "rollback"} => wk[w].meta.attempts > 0
      BY <2>5 DEF RunCommands, RunCanary, RunRollback, CallsOK, WorkerKnows
    <3>2. Continues(w, wk[w].meta)
      BY <1>1, <2>5, <3>1, RunStepsShape
    <3>3. QED
      BY <3>1, <3>2 DEF Continues, WorkerKnows
  <2>6. CASE WriteBack(w) \/ Crash(w)
    BY <1>1, <2>6 DEF WriteBack, Crash, WorkerKnows, IdleWorker, TypeOK
  <2>7. QED
    BY <2>1, <2>2, <2>3, <2>4, <2>5, <2>6 DEF WorkerStep
<1>4. QED
  BY <1>2, <1>3 DEF CallsOK, WorkerKnows

LEMMA OtherStepCalls ==
  ASSUME TypeInv,
         \/ \E r \in Runs, t \in Targets, kind \in Catalog : Enqueue(r, t, kind)
         \/ \E o \in Operators : OperatorStep(o)
         \/ \E p \in Replayers : ReplayStep(p)
         \/ Tick
  PROVE  CallsOK'
<1> USE DEF TypeInv
<1>1. UNCHANGED wk
  BY DEF Enqueue, OperatorStep, Review, Approve, Reject, ReplayStep,
         RequestReplay, ReadSource, CountActive, CreateReplay, Tick
<1>2. ASSUME NEW o \in Operators, op'[o].pc = "decide"
      PROVE  op'[o].run \in Runs
  <2>1. CASE \E q \in Operators : Review(q)
    BY <1>2, <2>1 DEF Review, Reviewable, InState, CallsOK, TypeOK
  <2>2. CASE \E q \in Operators : Approve(q) \/ Reject(q)
    BY <1>2, <2>2 DEF Approve, Reject, IdleOperator, CallsOK, TypeOK
  <2>3. CASE UNCHANGED op
    BY <1>2, <2>3 DEF CallsOK
  <2>4. QED
    BY <2>1, <2>2, <2>3 DEF Enqueue, OperatorStep, ReplayStep, RequestReplay,
       ReadSource, CountActive, CreateReplay, Tick
<1>3. ASSUME NEW p \in Replayers, rp'[p].pc \in {"count", "create"}
      PROVE  rp'[p].src \in Runs
  <2>1. ASSUME NEW q \in Replayers, NEW s, NextItem(q, s)
        PROVE  rp'[p].src \in Runs
    BY <1>3, <2>1 DEF NextItem, IdleReplayer, CallsOK, TypeOK
  <2>2. CASE \E q \in Replayers : RequestReplay(q)
    BY <1>3, <2>2 DEF RequestReplay, CallsOK, TypeOK, ReplayState
  <2>3. CASE \E q \in Replayers : ReadSource(q)
    <3>1. PICK q \in Replayers : ReadSource(q)
      BY <2>3
    <3>2. PICK s \in FirstOf(rp[q].todo) :
            \/ NextItem(q, s)
            \/ rp' = [rp EXCEPT ![q] =
                        [@ EXCEPT !.pc = "count", !.src = s, !.state = run[s].state,
                                  !.meta = Parse(run[s].meta)]]
      BY <3>1 DEF ReadSource
    <3>3. rp[q] \in ReplayState
      BY DEF TypeOK
    <3>4. s \in Runs
      BY <3>3 DEF FirstOf, ReplayState
    <3>5. CASE NextItem(q, s)
      BY <2>1, <3>5
    <3>6. CASE rp' = [rp EXCEPT ![q] =
                        [@ EXCEPT !.pc = "count", !.src = s, !.state = run[s].state,
                                  !.meta = Parse(run[s].meta)]]
      <4>1. rp'[q].src = s /\ \A u \in Replayers \ {q} : rp'[u] = rp[u]
        BY <3>3, <3>6 DEF TypeOK, ReplayState
      <4>2. QED
        BY <1>3, <3>4, <4>1 DEF CallsOK
    <3>7. QED
      BY <3>2, <3>5, <3>6
  <2>4. CASE \E q \in Replayers : CountActive(q)
    BY <1>3, <2>1, <2>4 DEF CountActive, CallsOK, TypeOK, ReplayState
  <2>5. CASE \E q \in Replayers : CreateReplay(q)
    BY <2>1, <2>5 DEF CreateReplay
  <2>6. CASE UNCHANGED rp
    BY <1>3, <2>6 DEF CallsOK
  <2>7. QED
    BY <2>2, <2>3, <2>4, <2>5, <2>6 DEF Enqueue, OperatorStep, Review, Approve,
       Reject, ReplayStep, Tick
<1>4. QED
  BY <1>1, <1>2, <1>3 DEF CallsOK, WorkerKnows

LEMMA NextType == TypeInv /\ [Next]_vars => TypeInv'
<1> SUFFICES ASSUME TypeInv, [Next]_vars PROVE TypeInv'
  OBVIOUS
<1> USE DEF TypeInv
<1>1. CASE \E r \in Runs, t \in Targets, kind \in Catalog : Enqueue(r, t, kind)
  BY <1>1, EnqueueType, OtherStepCalls
<1>2. CASE \E w \in Workers : WorkerStep(w) \/ Crash(w)
  <2>1. PICK w \in Workers : WorkerStep(w) \/ Crash(w)
    BY <1>2
  <2>2. WorkerKnows(w)
    BY DEF CallsOK
  <2>3. TypeOK'
    <3>1. CASE Scan(w) \/ Claim(w) \/ LoseClaim(w)
      BY <3>1, ClaimStepsType
    <3>2. CASE Load(w)
      BY <2>2, <3>2, LoadType DEF WorkerKnows, Load
    <3>3. CASE RunCommands(w) \/ RunCanary(w) \/ RunRollback(w)
      BY <2>2, <3>3, RunStepsType DEF WorkerKnows, RunCommands, RunCanary, RunRollback
    <3>4. CASE WriteBack(w) \/ Crash(w)
      BY <3>4, WriteBackType
    <3>5. QED
      BY <2>1, <3>1, <3>2, <3>3, <3>4 DEF WorkerStep
  <2>4. QED
    BY <2>1, <2>3, WorkerStepCalls
<1>3. CASE \E o \in Operators : OperatorStep(o)
  BY <1>3, OperatorStepType, OtherStepCalls DEF CallsOK
<1>4. CASE \E p \in Replayers : ReplayStep(p)
  BY <1>4, ReplayStepType, OtherStepCalls DEF CallsOK
<1>5. CASE Tick
  <2>1. TypeOK'
    BY <1>5 DEF Tick, TypeOK, hist
  <2>2. QED
    BY <1>5, <2>1, OtherStepCalls
<1>6. CASE UNCHANGED vars
  BY <1>6 DEF vars, hist, TypeOK, CallsOK, WorkerKnows
<1>7. QED
  BY <1>1, <1>2, <1>3, <1>4, <1>5, <1>6 DEF Next

LEMMA TypeInvariance == Spec => []TypeInv
<1>1. QED
  BY InitType, NextType, PTL DEF Spec

(* The table, the calls under way and the history keep their types. Nothing *)
(* but the phase a call is in says which run it is about, so the invariant  *)
(* carries that as well (CallsOK).                                          *)
THEOREM TypeCorrect == Spec => []TypeOK
<1>1. TypeInv => TypeOK
  BY DEF TypeInv
<1>2. QED
  BY <1>1, TypeInvariance, PTL

-----------------------------------------------------------------------------
(* Mutual exclusion of the workers                                          *)

(* The claim is a compare-and-swap on the state of the row, so two workers  *)
(* can meet on a run only if something else takes it out of "running" under *)
(* the first. A retry cannot: it is written by the holder itself. A         *)
(* decision or a replay could, since both update by id; the invariant says  *)
(* that while a decision is open its run is queued and not claimable, which *)
(* is so because no payload a worker acts on is waiting for approval, and   *)
(* that the source of a replay is at rest.                                  *)
Blocked(r) == r \notin Legacy /\ ApprovalBlocks(run[r].meta)

WorkerSafe(w) ==
  wk[w].pc \notin {"idle", "scan"} =>
    LET r == wk[w].run
    IN /\ run[r].state # "absent"
       /\ run[r].state \in Active => ~Blocked(r)
       /\ wk[w].pc \in Holding => run[r].state = "running"
       /\ wk[w].pc \in Executing \cup {"write"} /\ r \notin Legacy
            => ~ApprovalBlocks(wk[w].meta)

NoSharedRun ==
  \A v, w \in Workers :
    wk[v].pc \in Holding /\ wk[w].pc \in Holding /\ wk[v].run = wk[w].run => v = w

DecisionSafe(o) ==
  op[o].pc = "decide" => run[op[o].run].state = "queued" /\ Blocked(op[o].run)

SourceSafe(p) ==
  /\ \A s \in rp[p].todo : run[s].state # "absent"
  /\ rp[p].pc \in {"count", "create"} => run[rp[p].src].state \in Terminal

ClaimInv ==
  /\ \A w \in Workers : WorkerSafe(w)
  /\ NoSharedRun
  /\ \A o \in Operators : DecisionSafe(o)
  /\ \A p \in Replayers : SourceSafe(p)
  /\ SerialReviews

LEMMA ParseApproval ==
  ASSUME NEW m \in Meta PROVE Parse(m).approval = m.approval
BY DEF Parse, Meta

LEMMA InitClaim == Init => ClaimInv
BY DEF Init, ClaimInv, WorkerSafe, NoSharedRun, DecisionSafe, SourceSafe,
       SerialReviews, IdleWorker, IdleOperator, IdleReplayer, Holding, Executing

(* Steps of a worker that leave the table alone.                            *)
LEMMA QuietStepSafe ==
  ASSUME TypeInv, ClaimInv, NEW w \in Workers,
         Scan(w) \/ LoseClaim(w) \/ Load(w) \/ RunCommands(w) \/ RunCanary(w)
           \/ RunRollback(w) \/ Crash(w)
  PROVE  /\ \A v \in Workers : WorkerSafe(v)'
         /\ NoSharedRun'
<1>1. TypeOK /\ CallsOK /\ WorkerKnows(w) /\ WorkerSafe(w) /\ wk[w] \in WorkerState
  BY DEF TypeInv, CallsOK, ClaimInv, TypeOK
<1>2. run' = run
  BY DEF Scan, LoseClaim, Load, RunCommands, RunCanary, RunRollback, Crash
<1>3. /\ WorkerSafe(w)'
      /\ wk'[w].pc \in Holding => wk[w].pc \in Holding /\ wk'[w].run = wk[w].run
      /\ \A v \in Workers \ {w} : wk'[v] = wk[v]
  <2>1. CASE Scan(w)
    <3>1. CASE wk'[w] = IdleWorker
      BY <1>1, <2>1, <3>1, ScanShape DEF WorkerSafe, IdleWorker, Holding, Executing
    <3>2. CASE wk'[w] # IdleWorker
      <4> DEFINE r == wk'[w].run
      <4>1. /\ wk'[w].pc = "claim" /\ r \in InState({"queued"})
            /\ \E t \in Nat : Claimable(r, t)
            /\ \A v \in Workers \ {w} : wk'[v] = wk[v]
        BY <1>1, <2>1, <3>2, ScanShape
      <4>2. r \in Runs /\ run[r].state = "queued" /\ run[r].meta \in Meta
        BY <1>1, <4>1 DEF InState, TypeOK, Row
      <4>3. ~Blocked(r)
        BY <4>1, <4>2, ParseApproval DEF Claimable, queueMetaIsReady, Blocked,
           ApprovalBlocks
      <4>4. QED
        BY <1>2, <4>1, <4>2, <4>3 DEF WorkerSafe, Blocked, Holding, Executing
    <3>3. QED
      BY <3>1, <3>2
  <2>2. CASE LoseClaim(w)
    <3>1. wk'[w].pc \in {"idle", "scan"} /\ \A v \in Workers \ {w} : wk'[v] = wk[v]
      BY <1>1, <2>2 DEF LoseClaim, IdleWorker, TypeOK, WorkerState
    <3>2. QED
      BY <3>1 DEF WorkerSafe, Holding, Executing
  <2>3. CASE Load(w)
    <3>1. wk[w].pc = "load" /\ wk[w].run \in Runs
      BY <1>1, <2>3 DEF Load, WorkerKnows
    <3>2. /\ wk'[w].pc \in {"commands", "write"} /\ wk'[w].run = wk[w].run
          /\ wk'[w].meta.approval = run[wk[w].run].meta.approval
          /\ \A v \in Workers \ {w} : wk'[v] = wk[v]
      BY <1>1, <2>3, <3>1, LoadShape
    <3>3. QED
      BY <1>1, <1>2, <3>1, <3>2 DEF WorkerSafe, Blocked, ApprovalBlocks,
         Holding, Executing, Active
  <2>4. CASE RunCommands(w) \/ RunCanary(w) \/ RunRollback(w)
    <3>1. wk[w].pc \in Executing
      BY <2>4 DEF RunCommands, RunCanary, RunRollback, Executing
    <3>2. Continues(w, wk[w].meta)
      BY <1>1, <2>4, <3>1, RunStepsShape DEF WorkerKnows, Executing
    <3>3. QED
      BY <1>1, <1>2, <3>1, <3>2 DEF Continues, WorkerSafe, Blocked,
         ApprovalBlocks, Holding, Executing, Active
  <2>5. CASE Crash(w)
    BY <1>1, <2>5 DEF Crash, WorkerSafe, IdleWorker, Holding, Executing, TypeOK
  <2>6. QED
    BY <2>1, <2>2, <2>3, <2>4, <2>5
<1>4. \A v \in Workers : WorkerSafe(v)'
  BY <1>2, <1>3 DEF ClaimInv, WorkerSafe, Blocked
<1>5. NoSharedRun'
  BY <1>3 DEF ClaimInv, NoSharedRun
<1>6. QED
  BY <1>4, <1>5

(* The two steps of a worker that write the row.                            *)
LEMMA ClaimSafe ==
  ASSUME TypeInv, ClaimInv, NEW w \in Workers, Claim(w)
  PROVE  /\ \A v \in Workers : WorkerSafe(v)'
         /\ NoSharedRun'
         /\ \A q \in Runs : run[q].state \in Terminal \/ Blocked(q) => run'[q] = run[q]
         /\ \A q \in Runs : run[q].state # "absent" => run'[q].state # "absent"
<1> DEFINE r == wk[w].run
<1>1. /\ r \in Runs /\ wk[w].pc = "claim" /\ run[r].state = "queued"
      /\ WorkerSafe(w) /\ wk[w] \in WorkerState
  BY DEF Claim, TypeInv, CallsOK, WorkerKnows, ClaimInv, TypeOK
<1>2. /\ run'[r] = [run[r] EXCEPT !.state = "running"]
      /\ \A q \in Runs \ {r} : run'[q] = run[q]
      /\ wk'[w].pc = "load" /\ wk'[w].run = r
      /\ \A v \in Workers \ {w} : wk'[v] = wk[v]
  BY <1>1 DEF Claim, TypeInv, TypeOK, WorkerState
<1>3. run'[r].state = "running" /\ run'[r].meta = run[r].meta
  BY <1>1, <1>2 DEF TypeInv, TypeOK, Row
<1>4. ~Blocked(r)
  BY <1>1 DEF WorkerSafe, Active
<1>5. \A v \in Workers : WorkerSafe(v)'
  <2>1. WorkerSafe(w)'
    BY <1>2, <1>3, <1>4 DEF WorkerSafe, Blocked, Executing
  <2>2. ASSUME NEW v \in Workers \ {w} PROVE WorkerSafe(v)'
    <3>1. WorkerSafe(v) /\ WorkerKnows(v) /\ wk'[v] = wk[v]
      BY <1>2 DEF ClaimInv, TypeInv, CallsOK
    <3>2. CASE wk[v].run = r
      BY <1>1, <1>3, <1>4, <3>1, <3>2 DEF WorkerSafe, Blocked
    <3>3. CASE wk[v].run # r
      BY <1>2, <3>1, <3>3 DEF WorkerSafe, WorkerKnows, Blocked
    <3>4. QED
      BY <3>2, <3>3
  <2>3. QED
    BY <2>1, <2>2
<1>6. NoSharedRun'
  <2>1. \A v \in Workers : wk[v].pc \in Holding => wk[v].run # r
    BY <1>1 DEF ClaimInv, WorkerSafe, Holding, Executing
  <2>2. QED
    BY <1>2, <2>1 DEF ClaimInv, NoSharedRun
<1>7. QED
  BY <1>1, <1>2, <1>3, <1>4, <1>5, <1>6 DEF Terminal

LEMMA WriteBackSafe ==
  ASSUME TypeInv, ClaimInv, NEW w \in Workers, WriteBack(w)
  PROVE  /\ \A v \in Workers : WorkerSafe(v)'
         /\ NoSharedRun'
         /\ \A q \in Runs : run[q].state # "running" => run'[q] = run[q]
         /\ \A q \in Runs : run[q].state # "absent" => run'[q].state # "absent"
<1> DEFINE r == wk[w].run
<1>1. /\ r \in Runs /\ wk[w].pc = "write" /\ run[r].state = "running"
      /\ wk[w].to \in {"queued"} \cup Terminal
      /\ r \notin Legacy => ~ApprovalBlocks(wk[w].meta)
  BY DEF WriteBack, TypeInv, CallsOK, WorkerKnows, ClaimInv, WorkerSafe, Holding
<1>2. /\ run'[r] = [run[r] EXCEPT !.state = wk[w].to, !.meta = wk[w].meta]
      /\ \A q \in Runs \ {r} : run'[q] = run[q]
      /\ wk'[w] = IdleWorker
      /\ \A v \in Workers \ {w} : wk'[v] = wk[v]
  BY <1>1 DEF WriteBack, TypeInv, TypeOK
<1>3. run'[r].state = wk[w].to /\ run'[r].meta = wk[w].meta
  BY <1>1, <1>2 DEF TypeInv, TypeOK, Row
<1>4. ASSUME NEW v \in Workers \ {w} PROVE WorkerSafe(v)'
  <2>1. WorkerSafe(v) /\ WorkerKnows(v) /\ wk'[v] = wk[v]
    BY <1>2 DEF ClaimInv, TypeInv, CallsOK
  <2>2. CASE wk[v].run = r
    <3>1. wk[v].pc \notin Holding
      BY <1>1, <2>2 DEF ClaimInv, NoSharedRun, Holding
    <3>2. QED
      BY <1>1, <1>3, <2>1, <2>2, <3>1 DEF WorkerSafe, Blocked, Terminal,
         Holding
  <2>3. CASE wk[v].run # r
    BY <1>2, <2>1, <2>3 DEF WorkerSafe, WorkerKnows, Blocked
  <2>4. QED
    BY <2>2, <2>3
<1>5. WorkerSafe(w)'
  BY <1>2 DEF WorkerSafe, IdleWorker
<1>6. NoSharedRun'
  <2>1. wk'[w].pc \notin Holding
    BY <1>2 DEF IdleWorker, Holding, Executing
  <2>2. QED
    BY <1>2, <2>1 DEF ClaimInv, NoSharedRun
<1>7. QED
  BY <1>1, <1>2, <1>3, <1>4, <1>5, <1>6 DEF Terminal

(* Steps of the others: no worker minds a row that is created, one at rest  *)
(* that stays so, or the decision on a run no worker can have claimed.      *)
Harmless(q) ==
  \/ run'[q] = run[q]
  \/ run[q].state = "absent"
  \/ run[q].state # "running" /\ run'[q].state \in Terminal
  \/ run[q].state = "queued" /\ run'[q].state = "queued"
       /\ ~ApprovalBlocks(run'[q].meta)

LEMMA HarmlessSteps ==
  ASSUME TypeInv, ClaimInv, UNCHANGED wk, \A q \in Runs : Harmless(q)
  PROVE  (\A w \in Workers : WorkerSafe(w)') /\ NoSharedRun'
<1>1. ASSUME NEW w \in Workers PROVE WorkerSafe(w)'
  <2>1. WorkerSafe(w) /\ WorkerKnows(w) /\ wk'[w] = wk[w]
    BY DEF ClaimInv, TypeInv, CallsOK
  <2>2. CASE wk[w].pc \in {"idle", "scan"}
    BY <2>1, <2>2 DEF WorkerSafe
  <2>3. CASE wk[w].pc \notin {"idle", "scan"}
    <3> DEFINE r == wk[w].run
    <3>1. r \in Runs /\ Harmless(r) /\ run[r].state # "absent"
      BY <2>1, <2>3 DEF WorkerKnows, WorkerSafe
    <3>2. wk[w].pc \in Executing \cup {"write"} => wk[w].pc \in Holding
      BY DEF Holding
    <3>3. QED
      BY <2>1, <2>3, <3>1, <3>2 DEF WorkerSafe, Harmless, Blocked, Active, Terminal
  <2>4. QED
    BY <2>2, <2>3
<1>2. NoSharedRun'
  BY DEF ClaimInv, NoSharedRun
<1>3. QED
  BY <1>1, <1>2

(* Decisions and replays under way survive a step of somebody else if it    *)
(* keeps the rows waiting for a decision and the rows at rest.              *)
LEMMA OthersKept ==
  ASSUME TypeInv, ClaimInv, UNCHANGED <<op, rp>>,
         \A q \in Runs : run[q].state = "queued" /\ Blocked(q) => run'[q] = run[q],
         \A q \in Runs : run[q].state \in Terminal => run'[q] = run[q],
         \A q \in Runs : run[q].state # "absent" => run'[q].state # "absent"
  PROVE  /\ \A o \in Operators : DecisionSafe(o)'
         /\ \A p \in Replayers : SourceSafe(p)'
         /\ SerialReviews'
<1>1. ASSUME NEW o \in Operators PROVE DecisionSafe(o)'
  BY DEF ClaimInv, DecisionSafe, Blocked, TypeInv, CallsOK
<1>2. ASSUME NEW p \in Replayers PROVE SourceSafe(p)'
  BY DEF ClaimInv, SourceSafe, TypeInv, CallsOK, TypeOK, ReplayState
<1>3. SerialReviews'
  BY DEF ClaimInv, SerialReviews
<1>4. QED
  BY <1>1, <1>2, <1>3

LEMMA WorkerStepClaim ==
  ASSUME TypeInv, ClaimInv, NEW w \in Workers, WorkerStep(w) \/ Crash(w)
  PROVE  ClaimInv'
<1>1. UNCHANGED <<op, rp>>
  BY DEF WorkerStep, Scan, Claim, LoseClaim, Load, RunCommands, RunCanary,
         RunRollback, WriteBack, Crash
<1>2. CASE Claim(w)
  <2>1. /\ \A q \in Runs : run[q].state = "queued" /\ Blocked(q) => run'[q] = run[q]
        /\ \A q \in Runs : run[q].state \in Terminal => run'[q] = run[q]
        /\ \A q \in Runs : run[q].state # "absent" => run'[q].state # "absent"
    BY <1>2, ClaimSafe
  <2>2. QED
    BY <1>1, <1>2, <2>1, ClaimSafe, OthersKept DEF ClaimInv
<1>3. CASE WriteBack(w)
  <2>1. /\ \A q \in Runs : run[q].state = "queued" /\ Blocked(q) => run'[q] = run[q]
        /\ \A q \in Runs : run[q].state \in Terminal => run'[q] = run[q]
        /\ \A q \in Runs : run[q].state # "absent" => run'[q].state # "absent"
    BY <1>3, WriteBackSafe DEF Terminal
  <2>2. QED
    BY <1>1, <1>3, <2>1, WriteBackSafe, OthersKept DEF ClaimInv
<1>4. CASE Scan(w) \/ LoseClaim(w) \/ Load(w) \/ RunCommands(w) \/ RunCanary(w)
             \/ RunRollback(w) \/ Crash(w)
  <2>1. UNCHANGED run
    BY <1>4 DEF Scan, LoseClaim, Load, RunCommands, RunCanary, RunRollback, Crash
  <2>2. QED
    BY <1>1, <1>4, <2>1, QuietStepSafe, OthersKept DEF ClaimInv
<1>5. QED
  BY <1>2, <1>3, <1>4 DEF WorkerStep

LEMMA EnqueueClaim ==
  ASSUME TypeInv, ClaimInv, NEW r \in Runs, NEW t \in Targets, NEW kind \in Catalog,
         Enqueue(r, t, kind)
  PROVE  ClaimInv'
<1>1. UNCHANGED <<wk, op, rp>> /\ run[r].state = "absent"
  BY DEF Enqueue
<1>2. \A q \in Runs \ {r} : run'[q] = run[q]
  BY DEF Enqueue, TypeInv, TypeOK
<1>3. \A q \in Runs : Harmless(q)
  BY <1>1, <1>2 DEF Harmless
<1>4. /\ \A q \in Runs : run[q].state = "queued" /\ Blocked(q) => run'[q] = run[q]
      /\ \A q \in Runs : run[q].state \in Terminal => run'[q] = run[q]
      /\ \A q \in Runs : run[q].state # "absent" => run'[q].state # "absent"
  BY <1>1, <1>2 DEF Terminal
<1>5. QED
  BY <1>1, <1>3, <1>4, HarmlessSteps, OthersKept DEF ClaimInv

LEMMA ReviewClaim ==
  ASSUME TypeInv, ClaimInv, NEW o \in Operators, Review(o), SerialReviews'
  PROVE  ClaimInv'
<1>1. UNCHANGED <<run, wk, rp>>
  BY DEF Review
<1>2. PICK r \in Reviewable :
        op' = [op EXCEPT ![o] = [pc |-> "decide", run |-> r, meta |-> Parse(run[r].meta)]]
  BY DEF Review
<1>3. r \in Runs /\ r \notin Legacy /\ run[r].state = "queued" /\ run[r].meta \in Meta
  BY DEF Reviewable, InState, TypeInv, TypeOK, Row
<1>4. /\ op'[o].pc = "decide" /\ op'[o].run = r /\ op'[o].meta = Parse(run[r].meta)
      /\ \A q \in Operators \ {o} : op'[q] = op[q]
  BY <1>2 DEF TypeInv, TypeOK
<1>5. Blocked(r)
  BY <1>3, <1>4, ParseApproval DEF SerialReviews, Blocked, ApprovalBlocks
<1>6. \A q \in Operators : DecisionSafe(q)'
  BY <1>1, <1>3, <1>4, <1>5 DEF ClaimInv, DecisionSafe, Blocked
<1>7. \A p \in Replayers : SourceSafe(p)'
  BY <1>1 DEF ClaimInv, SourceSafe
<1>8. \A q \in Runs : Harmless(q)
  BY <1>1 DEF Harmless
<1>9. QED
  BY <1>1, <1>6, <1>7, <1>8, HarmlessSteps DEF ClaimInv

LEMMA DecideClaim ==
  ASSUME TypeInv, ClaimInv, NEW o \in Operators, Approve(o) \/ Reject(o)
  PROVE  ClaimInv'
<1> DEFINE r == op[o].run
<1>1. /\ UNCHANGED <<wk, rp>> /\ op[o].pc = "decide"
      /\ op' = [op EXCEPT ![o] = IdleOperator]
  BY DEF Approve, Reject
<1>2. r \in Runs /\ run[r].state = "queued" /\ Blocked(r) /\ op[o].meta \in Meta
  BY <1>1 DEF TypeInv, CallsOK, TypeOK, OperatorState, ClaimInv, DecisionSafe
<1>3. /\ \A q \in Runs \ {r} : run'[q] = run[q]
      /\ \/ run'[r].state = "queued" /\ ~ApprovalBlocks(run'[r].meta)
         \/ run'[r].state = "canceled"
  <2>1. ~ApprovalBlocks(Approved(op[o].meta))
    BY <1>2 DEF Approved, ApprovalBlocks, Meta
  <2>2. ASSUME NEW state, NEW m, run' = [run EXCEPT ![r] = [@ EXCEPT !.state = state, !.meta = m]]
        PROVE  run'[r].state = state /\ run'[r].meta = m /\ \A q \in Runs \ {r} : run'[q] = run[q]
    BY <1>2, <2>2 DEF TypeInv, TypeOK, Row
  <2>3. CASE Approve(o)
    <3>1. run' = [run EXCEPT ![r] = [@ EXCEPT !.state = "queued", !.meta = Approved(op[o].meta)]]
      BY <2>3 DEF Approve
    <3>2. /\ run'[r].state = "queued" /\ run'[r].meta = Approved(op[o].meta)
          /\ \A q \in Runs \ {r} : run'[q] = run[q]
      BY <2>2, <3>1
    <3>3. QED
      BY <2>1, <3>2
  <2>4. CASE Reject(o)
    <3>1. run' = [run EXCEPT ![r] = [@ EXCEPT !.state = "canceled", !.meta = Rejected(op[o].meta)]]
      BY <2>4 DEF Reject
    <3>2. QED
      BY <2>2, <3>1
  <2>5. QED
    BY <2>3, <2>4
<1>4. \A q \in Runs : Harmless(q)
  BY <1>2, <1>3 DEF Harmless, Terminal
<1>5. op'[o].pc = "idle" /\ \A q \in Operators \ {o} : op'[q] = op[q]
  BY <1>1 DEF IdleOperator, TypeInv, TypeOK
<1>6. ASSUME NEW q \in Operators PROVE DecisionSafe(q)'
  <2>1. CASE q = o
    BY <1>5, <2>1 DEF DecisionSafe
  <2>2. CASE q # o /\ op[q].pc = "decide"
    <3>1. op[q].run \in Runs \ {r}
      BY <1>1, <2>2 DEF ClaimInv, SerialReviews, TypeInv, CallsOK
    <3>2. QED
      BY <1>3, <1>5, <2>2, <3>1 DEF ClaimInv, DecisionSafe, Blocked
  <2>3. CASE q # o /\ op[q].pc # "decide"
    BY <1>5, <2>3 DEF DecisionSafe
  <2>4. QED
    BY <2>1, <2>2, <2>3
<1>7. ASSUME NEW p \in Replayers PROVE SourceSafe(p)'
  BY <1>1, <1>2, <1>3 DEF ClaimInv, SourceSafe, TypeInv, CallsOK, Terminal, TypeOK, ReplayState
<1>8. SerialReviews'
  BY <1>5 DEF ClaimInv, SerialReviews
<1>9. QED
  BY <1>1, <1>4, <1>6, <1>7, <1>8, HarmlessSteps DEF ClaimInv

LEMMA ReplayClaim ==
  ASSUME TypeInv, ClaimInv, NEW p \in Replayers, ReplayStep(p)
  PROVE  ClaimInv'
<1>1. UNCHANGED <<wk, op>> /\ rp[p] \in ReplayState
  BY DEF ReplayStep, RequestReplay, ReadSource, CountActive, CreateReplay, TypeInv, TypeOK
<1>2. \A q \in Runs :
        \/ run'[q] = run[q]
        \/ run[q].state = "absent"
        \/ run[q].state \in Terminal /\ run'[q].state = "canceled"
  <2>1. CASE CreateReplay(p)
    <3> DEFINE s == rp[p].src
               m == rp[p].meta
               copy == [state |-> "queued", target |-> run[s].target,
                        requestedAt |-> now, meta |-> ReplayMeta(m, s)]
    <3>1. s \in Runs /\ run[s].state \in Terminal
      BY <2>1 DEF CreateReplay, TypeInv, CallsOK, ClaimInv, SourceSafe
    <3>2. PICK r \in InState({"absent"}) :
             \/ run' = [run EXCEPT ![r] = copy, ![s] = RetireSource(s, m)]
             \/ run' = [run EXCEPT ![r] = copy]
      BY <2>1 DEF CreateReplay
    <3>3. r \in Runs /\ run[r].state = "absent"
      BY DEF InState
    <3>4. RetireSource(s, m).state = "canceled"
      BY <3>1 DEF RetireSource, TypeInv, TypeOK, Row
    <3>5. run \in [Runs -> Row] /\ r # s
      BY <3>1, <3>3 DEF TypeInv, TypeOK, Terminal
    <3> HIDE DEF s, m, copy
    <3>6. /\ run'[s] = run[s] \/ run'[s] = RetireSource(s, m)
          /\ \A q \in Runs \ {r, s} : run'[q] = run[q]
      <4>1. CASE run' = [run EXCEPT ![r] = copy, ![s] = RetireSource(s, m)]
        BY <3>1, <3>3, <3>5, <4>1
      <4>2. CASE run' = [run EXCEPT ![r] = copy]
        BY <3>1, <3>3, <3>5, <4>2
      <4>3. QED
        BY <3>2, <4>1, <4>2
    <3>7. QED
      BY <3>1, <3>3, <3>4, <3>6
  <2>2. CASE UNCHANGED run
    BY <2>2
  <2>3. QED
    BY <2>1, <2>2 DEF ReplayStep, RequestReplay, ReadSource, CountActive
<1>3. \A q \in Runs : Harmless(q)
  BY <1>2 DEF Harmless, Terminal
<1>4. \A o \in Operators : DecisionSafe(o)'
  BY <1>1, <1>2 DEF ClaimInv, DecisionSafe, Blocked, TypeInv, CallsOK, Terminal
<1>5. SerialReviews'
  BY <1>1 DEF ClaimInv, SerialReviews
<1>6. /\ \A q \in Replayers \ {p} : rp'[q] = rp[q]
      /\ \A s \in rp'[p].todo : s \in Runs /\ run[s].state # "absent"
      /\ rp'[p].pc \in {"count", "create"} =>
           rp'[p].src \in Runs /\ run[rp'[p].src].state \in Terminal
  <2>1. ASSUME NEW s, NextItem(p, s)
        PROVE  /\ \A q \in Replayers \ {p} : rp'[q] = rp[q]
               /\ rp'[p].pc \in {"idle", "read"}
               /\ rp'[p].todo \subseteq rp[p].todo
    BY <2>1 DEF NextItem, IdleReplayer, TypeInv, TypeOK
  <2>2. \A s \in rp[p].todo : s \in Runs /\ run[s].state # "absent"
    BY <1>1 DEF ClaimInv, SourceSafe, ReplayState
  <2>3. CASE RequestReplay(p)
    <3>1. PICK todo \in {{r} : r \in InState(Active \cup Terminal)}
                       \cup Oldest(BatchLimit, DeadLetters) :
            rp' = [rp EXCEPT ![p] = [@ EXCEPT !.pc = "read", !.todo = todo]]
      BY <2>3 DEF RequestReplay
    <3>2. \A s \in todo : s \in Runs /\ run[s].state # "absent"
      BY DEF InState, DeadLetters, Oldest, kSubset, Active, Terminal
    <3>3. /\ \A q \in Replayers \ {p} : rp'[q] = rp[q]
          /\ rp'[p].pc = "read" /\ rp'[p].todo = todo
      BY <1>1, <3>1 DEF TypeInv, TypeOK, ReplayState
    <3>4. QED
      BY <3>2, <3>3
  <2>4. CASE ReadSource(p)
    <3>1. PICK s \in FirstOf(rp[p].todo) :
            \/ NextItem(p, s)
            \/ /\ ~(run[s].state \in Active \/ s \in Legacy)
               /\ rp' = [rp EXCEPT ![p] =
                          [@ EXCEPT !.pc = "count", !.src = s, !.state = run[s].state,
                                    !.meta = Parse(run[s].meta)]]
      BY <2>4 DEF ReadSource
    <3>2. s \in Runs /\ run[s].state # "absent"
      BY <2>2 DEF FirstOf
    <3>3. CASE NextItem(p, s)
      BY <2>1, <2>2, <3>3
    <3>4. CASE /\ ~(run[s].state \in Active \/ s \in Legacy)
               /\ rp' = [rp EXCEPT ![p] =
                          [@ EXCEPT !.pc = "count", !.src = s, !.state = run[s].state,
                                    !.meta = Parse(run[s].meta)]]
      <4>1. /\ \A q \in Replayers \ {p} : rp'[q] = rp[q]
            /\ rp'[p].src = s /\ rp'[p].todo = rp[p].todo
        BY <1>1, <3>4 DEF TypeInv, TypeOK, ReplayState
      <4>2. run[s].state \in Terminal
        BY <3>2, <3>4 DEF TypeInv, TypeOK, Row, States, Active, Terminal
      <4>3. QED
        BY <2>2, <3>2, <4>1, <4>2
    <3>5. QED
      BY <3>1, <3>3, <3>4
  <2>5. CASE CountActive(p)
    <3>1. CASE NextItem(p, rp[p].src)
      BY <2>1, <2>2, <3>1
    <3>2. CASE rp' = [rp EXCEPT ![p].pc = "create"]
      BY <1>1, <2>2, <2>5, <3>2 DEF CountActive, TypeInv, CallsOK, TypeOK,
         ReplayState, ClaimInv, SourceSafe
    <3>3. QED
      BY <2>5, <3>1, <3>2 DEF CountActive
  <2>6. CASE CreateReplay(p)
    BY <2>1, <2>2, <2>6 DEF CreateReplay
  <2>7. QED
    BY <2>3, <2>4, <2>5, <2>6 DEF ReplayStep
<1>7. \A q \in Replayers : SourceSafe(q)'
  <2>1. \A q \in Runs : /\ run[q].state # "absent" => run'[q].state # "absent"
                        /\ run[q].state \in Terminal => run'[q].state \in Terminal
    <3>1. \A q \in Runs : run'[q].state # "absent" \/ run'[q] = run[q] \/ run[q].state = "absent"
      BY <1>2
    <3>2. QED
      BY <1>2, <3>1 DEF Terminal
  <2>2. ASSUME NEW q \in Replayers \ {p} PROVE SourceSafe(q)'
    BY <1>6, <2>1 DEF ClaimInv, SourceSafe, TypeInv, CallsOK, TypeOK, ReplayState
  <2>3. SourceSafe(p)'
    BY <1>6, <2>1 DEF SourceSafe
  <2>4. QED
    BY <2>2, <2>3
<1>8. QED
  BY <1>1, <1>3, <1>4, <1>5, <1>7, HarmlessSteps DEF ClaimInv

LEMMA NextClaim ==
  TypeInv /\ ClaimInv /\ [SerialNext]_vars => ClaimInv'
<1> SUFFICES ASSUME TypeInv, ClaimInv, [SerialNext]_vars PROVE ClaimInv'
  OBVIOUS
<1>1. CASE \E r \in Runs, t \in Targets, kind \in Catalog : Enqueue(r, t, kind)
  BY <1>1, EnqueueClaim
<1>2. CASE \E w \in Workers : WorkerStep(w) \/ Crash(w)
  BY <1>2, WorkerStepClaim
<1>3. CASE SerialReviews' /\ \E o \in Operators : OperatorStep(o)
  BY <1>3, ReviewClaim, DecideClaim DEF OperatorStep
<1>4. CASE \E p \in Replayers : ReplayStep(p)
  BY <1>4, ReplayClaim
<1>5. CASE Tick \/ UNCHANGED vars
  BY <1>5 DEF Tick, vars, ClaimInv, WorkerSafe, NoSharedRun, DecisionSafe,
     SourceSafe, SerialReviews, Blocked
<1>6. QED
  BY <1>1, <1>2, <1>3, <1>4, <1>5 DEF SerialNext, Next

LEMMA SerialTypeInvariance == SerialSpec => []TypeInv
<1>1. [SerialNext]_vars => [Next]_vars
  BY DEF SerialNext
<1>2. QED
  BY <1>1, InitType, NextType, PTL DEF SerialSpec

LEMMA ClaimInvariance == SerialSpec => []ClaimInv
<1>1. QED
  BY InitClaim, NextClaim, SerialTypeInvariance, PTL DEF SerialSpec

(* As long as a run has one decision in flight, two workers never act on it *)
(* at the same time, however many workers, operators and replays there are  *)
(* and wherever the workers die.                                            *)
THEOREM ClaimsExclusive == SerialSpec => []ExclusiveClaim
<1>1. ClaimInv => ExclusiveClaim
  BY DEF ClaimInv, WorkerSafe, NoSharedRun, ExclusiveClaim, Holding, Executing
<1>2. QED
  BY <1>1, ClaimInvariance, PTL

(* ... and what an operator decides is still queued when the decision is    *)
(* written, as the error message of the approval call promises.             *)
THEOREM SerialDecisionsHitQueuedRuns == SerialSpec => DecisionsHitQueuedRuns
<1>1. ClaimInv => (\A o \in Operators : op[o].pc = "decide" => run[op[o].run].state = "queued")
  BY DEF ClaimInv, DecisionSafe
<1>2. ClaimInv => [\A o \in Operators : op[o].pc = "decide" /\ op'[o].pc = "idle"
                     => run[op[o].run].state = "queued"]_vars
  BY <1>1
<1>3. QED
  BY <1>2, ClaimInvariance, PTL DEF DecisionsHitQueuedRuns
=============================================================================
