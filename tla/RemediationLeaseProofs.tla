----------------------- MODULE RemediationLeaseProofs -----------------------
(* While decisions on one pending run do not overlap: the books of the      *)
(* attempts, that RemediationQueue implements RunLease, and what a run goes *)
(* through, its rollback, its dead letter, its replays, its approval and    *)
(* the delay between its attempts.                                          *)
EXTENDS RemediationQueueProofs

-----------------------------------------------------------------------------
(* What the row, the drain that holds it, a pending decision and a pending  *)
(* replay each say about the number of times the commands were started.     *)

RowCount(r) ==
  /\ starts[r] <= MaxAttempts
  /\ run[r].state = "absent" => starts[r] = 0
  /\ run[r].state = "queued" => starts[r] < MaxAttempts
  /\ run[r].state # "running" => run[r].meta.attempts = starts[r]
  /\ run[r].state = "running" => \/ run[r].meta.attempts = starts[r]
                                 \/ run[r].meta.attempts = starts[r] - 1

WorkerCount(w) ==
  LET r == wk[w].run
      n == wk[w].meta.attempts
  IN /\ wk[w].pc = "load" => run[r].meta.attempts = starts[r] /\ starts[r] < MaxAttempts
     /\ wk[w].pc = "commands" => n + 1 = starts[r]
     /\ wk[w].pc \in {"canary", "rollback", "write"} => n = starts[r]
     /\ wk[w].pc = "write" /\ wk[w].to = "queued" => n < MaxAttempts

DecisionCount(o) ==
  op[o].pc = "decide" => op[o].meta.attempts = starts[op[o].run]

SourceCount(p) ==
  rp[p].pc \in {"count", "create"} => rp[p].meta.attempts = starts[rp[p].src]

AttemptInv ==
  /\ \A r \in Runs : RowCount(r)
  /\ \A w \in Workers : WorkerCount(w)
  /\ \A o \in Operators : DecisionCount(o)
  /\ \A p \in Replayers : SourceCount(p)

LEMMA InitCount == Init => AttemptInv
BY QueueAssumption DEF Init, AttemptInv, RowCount, WorkerCount, DecisionCount,
   SourceCount, NoMeta, IdleWorker, IdleOperator, IdleReplayer

LEMMA ParseAttempts ==
  ASSUME NEW m \in Meta PROVE Parse(m).attempts = m.attempts
BY DEF Parse, Meta

-----------------------------------------------------------------------------
(* How a drain counts                                                       *)

(* The step leaves the worker with n attempts, and puts the run back only   *)
(* if there is another one.                                                 *)
Counts(w, n) ==
  /\ wk'[w].meta.attempts = n
  /\ wk'[w].pc = "write" /\ wk'[w].to = "queued" => n < MaxAttempts

LEMMA SucceedCounts ==
  ASSUME TypeOK, NEW w \in Workers, NEW m \in Meta, Succeed(w, m)
  PROVE  Counts(w, m.attempts)
<1> DEFINE x == [m EXCEPT !.next = 0, !.dlq = FALSE, !.reason = "none"]
<1>1. x.attempts = m.attempts
  BY DEF Meta
<1>2. PrepareWrite(w, "succeeded", x, wk[w].at)
  BY DEF Succeed
<1> HIDE DEF x
<1>3. QED
  BY <1>1, <1>2, PrepareWriteShape DEF Counts

LEMMA RetryOrDlqCounts ==
  ASSUME TypeOK, NEW w \in Workers, NEW m \in Meta, RetryOrDlq(w, m)
  PROVE  Counts(w, m.attempts)
<1> DEFINE x == [m EXCEPT !.next = wk[w].at + Backoff[m.attempts],
                          !.dlq = FALSE, !.reason = "none"]
           y == [m EXCEPT !.next = 0, !.dlq = TRUE, !.reason = DlqReason(m)]
<1>1. x.attempts = m.attempts /\ y.attempts = m.attempts
  BY DEF Meta
<1>2. \/ m.attempts < MaxAttempts /\ PrepareWrite(w, "queued", x, wk[w].at)
      \/ PrepareWrite(w, "failed", y, wk[w].at)
  BY DEF RetryOrDlq, shouldRetryAttempt
<1> HIDE DEF x, y
<1>3. QED
  BY <1>1, <1>2, PrepareWriteShape DEF Counts

LEMMA AfterFailureCounts ==
  ASSUME TypeOK, NEW w \in Workers, NEW m \in Meta, AfterFailure(w, m)
  PROVE  Counts(w, m.attempts)
<1>1. CASE m.rollback = "armed"
  <2>1. wk' = [wk EXCEPT ![w] = [@ EXCEPT !.pc = "rollback", !.meta = m]]
    BY <1>1 DEF AfterFailure
  <2>2. QED
    BY <2>1 DEF Counts, TypeOK, WorkerState
<1>2. CASE m.rollback # "armed"
  BY <1>2, RetryOrDlqCounts DEF AfterFailure
<1>3. QED
  BY <1>1, <1>2

LEMMA RunStepsCount ==
  ASSUME TypeOK, NEW w \in Workers
  PROVE  /\ RunCommands(w) => Counts(w, wk[w].meta.attempts + 1)
         /\ RunCanary(w) \/ RunRollback(w) => Counts(w, wk[w].meta.attempts)
<1>1. wk[w] \in WorkerState /\ wk[w].meta \in Meta
  BY DEF TypeOK, WorkerState
<1>2. ASSUME RunCommands(w) PROVE Counts(w, wk[w].meta.attempts + 1)
  <2> DEFINE m == [wk[w].meta EXCEPT !.attempts = @ + 1]
  <2>1. m \in Meta /\ m.attempts = wk[w].meta.attempts + 1
    BY <1>1, CountAttemptType DEF Meta
  <2>2. Counts(w, m.attempts)
    <3>1. CASE Succeed(w, m)
      BY <2>1, <3>1, SucceedCounts
    <3>2. CASE wk' = [wk EXCEPT ![w] = [@ EXCEPT !.pc = "canary", !.meta = m]]
      <4> HIDE DEF m
      <4>1. QED
        BY <1>1, <2>1, <3>2 DEF Counts, TypeOK, WorkerState
    <3>3. CASE AfterFailure(w, m)
      BY <2>1, <3>3, AfterFailureCounts
    <3>4. QED
      BY <1>2, <3>1, <3>2, <3>3 DEF RunCommands
  <2> HIDE DEF m
  <2>3. QED
    BY <2>1, <2>2
<1>3. ASSUME RunCanary(w) PROVE Counts(w, wk[w].meta.attempts)
  <2> DEFINE good == [wk[w].meta EXCEPT !.canary = "passed"]
             bad == [wk[w].meta EXCEPT !.canary = "failed"]
  <2>1. /\ good \in Meta /\ bad \in Meta
        /\ good.attempts = wk[w].meta.attempts /\ bad.attempts = wk[w].meta.attempts
    BY <1>1 DEF Meta, Canaries
  <2>2. Succeed(w, good) \/ AfterFailure(w, bad)
    BY <1>3 DEF RunCanary
  <2> HIDE DEF good, bad
  <2>3. QED
    BY <2>1, <2>2, SucceedCounts, AfterFailureCounts
<1>4. ASSUME RunRollback(w) PROVE Counts(w, wk[w].meta.attempts)
  <2>1. PICK result \in {"succeeded", "failed"} :
          RetryOrDlq(w, [wk[w].meta EXCEPT !.rollback = result])
    BY <1>4 DEF RunRollback
  <2> DEFINE m == [wk[w].meta EXCEPT !.rollback = result]
  <2>2. m \in Meta /\ m.attempts = wk[w].meta.attempts
    BY <1>1, <2>1 DEF Meta, Rollbacks
  <2> HIDE DEF m
  <2>3. RetryOrDlq(w, m)
    BY <2>1 DEF m
  <2>4. QED
    BY <2>2, <2>3, RetryOrDlqCounts
<1>5. QED
  BY <1>2, <1>3, <1>4

LEMMA LoadCounts ==
  ASSUME TypeOK, NEW w \in Workers, wk[w].run \in Runs, Load(w)
  PROVE  LET r == wk[w].run
         IN /\ wk'[w].meta.attempts = run[r].meta.attempts
            /\ \/ wk'[w].pc = "write" /\ UNCHANGED hist
               \/ /\ wk'[w].pc = "commands"
                  /\ starts' = [starts EXCEPT ![r] = @ + 1]
<1> DEFINE r == wk[w].run
           m == Parse(run[r].meta)
           b == [m EXCEPT !.dlq = TRUE, !.reason = "policy_blocked", !.next = 0]
<1>1. m \in Meta /\ run[r].meta \in Meta
  BY ParseType DEF TypeOK, Row
<1>2. m.attempts = run[r].meta.attempts /\ b.attempts = run[r].meta.attempts
  BY <1>1 DEF Parse, Meta
<1>3. \/ /\ \E to \in States : PrepareWrite(w, to, m, now) \/ PrepareWrite(w, to, b, now)
         /\ UNCHANGED hist
      \/ /\ wk' = [wk EXCEPT ![w] = [@ EXCEPT !.pc = "commands", !.meta = m, !.at = now]]
         /\ starts' = [starts EXCEPT ![r] = @ + 1]
  BY DEF Load, States
<1> HIDE DEF m, b
<1>4. CASE /\ \E to \in States : PrepareWrite(w, to, m, now) \/ PrepareWrite(w, to, b, now)
           /\ UNCHANGED hist
  BY <1>2, <1>4, PrepareWriteShape
<1>5. CASE /\ wk' = [wk EXCEPT ![w] = [@ EXCEPT !.pc = "commands", !.meta = m, !.at = now]]
           /\ starts' = [starts EXCEPT ![r] = @ + 1]
  BY <1>2, <1>5 DEF TypeOK, WorkerState
<1>6. QED
  BY <1>3, <1>4, <1>5

-----------------------------------------------------------------------------
(* The invariant is kept                                                    *)

(* A drain works on the run it has claimed: the other rows, and what the    *)
(* other processes remember, are not concerned.                             *)
OnlyTouches(w, r) ==
  /\ UNCHANGED <<op, rp>>
  /\ \A v \in Workers \ {w} : wk'[v] = wk[v]
  /\ \A q \in Runs \ {r} : run'[q] = run[q] /\ starts'[q] = starts[q]

LEMMA OthersCount ==
  ASSUME TypeInv, ClaimInv, AttemptInv, NEW w \in Workers, NEW r \in Runs,
         run[r].state = "running" \/ (UNCHANGED starts /\ run'[r].meta = run[r].meta),
         \A v \in Workers \ {w} : wk[v].pc \in Holding => wk[v].run # r,
         OnlyTouches(w, r), RowCount(r)', WorkerCount(w)'
  PROVE  AttemptInv'
<1>1. ASSUME NEW q \in Runs PROVE RowCount(q)'
  BY DEF AttemptInv, RowCount, OnlyTouches
<1>2. ASSUME NEW v \in Workers PROVE WorkerCount(v)'
  <2>1. CASE v = w
    BY <2>1
  <2>2. CASE v # w
    <3>1. WorkerCount(v) /\ WorkerKnows(v) /\ wk'[v] = wk[v]
      BY <2>2 DEF AttemptInv, TypeInv, CallsOK, OnlyTouches
    <3>2. CASE wk[v].pc \in Holding
      <4>1. wk[v].run \in Runs \ {r}
        BY <2>2, <3>1, <3>2 DEF WorkerKnows, Holding, Executing
      <4>2. QED
        BY <3>1, <4>1 DEF WorkerCount, OnlyTouches
    <3>3. CASE wk[v].pc \notin Holding
      BY <3>1, <3>3 DEF WorkerCount, Holding, Executing
    <3>4. QED
      BY <3>2, <3>3
  <2>3. QED
    BY <2>1, <2>2
<1>3. ASSUME NEW o \in Operators PROVE DecisionCount(o)'
  <2>1. CASE op[o].pc # "decide"
    BY <2>1 DEF DecisionCount, OnlyTouches
  <2>2. CASE op[o].pc = "decide"
    <3>1. /\ op[o].run \in Runs /\ run[op[o].run].state = "queued" /\ op'[o] = op[o]
          /\ DecisionCount(o)
      BY <2>2 DEF TypeInv, CallsOK, ClaimInv, DecisionSafe, OnlyTouches, AttemptInv
    <3>2. starts'[op[o].run] = starts[op[o].run]
      BY <3>1 DEF OnlyTouches
    <3>3. QED
      BY <3>1, <3>2 DEF DecisionCount
  <2>3. QED
    BY <2>1, <2>2
<1>4. ASSUME NEW p \in Replayers PROVE SourceCount(p)'
  <2>1. CASE rp[p].pc \notin {"count", "create"}
    BY <2>1 DEF SourceCount, OnlyTouches
  <2>2. CASE rp[p].pc \in {"count", "create"}
    <3>1. /\ rp[p].src \in Runs /\ run[rp[p].src].state \in Terminal /\ rp'[p] = rp[p]
          /\ SourceCount(p)
      BY <2>2 DEF TypeInv, CallsOK, ClaimInv, SourceSafe, OnlyTouches, AttemptInv
    <3>2. starts'[rp[p].src] = starts[rp[p].src]
      BY <3>1 DEF OnlyTouches, Terminal
    <3>3. QED
      BY <3>1, <3>2 DEF SourceCount
  <2>3. QED
    BY <2>1, <2>2
<1>5. QED
  BY <1>1, <1>2, <1>3, <1>4 DEF AttemptInv

LEMMA HoldingStepCount ==
  ASSUME TypeInv, ClaimInv, AttemptInv, NEW w \in Workers, NEW r \in Runs,
         wk[w].run = r,
         \/ Claim(w) \/ Load(w) \/ WriteBack(w)
         \/ RunCommands(w) \/ RunCanary(w) \/ RunRollback(w)
  PROVE  AttemptInv'
<1>1. /\ TypeOK /\ WorkerKnows(w) /\ WorkerSafe(w) /\ WorkerCount(w) /\ RowCount(r)
      /\ UNCHANGED <<op, rp>> /\ wk[w] \in WorkerState
      /\ run[r] \in Row /\ run[r].meta \in Meta /\ starts[r] \in Nat
  BY DEF TypeInv, TypeOK, CallsOK, ClaimInv, AttemptInv, Row,
         Claim, Load, RunCommands, RunCanary, RunRollback, WriteBack
<1>2. ASSUME wk[w].pc \in Holding
      PROVE  /\ run[r].state = "running"
             /\ \A v \in Workers \ {w} : wk[v].pc \in Holding => wk[v].run # r
  BY <1>1, <1>2 DEF WorkerSafe, Holding, Executing, ClaimInv, NoSharedRun
<1>3. CASE Claim(w)
  <2>1. wk[w].pc = "claim" /\ run[r].state = "queued" /\ UNCHANGED starts
    BY <1>3 DEF Claim, hist
  <2>2. /\ run'[r] = [run[r] EXCEPT !.state = "running"]
        /\ wk'[w].pc = "load" /\ wk'[w].run = r
        /\ OnlyTouches(w, r)
    BY <1>1, <1>3, <2>1 DEF Claim, OnlyTouches, TypeOK, WorkerState
  <2>3. run'[r].state = "running" /\ run'[r].meta = run[r].meta
    BY <1>1, <2>2 DEF Row
  <2>4. RowCount(r)' /\ WorkerCount(w)'
    BY <1>1, <2>1, <2>2, <2>3 DEF RowCount, WorkerCount
  <2>5. \A v \in Workers \ {w} : wk[v].pc \in Holding => wk[v].run # r
    BY <2>1 DEF ClaimInv, WorkerSafe, Holding, Executing
  <2>6. QED
    BY <2>1, <2>2, <2>3, <2>4, <2>5, OthersCount
<1>4. CASE Load(w)
  <2>1. wk[w].pc = "load" /\ wk[w].pc \in Holding
    BY <1>4 DEF Load, Holding
  <2>2. /\ wk'[w].run = r /\ wk'[w].meta.attempts = run[r].meta.attempts
        /\ \/ wk'[w].pc = "write" /\ UNCHANGED starts
           \/ wk'[w].pc = "commands" /\ starts' = [starts EXCEPT ![r] = @ + 1]
        /\ \A v \in Workers \ {w} : wk'[v] = wk[v]
    BY <1>1, <1>4, LoadShape, LoadCounts DEF hist
  <2>3. /\ run' = run /\ OnlyTouches(w, r)
        /\ \/ wk'[w].pc = "write" /\ starts'[r] = starts[r]
           \/ wk'[w].pc = "commands" /\ starts'[r] = starts[r] + 1
    BY <1>1, <1>4, <2>2 DEF Load, OnlyTouches, TypeOK
  <2>4. run[r].meta.attempts = starts[r] /\ starts[r] < MaxAttempts
    BY <1>1, <2>1 DEF WorkerCount
  <2>5. RowCount(r)'
    BY <1>1, <1>2, <2>1, <2>3, <2>4, QueueAssumption DEF RowCount
  <2>6. WorkerCount(w)'
    BY <1>1, <2>2, <2>3, <2>4 DEF WorkerCount
  <2>7. QED
    BY <1>2, <2>1, <2>3, <2>5, <2>6, OthersCount
<1>5. CASE RunCommands(w) \/ RunCanary(w) \/ RunRollback(w)
  <2>1. wk[w].pc \in Executing /\ wk[w].pc \in Holding /\ run' = run /\ starts' = starts
    BY <1>5 DEF RunCommands, RunCanary, RunRollback, Executing, Holding, hist
  <2>2. Continues(w, wk[w].meta)
    BY <1>1, <1>5, <2>1, RunStepsShape DEF WorkerKnows, Executing
  <2>3. Counts(w, starts[r])
    BY <1>1, <1>5, RunStepsCount DEF WorkerCount, RunCommands, RunCanary, RunRollback
  <2>4. WorkerCount(w)'
    BY <2>1, <2>2, <2>3 DEF WorkerCount, Counts, Continues
  <2>5. OnlyTouches(w, r) /\ RowCount(r)'
    BY <1>1, <2>1, <2>2 DEF OnlyTouches, Continues, RowCount
  <2>6. QED
    BY <1>2, <2>1, <2>4, <2>5, OthersCount
<1>6. CASE WriteBack(w)
  <2>1. /\ wk[w].pc = "write" /\ wk[w].pc \in Holding /\ UNCHANGED starts
        /\ wk[w].to \in {"queued"} \cup Terminal
    BY <1>1, <1>6 DEF WriteBack, Holding, WorkerKnows, hist
  <2>2. /\ run'[r] = [run[r] EXCEPT !.state = wk[w].to, !.meta = wk[w].meta]
        /\ wk'[w] = IdleWorker /\ OnlyTouches(w, r)
    BY <1>1, <1>6, <2>1 DEF WriteBack, OnlyTouches, TypeOK
  <2>3. run'[r].state = wk[w].to /\ run'[r].meta = wk[w].meta
    BY <1>1, <2>2 DEF Row
  <2>4. RowCount(r)'
    BY <1>1, <2>1, <2>3 DEF RowCount, WorkerCount, Terminal
  <2>5. WorkerCount(w)'
    BY <2>2 DEF WorkerCount, IdleWorker
  <2>6. QED
    BY <1>2, <2>1, <2>2, <2>4, <2>5, OthersCount
<1>7. QED
  BY <1>3, <1>4, <1>5, <1>6

LEMMA WorkerStepCount ==
  ASSUME TypeInv, ClaimInv, AttemptInv, NEW w \in Workers, WorkerStep(w) \/ Crash(w)
  PROVE  AttemptInv'
<1>1. CASE Scan(w) \/ LoseClaim(w) \/ Crash(w)
  <2>1. /\ UNCHANGED <<run, starts, op, rp>> /\ \A v \in Workers \ {w} : wk'[v] = wk[v]
    BY <1>1, ScanShape DEF Scan, LoseClaim, Crash, TypeInv, TypeOK, hist
  <2>2. wk'[w].pc \in {"idle", "scan", "claim"}
    <3>1. TypeOK /\ wk[w] \in WorkerState
      BY DEF TypeInv, TypeOK
    <3>2. CASE Scan(w)
      BY <3>1, <3>2, ScanShape DEF IdleWorker
    <3>3. CASE LoseClaim(w)
      BY <3>1, <3>3 DEF LoseClaim, IdleWorker, TypeOK, WorkerState
    <3>4. CASE Crash(w)
      BY <3>1, <3>4 DEF Crash, IdleWorker, TypeOK
    <3>5. QED
      BY <1>1, <3>2, <3>3, <3>4
  <2>3. \A v \in Workers : WorkerCount(v)'
    BY <2>1, <2>2 DEF WorkerCount, AttemptInv
  <2>4. QED
    BY <2>1, <2>3 DEF AttemptInv, RowCount, DecisionCount, SourceCount
<1>2. CASE \/ Claim(w) \/ Load(w) \/ WriteBack(w)
           \/ RunCommands(w) \/ RunCanary(w) \/ RunRollback(w)
  <2>1. PICK r \in Runs : wk[w].run = r
    BY <1>2 DEF TypeInv, CallsOK, WorkerKnows, Claim, Load, WriteBack,
                RunCommands, RunCanary, RunRollback
  <2>2. QED
    BY <1>2, <2>1, HoldingStepCount
<1>3. QED
  BY <1>1, <1>2 DEF WorkerStep

(* A step of anybody else starts nothing and leaves the leased rows alone.  *)
LEMMA OthersStepCount ==
  ASSUME TypeInv, ClaimInv, AttemptInv, UNCHANGED <<wk, starts>>,
         \A r \in Runs : run[r].state = "running" => run'[r] = run[r]
  PROVE  \A w \in Workers : WorkerCount(w)'
<1> SUFFICES ASSUME NEW w \in Workers PROVE WorkerCount(w)'
  OBVIOUS
<1>1. CASE wk[w].pc = "load"
  <2>1. wk[w].run \in Runs /\ run[wk[w].run].state = "running"
    BY <1>1 DEF TypeInv, CallsOK, WorkerKnows, ClaimInv, WorkerSafe, Holding
  <2>2. QED
    BY <1>1, <2>1 DEF AttemptInv, WorkerCount
<1>2. CASE wk[w].pc # "load"
  BY <1>2 DEF AttemptInv, WorkerCount
<1>3. QED
  BY <1>1, <1>2

LEMMA EnqueueCount ==
  ASSUME TypeInv, ClaimInv, AttemptInv, NEW r \in Runs, NEW t \in Targets,
         NEW kind \in Catalog, Enqueue(r, t, kind)
  PROVE  AttemptInv'
<1>1. UNCHANGED <<wk, op, rp, starts>> /\ run[r].state = "absent" /\ RowCount(r)
  BY DEF Enqueue, hist, AttemptInv
<1>2. /\ \A q \in Runs \ {r} : run'[q] = run[q]
      /\ run'[r].state = "queued" /\ run'[r].meta.attempts = 0
  <2>1. FreshMeta(kind).attempts = 0
    BY DEF FreshMeta, NoMeta
  <2> DEFINE x == FreshMeta(kind)
  <2>2. run' = [run EXCEPT ![r] = [state |-> "queued", target |-> t,
                                   requestedAt |-> now, meta |-> x]]
    BY DEF Enqueue
  <2> HIDE DEF x
  <2>3. run'[r].meta = x /\ run'[r].state = "queued" /\ \A q \in Runs \ {r} : run'[q] = run[q]
    BY <2>2 DEF TypeInv, TypeOK
  <2>4. QED
    BY <2>1, <2>3 DEF x
<1>3. \A q \in Runs : RowCount(q)'
  BY <1>1, <1>2, QueueAssumption DEF AttemptInv, RowCount
<1>4. \A w \in Workers : WorkerCount(w)'
  BY <1>1, <1>2, OthersStepCount
<1>5. QED
  BY <1>1, <1>3, <1>4 DEF AttemptInv, DecisionCount, SourceCount

LEMMA ReviewCount ==
  ASSUME TypeInv, ClaimInv, AttemptInv, NEW o \in Operators, Review(o)
  PROVE  AttemptInv'
<1>1. UNCHANGED <<run, wk, rp, starts>>
  BY DEF Review, hist
<1>2. PICK r \in Reviewable :
        op' = [op EXCEPT ![o] = [pc |-> "decide", run |-> r, meta |-> Parse(run[r].meta)]]
  BY DEF Review
<1>3. r \in Runs /\ run[r].state = "queued" /\ run[r].meta \in Meta /\ RowCount(r)
  BY DEF Reviewable, InState, TypeInv, TypeOK, Row, AttemptInv
<1>4. /\ op'[o].run = r /\ op'[o].meta.attempts = starts[r]
      /\ \A q \in Operators \ {o} : op'[q] = op[q]
  BY <1>2, <1>3, ParseAttempts DEF TypeInv, TypeOK, RowCount
<1>5. \A q \in Operators : DecisionCount(q)'
  BY <1>1, <1>4 DEF AttemptInv, DecisionCount
<1>6. QED
  BY <1>1, <1>5 DEF AttemptInv, RowCount, WorkerCount, SourceCount

LEMMA DecideCount ==
  ASSUME TypeInv, ClaimInv, AttemptInv, NEW o \in Operators, Approve(o) \/ Reject(o)
  PROVE  AttemptInv'
<1>1. /\ UNCHANGED <<wk, rp, starts>> /\ op[o].pc = "decide"
      /\ op' = [op EXCEPT ![o] = IdleOperator]
  BY DEF Approve, Reject, hist
<1>2. PICK r \in Runs : r = op[o].run
  BY <1>1 DEF TypeInv, CallsOK
<1>3. /\ run[r].state = "queued" /\ op[o].meta \in Meta /\ RowCount(r)
      /\ op[o].meta.attempts = starts[r]
  BY <1>1, <1>2 DEF TypeInv, TypeOK, OperatorState, ClaimInv, DecisionSafe,
                    AttemptInv, DecisionCount
<1>4. /\ \A q \in Runs \ {r} : run'[q] = run[q]
      /\ run'[r].state \in {"queued", "canceled"}
      /\ run'[r].meta.attempts = starts[r]
  <2>1. ASSUME NEW state, NEW m, m.attempts = starts[r],
               run' = [run EXCEPT ![r] = [@ EXCEPT !.state = state, !.meta = m]]
        PROVE  /\ run'[r].state = state /\ run'[r].meta.attempts = starts[r]
               /\ \A q \in Runs \ {r} : run'[q] = run[q]
    BY <2>1 DEF TypeInv, TypeOK, Row
  <2>2. Approved(op[o].meta).attempts = starts[r] /\ Rejected(op[o].meta).attempts = starts[r]
    BY <1>3 DEF Approved, Rejected, Meta
  <2>3. CASE Approve(o)
    <3>1. run' = [run EXCEPT ![r] = [@ EXCEPT !.state = "queued", !.meta = Approved(op[o].meta)]]
      BY <1>2, <2>3 DEF Approve
    <3>2. QED
      BY <2>1, <2>2, <3>1
  <2>4. CASE Reject(o)
    <3>1. run' = [run EXCEPT ![r] = [@ EXCEPT !.state = "canceled", !.meta = Rejected(op[o].meta)]]
      BY <1>2, <2>4 DEF Reject
    <3>2. QED
      BY <2>1, <2>2, <3>1
  <2>5. QED
    BY <2>3, <2>4
<1>5. \A q \in Runs : RowCount(q)'
  BY <1>1, <1>3, <1>4 DEF AttemptInv, RowCount
<1>6. \A w \in Workers : WorkerCount(w)'
  BY <1>1, <1>3, <1>4, OthersStepCount
<1>7. \A q \in Operators : DecisionCount(q)'
  BY <1>1 DEF AttemptInv, DecisionCount, IdleOperator, TypeInv, TypeOK
<1>8. QED
  BY <1>1, <1>5, <1>6, <1>7 DEF AttemptInv, SourceCount

(* What the table looks like after a step of the replay functions.          *)
LEMMA CreateReplayShape ==
  ASSUME TypeInv, ClaimInv, NEW p \in Replayers, CreateReplay(p)
  PROVE  \E r, s \in Runs :
           /\ s = rp[p].src /\ run[r].state = "absent" /\ run[s].state \in Terminal
           /\ run'[r].state = "queued" /\ run'[r].meta.attempts = 0
           /\ \A q \in Runs \ {r, s} : run'[q] = run[q]
           /\ \/ run'[s] = run[s]
              \/ /\ rp[p].state = "failed" /\ run'[s].state = "canceled"
                 /\ run'[s].meta.attempts = rp[p].meta.attempts
<1>1. PICK s \in Runs : s = rp[p].src
  BY DEF CreateReplay, TypeInv, CallsOK
<1> DEFINE m == rp[p].meta
           copy == [state |-> "queued", target |-> run[s].target,
                    requestedAt |-> now, meta |-> ReplayMeta(m, s)]
           old == RetireSource(s, m)
<1>2. /\ run[s].state \in Terminal /\ m \in Meta /\ run \in [Runs -> Row]
  BY <1>1 DEF CreateReplay, TypeInv, TypeOK, ReplayState, ClaimInv, SourceSafe
<1>3. PICK r \in InState({"absent"}) :
         \/ rp[p].state = "failed" /\ run' = [run EXCEPT ![r] = copy, ![s] = old]
         \/ run' = [run EXCEPT ![r] = copy]
  BY <1>1 DEF CreateReplay
<1>4. r \in Runs /\ run[r].state = "absent" /\ r # s
  BY <1>2 DEF InState, Terminal
<1>5. copy.state = "queued" /\ copy.meta.attempts = 0
  BY <1>2 DEF ReplayMeta, Meta
<1>6. old.state = "canceled" /\ old.meta.attempts = m.attempts
  <2> DEFINE x == [m EXCEPT !.dlq = FALSE, !.reason = "replayed", !.next = 0]
  <2>1. x.attempts = m.attempts
    BY <1>2 DEF Meta
  <2>2. old = [run[s] EXCEPT !.state = "canceled", !.meta = x]
    BY DEF RetireSource
  <2> HIDE DEF x, old
  <2>3. old.state = "canceled" /\ old.meta = x
    BY <1>2, <2>2 DEF Row
  <2>4. QED
    BY <2>1, <2>3
<1> HIDE DEF copy, old
<1>7. /\ run'[r] = copy
      /\ \A q \in Runs \ {r, s} : run'[q] = run[q]
      /\ run'[s] = run[s] \/ (rp[p].state = "failed" /\ run'[s] = old)
  <2>1. CASE rp[p].state = "failed" /\ run' = [run EXCEPT ![r] = copy, ![s] = old]
    BY <1>2, <1>4, <2>1
  <2>2. CASE run' = [run EXCEPT ![r] = copy]
    BY <1>2, <1>4, <2>2
  <2>3. QED
    BY <1>3, <2>1, <2>2
<1>8. QED
  BY <1>1, <1>2, <1>4, <1>5, <1>6, <1>7

LEMMA ReplaySourceCount ==
  ASSUME TypeInv, ClaimInv, AttemptInv, NEW p \in Replayers, ReplayStep(p)
  PROVE  \A q \in Replayers : SourceCount(q)'
<1>1. UNCHANGED starts /\ rp[p] \in ReplayState
  BY DEF ReplayStep, RequestReplay, ReadSource, CountActive, CreateReplay, hist,
         TypeInv, TypeOK
<1>2. ASSUME NEW s, NextItem(p, s)
      PROVE  rp'[p].pc \in {"idle", "read"} /\ \A q \in Replayers \ {p} : rp'[q] = rp[q]
  BY <1>2 DEF NextItem, IdleReplayer, TypeInv, TypeOK
<1>3. /\ \A q \in Replayers \ {p} : rp'[q] = rp[q]
      /\ SourceCount(p)'
  <2>1. CASE RequestReplay(p)
    BY <1>1, <2>1 DEF RequestReplay, SourceCount, TypeInv, TypeOK, ReplayState
  <2>2. CASE ReadSource(p)
    <3>1. PICK s \in FirstOf(rp[p].todo) :
            \/ NextItem(p, s)
            \/ /\ ~(run[s].state \in Active \/ s \in Legacy)
               /\ rp' = [rp EXCEPT ![p] =
                          [@ EXCEPT !.pc = "count", !.src = s, !.state = run[s].state,
                                    !.meta = Parse(run[s].meta)]]
      BY <2>2 DEF ReadSource
    <3>2. CASE NextItem(p, s)
      BY <1>2, <3>2 DEF SourceCount
    <3>3. CASE /\ ~(run[s].state \in Active \/ s \in Legacy)
               /\ rp' = [rp EXCEPT ![p] =
                          [@ EXCEPT !.pc = "count", !.src = s, !.state = run[s].state,
                                    !.meta = Parse(run[s].meta)]]
      <4>1. s \in Runs /\ run[s].meta \in Meta /\ RowCount(s) /\ run[s].state # "running"
        BY <1>1, <3>3 DEF FirstOf, ReplayState, TypeInv, TypeOK, Row, AttemptInv, Active
      <4>2. Parse(run[s].meta).attempts = starts[s]
        BY <4>1, ParseAttempts DEF RowCount
      <4>3. /\ rp'[p].src = s /\ rp'[p].meta = Parse(run[s].meta)
            /\ \A q \in Replayers \ {p} : rp'[q] = rp[q]
        BY <1>1, <3>3 DEF TypeInv, TypeOK, ReplayState
      <4>4. QED
        BY <1>1, <4>2, <4>3 DEF SourceCount
    <3>4. QED
      BY <3>1, <3>2, <3>3
  <2>3. CASE CountActive(p)
    <3>1. CASE NextItem(p, rp[p].src)
      BY <1>2, <3>1 DEF SourceCount
    <3>2. CASE rp' = [rp EXCEPT ![p].pc = "create"]
      BY <1>1, <2>3, <3>2 DEF CountActive, SourceCount, AttemptInv, TypeInv, TypeOK, ReplayState
    <3>3. QED
      BY <2>3, <3>1, <3>2 DEF CountActive
  <2>4. CASE CreateReplay(p)
    BY <1>2, <2>4 DEF CreateReplay, SourceCount
  <2>5. QED
    BY <2>1, <2>2, <2>3, <2>4 DEF ReplayStep
<1>4. QED
  BY <1>1, <1>3 DEF AttemptInv, SourceCount

LEMMA ReplayCount ==
  ASSUME TypeInv, ClaimInv, AttemptInv, NEW p \in Replayers, ReplayStep(p)
  PROVE  AttemptInv'
<1>1. UNCHANGED <<wk, op, starts>>
  BY DEF ReplayStep, RequestReplay, ReadSource, CountActive, CreateReplay, hist
<1>2. /\ \A q \in Runs : RowCount(q)'
      /\ \A q \in Runs : run[q].state = "running" => run'[q] = run[q]
  <2>1. CASE UNCHANGED run
    BY <1>1, <2>1 DEF AttemptInv, RowCount
  <2>2. CASE CreateReplay(p)
    <3>1. PICK r, s \in Runs :
            /\ s = rp[p].src /\ run[r].state = "absent" /\ run[s].state \in Terminal
            /\ run'[r].state = "queued" /\ run'[r].meta.attempts = 0
            /\ \A q \in Runs \ {r, s} : run'[q] = run[q]
            /\ \/ run'[s] = run[s]
               \/ /\ rp[p].state = "failed" /\ run'[s].state = "canceled"
                  /\ run'[s].meta.attempts = rp[p].meta.attempts
      BY <2>2, CreateReplayShape
    <3>2. rp[p].meta.attempts = starts[s]
      BY <2>2, <3>1 DEF CreateReplay, AttemptInv, SourceCount
    <3>3. ASSUME NEW q \in Runs PROVE RowCount(q)'
      <4>1. RowCount(q)
        BY DEF AttemptInv
      <4>2. QED
        BY <1>1, <3>1, <3>2, <4>1, QueueAssumption DEF RowCount
    <3>4. ASSUME NEW q \in Runs, run[q].state = "running" PROVE run'[q] = run[q]
      BY <3>1, <3>4 DEF Terminal
    <3>5. QED
      BY <3>3, <3>4
  <2>3. QED
    BY <2>1, <2>2 DEF ReplayStep, RequestReplay, ReadSource, CountActive
<1>3. \A w \in Workers : WorkerCount(w)'
  BY <1>1, <1>2, OthersStepCount
<1>4. QED
  BY <1>1, <1>2, <1>3, ReplaySourceCount DEF AttemptInv, DecisionCount

LEMMA NextCount ==
  TypeInv /\ ClaimInv /\ AttemptInv /\ [SerialNext]_vars => AttemptInv'
<1> SUFFICES ASSUME TypeInv, ClaimInv, AttemptInv, [SerialNext]_vars PROVE AttemptInv'
  OBVIOUS
<1>1. CASE \E r \in Runs, t \in Targets, kind \in Catalog : Enqueue(r, t, kind)
  BY <1>1, EnqueueCount
<1>2. CASE \E w \in Workers : WorkerStep(w) \/ Crash(w)
  BY <1>2, WorkerStepCount
<1>3. CASE \E o \in Operators : OperatorStep(o)
  BY <1>3, ReviewCount, DecideCount DEF OperatorStep
<1>4. CASE \E p \in Replayers : ReplayStep(p)
  BY <1>4, ReplayCount
<1>5. CASE Tick \/ UNCHANGED vars
  BY <1>5 DEF Tick, vars, hist, AttemptInv, RowCount, WorkerCount, DecisionCount, SourceCount
<1>6. QED
  BY <1>1, <1>2, <1>3, <1>4, <1>5 DEF SerialNext, Next

LEMMA AttemptInvariance == SerialSpec => []AttemptInv
BY InitCount, NextCount, SerialTypeInvariance, ClaimInvariance, PTL DEF SerialSpec

(* The commands of a run are started at most MaxAttempts times, whatever    *)
(* candidate lists the drains work from and wherever they die, as long as a *)
(* run has one decision in flight.                                          *)
THEOREM AttemptsBounded == SerialSpec => []AttemptBudget
<1>1. AttemptInv => AttemptBudget
  BY DEF AttemptInv, RowCount, AttemptBudget
<1>2. QED
  BY <1>1, AttemptInvariance, PTL

(* ... and no start is lost from the payload: an update that overwrites the *)
(* row with what a handler read earlier never takes the count back.         *)
THEOREM AttemptsCounted == SerialSpec => []AttemptsRecorded
<1>1. AttemptInv => AttemptsRecorded
  BY DEF AttemptInv, RowCount, AttemptsRecorded
<1>2. QED
  BY <1>1, AttemptInvariance, PTL

-----------------------------------------------------------------------------
(* RemediationQueue implements RunLease                                     *)

(* A pending replay read its source as finished; since then the source has  *)
(* at most been retired.                                                    *)
SourceInv ==
  \A p \in Replayers : rp[p].pc \in {"count", "create"} =>
    run[rp[p].src].state \in {rp[p].state, "canceled"}

LEMMA TerminalKept ==
  ASSUME TypeInv, ClaimInv, SerialNext, NEW q \in Runs, run[q].state \in Terminal
  PROVE  run'[q].state \in {run[q].state, "canceled"}
<1>1. run \in [Runs -> Row]
  BY DEF TypeInv, TypeOK
<1>2. CASE \E r \in Runs, t \in Targets, kind \in Catalog : Enqueue(r, t, kind)
  BY <1>1, <1>2 DEF Enqueue, Terminal
<1>3. CASE \E w \in Workers : WorkerStep(w) \/ Crash(w)
  <2>1. PICK w \in Workers : WorkerStep(w) \/ Crash(w)
    BY <1>3
  <2>2. CASE Claim(w)
    <3>1. wk[w].run # q
      BY <2>2 DEF Claim, Terminal
    <3>2. QED
      BY <1>1, <2>2, <3>1 DEF Claim
  <2>3. CASE WriteBack(w)
    <3>1. wk[w].run # q
      BY <2>3 DEF WriteBack, ClaimInv, WorkerSafe, Holding, Terminal
    <3>2. QED
      BY <1>1, <2>3, <3>1 DEF WriteBack
  <2>4. CASE UNCHANGED run
    BY <2>4
  <2>5. QED
    BY <2>1, <2>2, <2>3, <2>4 DEF WorkerStep, Scan, LoseClaim, Load, RunCommands,
       RunCanary, RunRollback, Crash
<1>4. CASE \E o \in Operators : OperatorStep(o)
  <2>1. PICK o \in Operators : OperatorStep(o)
    BY <1>4
  <2>2. CASE Approve(o) \/ Reject(o)
    <3>1. op[o].run # q
      BY <2>2 DEF Approve, Reject, ClaimInv, DecisionSafe, Terminal
    <3>2. QED
      BY <1>1, <2>2, <3>1 DEF Approve, Reject
  <2>3. QED
    BY <2>1, <2>2 DEF OperatorStep, Review
<1>5. CASE \E p \in Replayers : ReplayStep(p)
  <2>1. PICK p \in Replayers : ReplayStep(p)
    BY <1>5
  <2>2. CASE CreateReplay(p)
    BY <2>2, CreateReplayShape DEF Terminal
  <2>3. QED
    BY <2>1, <2>2 DEF ReplayStep, RequestReplay, ReadSource, CountActive
<1>6. CASE Tick
  BY <1>6 DEF Tick
<1>7. QED
  BY <1>2, <1>3, <1>4, <1>5, <1>6 DEF SerialNext, Next

LEMMA NextSource ==
  TypeInv /\ ClaimInv /\ SourceInv /\ [SerialNext]_vars => SourceInv'
<1> SUFFICES ASSUME TypeInv, ClaimInv, SourceInv, [SerialNext]_vars,
                    NEW p \in Replayers, rp'[p].pc \in {"count", "create"}
             PROVE  run'[rp'[p].src].state \in {rp'[p].state, "canceled"}
  BY DEF SourceInv
<1>1. CASE UNCHANGED vars
  BY <1>1 DEF vars, SourceInv
<1>2. CASE SerialNext
  <2>1. CASE rp'[p] = rp[p]
    <3>1. /\ rp[p].src \in Runs /\ run[rp[p].src].state \in Terminal
          /\ run[rp[p].src].state \in {rp[p].state, "canceled"}
      BY <2>1 DEF TypeInv, CallsOK, ClaimInv, SourceSafe, SourceInv
    <3>2. run'[rp[p].src].state \in {run[rp[p].src].state, "canceled"}
      BY <1>2, <3>1, TerminalKept
    <3>3. QED
      BY <2>1, <3>1, <3>2
  <2>2. CASE rp'[p] # rp[p]
    <3>1. PICK q \in Replayers : ReplayStep(q)
      BY <1>2, <2>2 DEF SerialNext, Next, Enqueue, WorkerStep, Scan, Claim, LoseClaim,
         Load, RunCommands, RunCanary, RunRollback, WriteBack, Crash, OperatorStep,
         Review, Approve, Reject, Tick
    <3>2. q = p
      BY <2>2, <3>1 DEF ReplayStep, RequestReplay, ReadSource, CountActive,
         CreateReplay, NextItem, TypeInv, TypeOK
    <3>3. \A s : ~NextItem(p, s)
      <4>1. ASSUME NEW s, NextItem(p, s) PROVE rp'[p].pc \in {"idle", "read"}
        BY <4>1 DEF NextItem, IdleReplayer, TypeInv, TypeOK
      <4>2. QED
        BY <4>1
    <3>4. CASE ReadSource(p)
      <4>1. PICK s \in FirstOf(rp[p].todo) :
              /\ ~(run[s].state \in Active \/ s \in Legacy)
              /\ rp' = [rp EXCEPT ![p] =
                         [@ EXCEPT !.pc = "count", !.src = s, !.state = run[s].state,
                                   !.meta = Parse(run[s].meta)]]
        BY <3>3, <3>4 DEF ReadSource
      <4>2. rp'[p].src = s /\ rp'[p].state = run[s].state /\ UNCHANGED run
        BY <3>4, <4>1 DEF ReadSource, TypeInv, TypeOK, ReplayState
      <4>3. QED
        BY <4>2
    <3>5. CASE CountActive(p)
      <4>1. rp' = [rp EXCEPT ![p].pc = "create"] /\ UNCHANGED run /\ rp[p].pc = "count"
        BY <3>3, <3>5 DEF CountActive
      <4>2. rp'[p].src = rp[p].src /\ rp'[p].state = rp[p].state
        BY <4>1 DEF TypeInv, TypeOK, ReplayState
      <4>3. QED
        BY <4>1, <4>2 DEF SourceInv
    <3>6. CASE RequestReplay(p)
      BY <3>6 DEF RequestReplay, TypeInv, TypeOK, ReplayState
    <3>7. QED
      BY <3>1, <3>2, <3>3, <3>4, <3>5, <3>6 DEF ReplayStep, CreateReplay
  <2>3. QED
    BY <2>1, <2>2
<1>3. QED
  BY <1>1, <1>2

LEMMA SourceInvariance == SerialSpec => []SourceInv
<1>1. Init => SourceInv
  BY DEF Init, SourceInv, IdleReplayer
<1>2. QED
  BY <1>1, NextSource, SerialTypeInvariance, ClaimInvariance, PTL DEF SerialSpec

LEMMA HolderValues ==
  ASSUME NEW r \in Runs
  PROVE  /\ Holders(r) = {} => Holder[r] = None
         /\ \A w \in Workers : Holders(r) = {w} => Holder[r] = w
         /\ Holders(r)' = {} => Holder'[r] = None
         /\ \A w \in Workers : Holders(r)' = {w} => Holder'[r] = w
<1>1. SoleOf({}) = None /\ \A w \in Workers : SoleOf({w}) = w
  BY DEF SoleOf
<1>2. QED
  BY <1>1 DEF Holder

LEMMA HolderKept ==
  /\ \A r \in Runs : Holders(r)' = Holders(r) => Holder'[r] = Holder[r]
  /\ (\A r \in Runs : Holders(r)' = Holders(r)) => Holder' = Holder
BY DEF Holder

LEMMA HolderUpdate ==
  ASSUME NEW r \in Runs, NEW x, Holder'[r] = x,
         \A q \in Runs \ {r} : Holder'[q] = Holder[q]
  PROVE  Holder' = [Holder EXCEPT ![r] = x]
BY DEF Holder

(* The drain that has claimed a run is the holder of its lease.             *)
LEMMA HolderUnique ==
  ASSUME ClaimInv, NEW w \in Workers, NEW r \in Runs,
         wk[w].pc \in Holding, wk[w].run = r
  PROVE  Holders(r) = {w} /\ Holder[r] = w
<1>1. Holders(r) = {w}
  BY DEF Holders, ClaimInv, NoSharedRun
<1>2. QED
  BY <1>1, HolderValues

LEMMA InitLease == Init => Lease!Init
<1> SUFFICES ASSUME Init PROVE Lease!Init
  OBVIOUS
<1>1. RowState = [r \in Runs |-> IF r \in Legacy THEN "queued" ELSE "absent"]
  BY DEF Init, RowState
<1>2. Holder = [r \in Runs |-> None]
  <2>1. \A r \in Runs : Holders(r) = {}
    BY DEF Init, Holders, IdleWorker, Holding, Executing
  <2>2. SoleOf({}) = None
    BY DEF SoleOf
  <2>3. QED
    BY <2>1, <2>2 DEF Holder
<1>3. starts = [r \in Runs |-> 0]
  BY DEF Init
<1>4. QED
  BY <1>1, <1>2, <1>3 DEF Lease!Init

(* A step that moves one drain from one phase of holding its run to another *)
(* hands no lease on.                                                       *)
LEMMA SameHolders ==
  ASSUME NEW w \in Workers, \A v \in Workers \ {w} : wk'[v] = wk[v],
         \/ wk'[w].run = wk[w].run /\ wk[w].pc \in Holding /\ wk'[w].pc \in Holding
         \/ wk[w].pc \notin Holding /\ wk'[w].pc \notin Holding
  PROVE  Holder' = Holder
<1>1. \A r \in Runs : Holders(r)' = Holders(r)
  BY DEF Holders
<1>2. QED
  BY <1>1, HolderKept

(* A step by which a drain lets go of its run.                              *)
LEMMA HolderReleases ==
  ASSUME ClaimInv, NEW w \in Workers, NEW r \in Runs, wk[w].run = r,
         \A v \in Workers \ {w} : wk'[v] = wk[v],
         wk[w].pc \in Holding, wk'[w].pc \notin Holding
  PROVE  Holder[r] = w /\ Holder' = [Holder EXCEPT ![r] = None]
<1>1. Holders(r) = {w} /\ Holder[r] = w
  BY HolderUnique
<1>2. Holders(r)' = {}
  BY <1>1 DEF Holders
<1>3. \A q \in Runs \ {r} : Holders(q)' = Holders(q)
  BY DEF Holders
<1>4. Holder'[r] = None /\ \A q \in Runs \ {r} : Holder'[q] = Holder[q]
  BY <1>2, <1>3, HolderValues, HolderKept
<1>5. Holder' = [Holder EXCEPT ![r] = None]
  BY <1>4, HolderUpdate
<1>6. QED
  BY <1>1, <1>5

LEMMA ClaimLease ==
  ASSUME TypeInv, ClaimInv, NEW w \in Workers, NEW r \in Runs, wk[w].run = r, Claim(w)
  PROVE  Lease!Take(w, r)
<1>1. /\ run \in [Runs -> Row] /\ wk \in [Workers -> WorkerState]
      /\ wk[w].pc = "claim" /\ run[r].state = "queued" /\ UNCHANGED starts
      /\ run' = [run EXCEPT ![r].state = "running"]
      /\ wk' = [wk EXCEPT ![w].pc = "load"]
  BY DEF TypeInv, TypeOK, Claim, hist
<1>2. /\ \A v \in Workers \ {w} : wk'[v] = wk[v]
      /\ wk'[w].pc = "load" /\ wk'[w].run = r
  BY <1>1 DEF WorkerState
<1>3. \A v \in Workers : wk[v].pc \in Holding => wk[v].run # r
  BY <1>1 DEF ClaimInv, WorkerSafe, Holding, Executing
<1>4. Holders(r)' = {w} /\ \A q \in Runs \ {r} : Holders(q)' = Holders(q)
  <2>1. wk[w].pc \notin Holding /\ wk'[w].pc \in Holding
    BY <1>1, <1>2 DEF Holding, Executing
  <2>2. QED
    BY <1>1, <1>2, <1>3, <2>1 DEF Holders
<1>5. Holder'[r] = w /\ \A q \in Runs \ {r} : Holder'[q] = Holder[q]
  BY <1>4, HolderValues, HolderKept
<1>6. Holder' = [Holder EXCEPT ![r] = w]
  BY <1>5, HolderUpdate
<1>7. RowState[r] = "queued" /\ RowState' = [RowState EXCEPT ![r] = "running"]
  BY <1>1 DEF RowState, Row
<1>8. QED
  BY <1>1, <1>6, <1>7 DEF Lease!Take

LEMMA LoadLease ==
  ASSUME TypeInv, ClaimInv, AttemptInv, NEW w \in Workers, NEW r \in Runs,
         wk[w].run = r, Load(w)
  PROVE  Lease!Try(w, r) \/ UNCHANGED Lease!vars
<1>1. TypeOK /\ wk[w].pc = "load" /\ UNCHANGED run /\ starts \in [Runs -> Nat]
  BY DEF TypeInv, TypeOK, Load
<1>2. /\ wk'[w].run = wk[w].run /\ wk'[w].pc \in {"commands", "write"}
      /\ \A v \in Workers \ {w} : wk'[v] = wk[v]
  BY <1>1, LoadShape
<1>3. Holder[r] = w /\ Holder' = Holder
  <2>1. wk[w].pc \in Holding /\ wk'[w].pc \in Holding
    BY <1>1, <1>2 DEF Holding, Executing
  <2>2. QED
    BY <1>2, <2>1, HolderUnique, SameHolders
<1>4. UNCHANGED starts \/ starts' = [starts EXCEPT ![r] = @ + 1]
  BY <1>1, LoadCounts DEF hist
<1>5. starts[r] < MaxAttempts
  BY <1>1 DEF AttemptInv, WorkerCount
<1>6. RowState' = RowState
  BY <1>1 DEF RowState
<1>7. QED
  BY <1>3, <1>4, <1>5, <1>6 DEF Lease!Try, Lease!vars

LEMMA WriteBackLease ==
  ASSUME TypeInv, ClaimInv, NEW w \in Workers, NEW r \in Runs, wk[w].run = r, WriteBack(w)
  PROVE  Lease!Settle(w, r)
<1>1. /\ run \in [Runs -> Row] /\ wk[w].pc = "write" /\ UNCHANGED starts
      /\ wk[w].pc \in Holding /\ run[r].state = "running"
      /\ wk[w].to \in {"queued", "succeeded", "failed", "canceled"}
  BY DEF TypeInv, TypeOK, CallsOK, WorkerKnows, ClaimInv, WorkerSafe, WriteBack,
         Holding, Terminal, hist
<1>2. wk'[w].pc \notin Holding /\ \A v \in Workers \ {w} : wk'[v] = wk[v]
  BY DEF WriteBack, IdleWorker, TypeInv, TypeOK, Holding, Executing
<1>3. Holder[r] = w /\ Holder' = [Holder EXCEPT ![r] = None]
  BY <1>1, <1>2, HolderReleases
<1>4. RowState[r] = "running" /\ RowState' = [RowState EXCEPT ![r] = wk[w].to]
  <2>1. run'[r].state = wk[w].to /\ \A q \in Runs \ {r} : run'[q] = run[q]
    BY <1>1 DEF WriteBack, Row
  <2>2. QED
    BY <1>1, <2>1 DEF RowState
<1>5. QED
  BY <1>1, <1>3, <1>4 DEF Lease!Settle

LEMMA CrashLease ==
  ASSUME TypeInv, ClaimInv, NEW w \in Workers, Crash(w)
  PROVE  (\E r \in Runs : Lease!Vanish(w, r)) \/ UNCHANGED Lease!vars
<1>1. /\ UNCHANGED <<run, starts>> /\ \A v \in Workers \ {w} : wk'[v] = wk[v]
      /\ wk'[w].pc \notin Holding
  BY DEF Crash, IdleWorker, TypeInv, TypeOK, Holding, Executing, hist
<1>2. RowState' = RowState
  BY <1>1 DEF RowState
<1>3. CASE wk[w].pc \in Holding
  <2>1. PICK r \in Runs : wk[w].run = r
    BY <1>3 DEF TypeInv, CallsOK, WorkerKnows, Holding, Executing
  <2>2. Holder[r] = w /\ Holder' = [Holder EXCEPT ![r] = None]
    BY <1>1, <1>3, <2>1, HolderReleases
  <2>3. QED
    BY <1>1, <1>2, <2>2 DEF Lease!Vanish
<1>4. CASE wk[w].pc \notin Holding
  BY <1>1, <1>2, <1>4, SameHolders DEF Lease!vars
<1>5. QED
  BY <1>3, <1>4

LEMMA WorkerLease ==
  ASSUME TypeInv, ClaimInv, AttemptInv, NEW w \in Workers, WorkerStep(w) \/ Crash(w)
  PROVE  Lease!Next \/ UNCHANGED Lease!vars
<1>1. CASE Scan(w) \/ LoseClaim(w)
  <2>1. /\ UNCHANGED <<run, starts>> /\ wk[w].pc \notin Holding
        /\ TypeOK /\ wk[w] \in WorkerState
    BY <1>1 DEF Scan, LoseClaim, TypeInv, TypeOK, Holding, Executing, hist
  <2>2. wk'[w].pc \notin Holding /\ \A v \in Workers \ {w} : wk'[v] = wk[v]
    <3>1. CASE Scan(w)
      BY <2>1, <3>1, ScanShape DEF IdleWorker, Holding, Executing
    <3>2. CASE LoseClaim(w)
      <4>1. wk'[w].pc \in {"idle", "scan"} /\ \A v \in Workers \ {w} : wk'[v] = wk[v]
        BY <2>1, <3>2 DEF LoseClaim, IdleWorker, TypeOK, WorkerState
      <4>2. QED
        BY <4>1 DEF Holding, Executing
    <3>3. QED
      BY <1>1, <3>1, <3>2
  <2>3. Holder' = Holder
    BY <2>1, <2>2, SameHolders
  <2>4. RowState' = RowState
    BY <2>1 DEF RowState
  <2>5. QED
    BY <2>1, <2>3, <2>4 DEF Lease!vars
<1>2. CASE RunCommands(w) \/ RunCanary(w) \/ RunRollback(w)
  <2>1. /\ UNCHANGED <<run, starts>> /\ wk[w].pc \in Executing /\ WorkerKnows(w) /\ TypeOK
    BY <1>2 DEF RunCommands, RunCanary, RunRollback, Executing, TypeInv, CallsOK, hist
  <2>2. Continues(w, wk[w].meta)
    BY <1>2, <2>1, RunStepsShape DEF WorkerKnows, Executing
  <2>3. Holder' = Holder
    <3>1. wk[w].pc \in Holding /\ wk'[w].pc \in Holding
      BY <2>1, <2>2 DEF Continues, Holding, Executing
    <3>2. QED
      BY <2>2, <3>1, SameHolders DEF Continues
  <2>4. RowState' = RowState
    BY <2>1 DEF RowState
  <2>5. QED
    BY <2>1, <2>3, <2>4 DEF Lease!vars
<1>3. CASE Claim(w) \/ Load(w) \/ WriteBack(w)
  <2>1. PICK r \in Runs : wk[w].run = r
    BY <1>3 DEF TypeInv, CallsOK, WorkerKnows, Claim, Load, WriteBack
  <2>2. Lease!Take(w, r) \/ Lease!Try(w, r) \/ Lease!Settle(w, r) \/ UNCHANGED Lease!vars
    BY <1>3, <2>1, ClaimLease, LoadLease, WriteBackLease
  <2>3. QED
    BY <2>2 DEF Lease!Next
<1>4. CASE Crash(w)
  BY <1>4, CrashLease DEF Lease!Next
<1>5. QED
  BY <1>1, <1>2, <1>3, <1>4 DEF WorkerStep

(* The rows change by an insert, a withdrawal, or an insert that retires a  *)
(* dead letter; nobody else's steps touch a lease.                          *)
LEMMA OtherLease ==
  ASSUME TypeInv, ClaimInv, SourceInv,
         \/ \E r \in Runs, t \in Targets, kind \in Catalog : Enqueue(r, t, kind)
         \/ \E o \in Operators : OperatorStep(o)
         \/ \E p \in Replayers : ReplayStep(p)
         \/ Tick
         \/ UNCHANGED vars
  PROVE  Lease!Next \/ UNCHANGED Lease!vars
<1>1. UNCHANGED <<wk, starts>>
  BY DEF Enqueue, OperatorStep, Review, Approve, Reject, ReplayStep, RequestReplay,
         ReadSource, CountActive, CreateReplay, Tick, vars, hist
<1>2. Holder' = Holder
  <2>1. \A r \in Runs : Holders(r)' = Holders(r)
    BY <1>1 DEF Holders
  <2>2. QED
    BY <2>1, HolderKept
<1>3. run \in [Runs -> Row]
  BY DEF TypeInv, TypeOK
<1>4. CASE UNCHANGED run
  <2>1. RowState' = RowState
    BY <1>4 DEF RowState
  <2>2. QED
    BY <1>1, <1>2, <2>1 DEF Lease!vars
<1>5. ASSUME NEW r \in Runs, NEW t \in Targets, NEW kind \in Catalog, Enqueue(r, t, kind)
      PROVE  Lease!Next
  <2>1. /\ run[r].state = "absent" /\ run'[r].state = "queued"
        /\ \A q \in Runs \ {r} : run'[q] = run[q]
    BY <1>3, <1>5 DEF Enqueue
  <2>2. RowState[r] = "absent" /\ RowState' = [RowState EXCEPT ![r] = "queued"]
    BY <2>1 DEF RowState
  <2>3. Lease!Submit(r)
    BY <1>1, <1>2, <2>2 DEF Lease!Submit
  <2>4. QED
    BY <2>3 DEF Lease!Next
<1>6. ASSUME NEW o \in Operators, Approve(o) \/ Reject(o)
      PROVE  Lease!Next \/ UNCHANGED Lease!vars
  <2>1. op[o].pc = "decide"
    BY <1>6 DEF Approve, Reject
  <2>2. PICK r \in Runs : r = op[o].run
    BY <2>1 DEF TypeInv, CallsOK
  <2>3. run[r].state = "queued"
    BY <2>1, <2>2 DEF ClaimInv, DecisionSafe
  <2>4. /\ run'[r].state \in {"queued", "canceled"}
        /\ \A q \in Runs \ {r} : run'[q] = run[q]
    <3>1. ASSUME NEW state, NEW m, run' = [run EXCEPT ![r] = [@ EXCEPT !.state = state, !.meta = m]]
          PROVE  run'[r].state = state /\ \A q \in Runs \ {r} : run'[q] = run[q]
      BY <1>3, <3>1 DEF Row
    <3>2. CASE Approve(o)
      BY <2>2, <3>1, <3>2 DEF Approve
    <3>3. CASE Reject(o)
      BY <2>2, <3>1, <3>3 DEF Reject
    <3>4. QED
      BY <1>6, <3>2, <3>3
  <2>5. RowState[r] = "queued" /\ RowState' \in {RowState, [RowState EXCEPT ![r] = "canceled"]}
    BY <2>3, <2>4 DEF RowState
  <2>6. Lease!Withdraw(r) \/ UNCHANGED Lease!vars
    BY <1>1, <1>2, <2>5 DEF Lease!Withdraw, Lease!vars
  <2>7. QED
    BY <2>6 DEF Lease!Next
<1>7. ASSUME NEW p \in Replayers, CreateReplay(p) PROVE Lease!Next
  <2>1. PICK r, s \in Runs :
          /\ s = rp[p].src /\ run[r].state = "absent" /\ run[s].state \in Terminal
          /\ run'[r].state = "queued"
          /\ \A q \in Runs \ {r, s} : run'[q] = run[q]
          /\ \/ run'[s] = run[s]
             \/ rp[p].state = "failed" /\ run'[s].state = "canceled"
    BY <1>7, CreateReplayShape
  <2>2. run[s].state \in {rp[p].state, "canceled"} /\ r # s
    BY <1>7, <2>1 DEF CreateReplay, SourceInv, Terminal
  <2>3. /\ RowState[r] = "absent"
        /\ \/ RowState' = [RowState EXCEPT ![r] = "queued"]
           \/ /\ RowState[s] = "failed"
              /\ RowState' = [RowState EXCEPT ![r] = "queued", ![s] = "canceled"]
    <3>1. CASE run'[s].state = run[s].state
      BY <2>1, <2>2, <3>1 DEF RowState
    <3>2. CASE run[s].state = "failed" /\ run'[s].state = "canceled"
      BY <2>1, <2>2, <3>2 DEF RowState
    <3>3. QED
      BY <2>1, <2>2, <3>1, <3>2
  <2>4. Lease!Submit(r)
    BY <1>1, <1>2, <2>3 DEF Lease!Submit
  <2>5. QED
    BY <2>4 DEF Lease!Next
<1>8. QED
  BY <1>4, <1>5, <1>6, <1>7 DEF OperatorStep, Review, ReplayStep, RequestReplay,
     ReadSource, CountActive, Tick, vars

(* The queue is a lease: every step of the drains, the approval calls and   *)
(* the replays is a step of RunLease or leaves it unchanged, so that only   *)
(* the drain that claimed a run starts it or settles it, and a finished run *)
(* is never taken up again, whatever a replay does with its row.            *)
THEOREM LeaseImplemented == SerialSpec => ImplementsLease
<1>1. TypeInv /\ ClaimInv /\ AttemptInv /\ SourceInv /\ [SerialNext]_vars
        => [Lease!Next]_(Lease!vars)
  BY WorkerLease, OtherLease DEF SerialNext, Next
<1>2. QED
  BY <1>1, InitLease, SerialTypeInvariance, ClaimInvariance, AttemptInvariance,
     SourceInvariance, PTL DEF SerialSpec, ImplementsLease, Lease!Spec

-----------------------------------------------------------------------------
(* What a step leaves as it is                                              *)

(* The row of run q and what is known of its past are as before.            *)
Kept(q) ==
  /\ run'[q] = run[q]
  /\ starts'[q] = starts[q] /\ lastStart'[q] = lastStart[q]
  /\ undone'[q] = undone[q] /\ root'[q] = root[q]

(* ... for everybody who is in the middle of something with a run: drains   *)
(* but W, approval calls but O and replays but P.                           *)
Undisturbed(W, O, P) ==
  /\ \A v \in Workers \ W :
       wk'[v] = wk[v] /\ (wk[v].pc \in Holding => wk[v].run \in Runs /\ Kept(wk[v].run))
  /\ \A q \in Operators \ O :
       op'[q] = op[q] /\ (op[q].pc = "decide" => op[q].run \in Runs /\ Kept(op[q].run))
  /\ \A q \in Replayers \ P : rp'[q] = rp[q]

(* ... and for the sources of all replays under way.                        *)
SourcesKept ==
  \A p \in Replayers : rp[p].pc \in {"count", "create"} =>
    rp[p].src \in Runs /\ Kept(rp[p].src)

(* A drain works on run r only, which no other drain holds, nobody decides  *)
(* about and nobody replays.                                                *)
LEMMA DrainDisturbsNobody ==
  ASSUME TypeInv, ClaimInv, NEW w \in Workers, NEW r \in Runs, wk[w].run = r,
         UNCHANGED <<op, rp>>,
         \A v \in Workers \ {w} : wk'[v] = wk[v],
         \A q \in Runs \ {r} : Kept(q),
         wk[w].pc \in Holding \/ Claim(w)
  PROVE  Undisturbed({w}, {}, {}) /\ SourcesKept
<1>1. run[r].state \in {"queued", "running"} /\ ~(run[r].state = "queued" /\ Blocked(r))
  BY DEF ClaimInv, WorkerSafe, Claim, Active, Holding, Executing
<1>2. ASSUME NEW v \in Workers \ {w}, wk[v].pc \in Holding
      PROVE  wk[v].run \in Runs \ {r}
  <2>1. wk[v].run \in Runs
    BY <1>2 DEF TypeInv, CallsOK, WorkerKnows, Holding, Executing
  <2>2. CASE wk[w].pc \in Holding
    BY <1>2, <2>1, <2>2 DEF ClaimInv, NoSharedRun
  <2>3. CASE Claim(w)
    BY <1>2, <2>1, <2>3 DEF Claim, ClaimInv, WorkerSafe, Holding, Executing
  <2>4. QED
    BY <2>2, <2>3
<1>3. ASSUME NEW q \in Operators, op[q].pc = "decide"
      PROVE  op[q].run \in Runs \ {r}
  BY <1>1, <1>3 DEF TypeInv, CallsOK, ClaimInv, DecisionSafe
<1>4. ASSUME NEW p \in Replayers, rp[p].pc \in {"count", "create"}
      PROVE  rp[p].src \in Runs \ {r}
  BY <1>1, <1>4 DEF TypeInv, CallsOK, ClaimInv, SourceSafe, Terminal
<1>5. QED
  BY <1>2, <1>3, <1>4 DEF Undisturbed, SourcesKept

-----------------------------------------------------------------------------
(* The steps of a drain, in full                                            *)

(* Looking for a candidate, losing it, dying: the table stays.              *)
LEMMA LookStep ==
  ASSUME TypeInv, NEW w \in Workers, Scan(w) \/ LoseClaim(w) \/ Crash(w)
  PROVE  /\ UNCHANGED <<run, op, rp, hist>>
         /\ \A v \in Workers \ {w} : wk'[v] = wk[v]
         /\ wk'[w].pc \in {"idle", "scan", "claim"}
         /\ wk'[w].meta \in {NoMeta, wk[w].meta}
<1>1. TypeOK /\ wk[w] \in WorkerState
  BY DEF TypeInv, TypeOK
<1>2. CASE Scan(w)
  <2>1. wk'[w].pc \in {"idle", "claim"} /\ \A v \in Workers \ {w} : wk'[v] = wk[v]
    BY <1>1, <1>2, ScanShape DEF IdleWorker
  <2>2. wk'[w].meta \in {NoMeta, wk[w].meta}
    <3>1. \/ wk' = [wk EXCEPT ![w] = IdleWorker]
          \/ \E r, at : wk' = [wk EXCEPT ![w] = [@ EXCEPT !.pc = "claim", !.run = r, !.at = at]]
      BY <1>2 DEF Scan
    <3>2. CASE wk' = [wk EXCEPT ![w] = IdleWorker]
      BY <1>1, <3>2 DEF TypeOK, IdleWorker
    <3>3. ASSUME NEW r, NEW at,
                 wk' = [wk EXCEPT ![w] = [@ EXCEPT !.pc = "claim", !.run = r, !.at = at]]
          PROVE  wk'[w].meta = wk[w].meta
      BY <1>1, <3>3 DEF TypeOK, WorkerState
    <3>4. QED
      BY <3>1, <3>2, <3>3
  <2>3. QED
    BY <1>2, <2>1, <2>2 DEF Scan
<1>3. CASE LoseClaim(w)
  BY <1>1, <1>3 DEF LoseClaim, TypeOK, WorkerState, IdleWorker
<1>4. CASE Crash(w)
  BY <1>1, <1>4 DEF Crash, TypeOK, WorkerState, IdleWorker
<1>5. QED
  BY <1>2, <1>3, <1>4

LEMMA ClaimStep ==
  ASSUME TypeInv, ClaimInv, NEW w \in Workers, NEW r \in Runs, wk[w].run = r, Claim(w)
  PROVE  /\ UNCHANGED <<op, rp, hist>>
         /\ run[r].state = "queued" /\ run'[r].state = "running"
         /\ run'[r].meta = run[r].meta
         /\ wk'[w].pc = "load" /\ wk'[w].run = r /\ wk'[w].meta = wk[w].meta
         /\ \A q \in Runs \ {r} : run'[q] = run[q]
         /\ Undisturbed({w}, {}, {}) /\ SourcesKept
<1>1. /\ run \in [Runs -> Row] /\ wk \in [Workers -> WorkerState]
      /\ run[r].state = "queued" /\ UNCHANGED <<op, rp, hist>>
      /\ run' = [run EXCEPT ![r] = [@ EXCEPT !.state = "running"]]
      /\ wk' = [wk EXCEPT ![w] = [@ EXCEPT !.pc = "load"]]
  BY DEF TypeInv, TypeOK, Claim
<1>2. /\ run'[r].state = "running" /\ run'[r].meta = run[r].meta
      /\ \A q \in Runs \ {r} : run'[q] = run[q]
  BY <1>1 DEF Row
<1>3. /\ wk'[w].pc = "load" /\ wk'[w].run = r /\ wk'[w].meta = wk[w].meta
      /\ \A v \in Workers \ {w} : wk'[v] = wk[v]
  BY <1>1 DEF WorkerState
<1>4. \A q \in Runs \ {r} : Kept(q)
  BY <1>1, <1>2 DEF Kept, hist
<1>5. QED
  BY <1>1, <1>2, <1>3, <1>4, DrainDisturbsNobody

(* What an executed attempt that was started with payload m leads to: the   *)
(* worker goes on with the payload, or reports it, flagged if the run has   *)
(* failed and due only after the delay if it is tried again.                *)
Outcome(w, m) ==
  /\ wk'[w].at = wk[w].at
  /\ wk'[w].meta.replayOf = m.replayOf
  /\ wk'[w].pc # "write" => wk'[w].meta.dlq = m.dlq
  /\ wk'[w].pc = "write" => (wk'[w].meta.dlq <=> wk'[w].to = "failed")
  /\ wk'[w].pc = "write" /\ wk'[w].to = "queued" =>
       wk'[w].meta.next = wk[w].at + Backoff[wk'[w].meta.attempts]

LEMMA PrepareWriteOutcome ==
  ASSUME TypeOK, NEW w \in Workers, NEW to, NEW m, PrepareWrite(w, to, m, wk[w].at)
  PROVE  /\ wk'[w].pc = "write" /\ wk'[w].to = to /\ wk'[w].meta = m
         /\ wk'[w].at = wk[w].at
BY DEF PrepareWrite, TypeOK, WorkerState

LEMMA SucceedOutcome ==
  ASSUME TypeOK, NEW w \in Workers, NEW m \in Meta, Succeed(w, m)
  PROVE  Outcome(w, m)
<1> DEFINE x == [m EXCEPT !.next = 0, !.dlq = FALSE, !.reason = "none"]
<1>1. x.replayOf = m.replayOf /\ x.dlq = FALSE
  BY DEF Meta
<1>2. PrepareWrite(w, "succeeded", x, wk[w].at)
  BY DEF Succeed
<1> HIDE DEF x
<1>3. QED
  BY <1>1, <1>2, PrepareWriteOutcome DEF Outcome

LEMMA RetryOrDlqOutcome ==
  ASSUME TypeOK, NEW w \in Workers, NEW m \in Meta, RetryOrDlq(w, m)
  PROVE  /\ Outcome(w, m)
         /\ wk'[w].pc = "write"
         /\ ForceDlq(m) => wk'[w].to = "failed"
<1> DEFINE x == [m EXCEPT !.next = wk[w].at + Backoff[m.attempts],
                          !.dlq = FALSE, !.reason = "none"]
           y == [m EXCEPT !.next = 0, !.dlq = TRUE, !.reason = DlqReason(m)]
<1>1. /\ x.replayOf = m.replayOf /\ x.dlq = FALSE /\ x.attempts = m.attempts
      /\ x.next = wk[w].at + Backoff[m.attempts]
      /\ y.replayOf = m.replayOf /\ y.dlq = TRUE
  BY DEF Meta
<1>2. \/ ~ForceDlq(m) /\ PrepareWrite(w, "queued", x, wk[w].at)
      \/ PrepareWrite(w, "failed", y, wk[w].at)
  BY DEF RetryOrDlq
<1> HIDE DEF x, y
<1>3. CASE ~ForceDlq(m) /\ PrepareWrite(w, "queued", x, wk[w].at)
  BY <1>1, <1>3, PrepareWriteOutcome DEF Outcome
<1>4. CASE PrepareWrite(w, "failed", y, wk[w].at)
  BY <1>1, <1>4, PrepareWriteOutcome DEF Outcome
<1>5. QED
  BY <1>2, <1>3, <1>4

LEMMA AfterFailureOutcome ==
  ASSUME TypeOK, NEW w \in Workers, NEW m \in Meta, AfterFailure(w, m)
  PROVE  Outcome(w, m)
<1>1. CASE m.rollback = "armed"
  <2>1. wk' = [wk EXCEPT ![w] = [@ EXCEPT !.pc = "rollback", !.meta = m]]
    BY <1>1 DEF AfterFailure
  <2>2. QED
    BY <2>1 DEF Outcome, TypeOK, WorkerState
<1>2. CASE m.rollback # "armed"
  BY <1>2, RetryOrDlqOutcome DEF AfterFailure
<1>3. QED
  BY <1>1, <1>2

(* Commands, canary and rollback: nothing but the worker's record moves.    *)
(* The rollback is counted, and its run has failed.                         *)
LEMMA AttemptStep ==
  ASSUME TypeInv, ClaimInv, NEW w \in Workers, NEW r \in Runs, wk[w].run = r,
         RunCommands(w) \/ RunCanary(w) \/ RunRollback(w)
  PROVE  /\ UNCHANGED <<run, op, rp, starts, lastStart, root, granted>>
         /\ wk[w].pc \in Executing /\ run[r].state = "running"
         /\ Continues(w, wk[w].meta) /\ Outcome(w, wk[w].meta)
         /\ \/ undone' = undone
            \/ /\ undone' = [undone EXCEPT ![r] = @ + 1]
               /\ wk'[w].pc = "write" /\ wk'[w].to = "failed"
         /\ Undisturbed({w}, {}, {}) /\ SourcesKept
<1>1. TypeOK /\ wk[w] \in WorkerState /\ wk[w].meta \in Meta /\ undone \in [Runs -> Nat]
  BY DEF TypeInv, TypeOK, WorkerState
<1>2. /\ wk[w].pc \in Executing /\ wk[w].pc \in Holding /\ run[r].state = "running"
      /\ UNCHANGED <<run, op, rp, starts, lastStart, root, granted>>
  BY DEF RunCommands, RunCanary, RunRollback, Executing, Holding, ClaimInv,
         WorkerSafe, hist
<1>3. Continues(w, wk[w].meta)
  BY <1>1, <1>2, RunStepsShape DEF TypeInv, CallsOK, WorkerKnows, Executing
<1>4. /\ Outcome(w, wk[w].meta)
      /\ \/ undone' = undone
         \/ /\ undone' = [undone EXCEPT ![r] = @ + 1]
            /\ wk'[w].pc = "write" /\ wk'[w].to = "failed"
  <2>1. CASE RunCommands(w)
    <3> DEFINE m == [wk[w].meta EXCEPT !.attempts = @ + 1]
    <3>1. m \in Meta /\ m.replayOf = wk[w].meta.replayOf /\ m.dlq = wk[w].meta.dlq
      BY <1>1, CountAttemptType DEF Meta
    <3>2. \/ Succeed(w, m) \/ AfterFailure(w, m)
          \/ wk' = [wk EXCEPT ![w] = [@ EXCEPT !.pc = "canary", !.meta = m]]
      BY <2>1 DEF RunCommands
    <3> HIDE DEF m
    <3>3. ASSUME wk' = [wk EXCEPT ![w] = [@ EXCEPT !.pc = "canary", !.meta = m]]
          PROVE  Outcome(w, m)
      BY <1>1, <3>3 DEF Outcome, TypeOK, WorkerState
    <3>4. Outcome(w, m)
      BY <1>1, <3>1, <3>2, <3>3, SucceedOutcome, AfterFailureOutcome
    <3>5. undone' = undone
      BY <2>1 DEF RunCommands, hist
    <3>6. QED
      BY <3>1, <3>4, <3>5 DEF Outcome
  <2>2. CASE RunCanary(w)
    <3> DEFINE good == [wk[w].meta EXCEPT !.canary = "passed"]
               bad == [wk[w].meta EXCEPT !.canary = "failed"]
    <3>1. /\ good \in Meta /\ bad \in Meta
          /\ good.replayOf = wk[w].meta.replayOf /\ bad.replayOf = wk[w].meta.replayOf
          /\ good.dlq = wk[w].meta.dlq /\ bad.dlq = wk[w].meta.dlq
      BY <1>1 DEF Meta, Canaries
    <3>2. Succeed(w, good) \/ AfterFailure(w, bad)
      BY <2>2 DEF RunCanary
    <3> HIDE DEF good, bad
    <3>3. Outcome(w, good) \/ Outcome(w, bad)
      BY <1>1, <3>1, <3>2, SucceedOutcome, AfterFailureOutcome
    <3>4. QED
      BY <2>2, <3>1, <3>3 DEF Outcome, RunCanary, hist
  <2>3. CASE RunRollback(w)
    <3>1. PICK result \in {"succeeded", "failed"} :
            RetryOrDlq(w, [wk[w].meta EXCEPT !.rollback = result])
      BY <2>3 DEF RunRollback
    <3> DEFINE m == [wk[w].meta EXCEPT !.rollback = result]
    <3>2. m \in Meta /\ m.replayOf = wk[w].meta.replayOf /\ m.dlq = wk[w].meta.dlq
      BY <1>1, <3>1 DEF Meta, Rollbacks
    <3>3. ForceDlq(m)
      BY <1>1, <3>1 DEF ForceDlq, Meta
    <3> HIDE DEF m
    <3>4. RetryOrDlq(w, m)
      BY <3>1 DEF m
    <3>5. Outcome(w, m) /\ wk'[w].pc = "write" /\ wk'[w].to = "failed"
      BY <1>1, <3>2, <3>3, <3>4, RetryOrDlqOutcome
    <3>6. undone' = [undone EXCEPT ![r] = @ + 1]
      BY <2>3 DEF RunRollback
    <3>7. QED
      BY <3>2, <3>5, <3>6 DEF Outcome
  <2>4. QED
    BY <2>1, <2>2, <2>3
<1>5. \A q \in Runs \ {r} : Kept(q)
  BY <1>1, <1>2, <1>4 DEF Kept
<1>6. Undisturbed({w}, {}, {}) /\ SourcesKept
  BY <1>2, <1>3, <1>5, DrainDisturbsNobody DEF Continues
<1>7. QED
  BY <1>2, <1>3, <1>4, <1>6

(* The claimed row is read again: it is started, if it is ready now, or     *)
(* reported as it is.                                                       *)
LEMMA LoadStep ==
  ASSUME TypeInv, ClaimInv, NEW w \in Workers, NEW r \in Runs, wk[w].run = r, Load(w)
  PROVE  /\ UNCHANGED <<run, op, rp, undone, root, granted>>
         /\ wk[w].pc = "load" /\ run[r].state = "running"
         /\ wk'[w].run = r
         /\ wk'[w].meta.approval = run[r].meta.approval
         /\ wk'[w].meta.replayOf = run[r].meta.replayOf
         /\ \/ /\ wk'[w].pc = "commands" /\ wk'[w].at = now
               /\ r \notin Legacy /\ ~wk'[w].meta.dlq
               /\ ~ApprovalBlocks(run[r].meta) /\ run[r].meta.next <= now
               /\ starts' = [starts EXCEPT ![r] = @ + 1]
               /\ lastStart' = [lastStart EXCEPT ![r] = now]
            \/ /\ wk'[w].pc = "write" /\ UNCHANGED <<starts, lastStart>>
               /\ wk'[w].to \in {"canceled", "failed", "queued"}
               /\ r \notin Legacy /\ ~run[r].meta.dlq =>
                    (wk'[w].meta.dlq <=> wk'[w].to = "failed")
               /\ wk'[w].to = "queued" =>
                    /\ r \notin Legacy
                    /\ ~run[r].meta.dlq /\ ~ApprovalBlocks(run[r].meta) =>
                         wk'[w].meta.next = run[r].meta.next
         /\ Undisturbed({w}, {}, {}) /\ SourcesKept
<1> DEFINE m == Parse(run[r].meta)
           b == [m EXCEPT !.dlq = TRUE, !.reason = "policy_blocked", !.next = 0]
<1>1. /\ TypeOK /\ wk[w] \in WorkerState /\ wk[w].pc = "load" /\ wk[w].pc \in Holding
      /\ run[r].state = "running" /\ run[r].meta \in Meta /\ m \in Meta
      /\ UNCHANGED <<run, op, rp, undone, root, granted>>
  BY ParseType DEF TypeInv, TypeOK, Row, Load, ClaimInv, WorkerSafe, Holding, hist
<1>2. /\ m.approval = run[r].meta.approval /\ b.approval = run[r].meta.approval
      /\ m.replayOf = run[r].meta.replayOf /\ b.replayOf = run[r].meta.replayOf
      /\ m.dlq = run[r].meta.dlq /\ b.dlq = TRUE
      /\ ~run[r].meta.dlq /\ ~ApprovalBlocks(run[r].meta) => m.next = run[r].meta.next
  BY <1>1 DEF Parse, Meta
<1>3. StillReady(m) => ~m.dlq /\ ~ApprovalBlocks(run[r].meta) /\ run[r].meta.next <= now
  BY <1>1, <1>2 DEF StillReady, queueMetaIsReady, ApprovalBlocks
<1>4. \/ /\ UNCHANGED hist
         /\ \/ PrepareWrite(w, "canceled", m, now)
            \/ r \in Legacy /\ PrepareWrite(w, "failed", m, now)
            \/ r \notin Legacy /\ PrepareWrite(w, "queued", m, now)
            \/ r \notin Legacy /\ PrepareWrite(w, "failed", b, now)
      \/ /\ r \notin Legacy /\ StillReady(m)
         /\ wk' = [wk EXCEPT ![w] = [@ EXCEPT !.pc = "commands", !.meta = m, !.at = now]]
         /\ starts' = [starts EXCEPT ![r] = @ + 1]
         /\ lastStart' = [lastStart EXCEPT ![r] = now]
  BY DEF Load
<1> HIDE DEF m, b
<1>5. /\ wk'[w].run = r /\ \A v \in Workers \ {w} : wk'[v] = wk[v]
      /\ \/ /\ UNCHANGED <<starts, lastStart>> /\ wk'[w].pc = "write"
            /\ \/ wk'[w].to = "canceled" /\ wk'[w].meta = m
               \/ r \in Legacy /\ wk'[w].to = "failed" /\ wk'[w].meta = m
               \/ r \notin Legacy /\ wk'[w].to = "queued" /\ wk'[w].meta = m
               \/ r \notin Legacy /\ wk'[w].to = "failed" /\ wk'[w].meta = b
         \/ /\ r \notin Legacy /\ StillReady(m)
            /\ wk'[w].pc = "commands" /\ wk'[w].meta = m /\ wk'[w].at = now
            /\ starts' = [starts EXCEPT ![r] = @ + 1]
            /\ lastStart' = [lastStart EXCEPT ![r] = now]
  <2>1. CASE /\ UNCHANGED hist
             /\ \/ PrepareWrite(w, "canceled", m, now)
                \/ r \in Legacy /\ PrepareWrite(w, "failed", m, now)
                \/ r \notin Legacy /\ PrepareWrite(w, "queued", m, now)
                \/ r \notin Legacy /\ PrepareWrite(w, "failed", b, now)
    BY <1>1, <2>1, PrepareWriteShape DEF hist
  <2>2. CASE /\ r \notin Legacy /\ StillReady(m)
             /\ wk' = [wk EXCEPT ![w] = [@ EXCEPT !.pc = "commands", !.meta = m, !.at = now]]
             /\ starts' = [starts EXCEPT ![r] = @ + 1]
             /\ lastStart' = [lastStart EXCEPT ![r] = now]
    BY <1>1, <2>2 DEF TypeOK, WorkerState
  <2>3. QED
    BY <1>4, <2>1, <2>2
<1>6. \A q \in Runs \ {r} : Kept(q)
  BY <1>1, <1>5 DEF Kept, TypeOK
<1>7. Undisturbed({w}, {}, {}) /\ SourcesKept
  BY <1>1, <1>5, <1>6, DrainDisturbsNobody
<1>8. QED
  BY <1>1, <1>2, <1>3, <1>5, <1>7

LEMMA WriteStep ==
  ASSUME TypeInv, ClaimInv, NEW w \in Workers, NEW r \in Runs, wk[w].run = r, WriteBack(w)
  PROVE  /\ UNCHANGED <<op, rp, hist>>
         /\ wk[w].pc = "write" /\ run[r].state = "running"
         /\ wk'[w] = IdleWorker
         /\ run'[r].state = wk[w].to /\ run'[r].meta = wk[w].meta
         /\ \A q \in Runs \ {r} : run'[q] = run[q]
         /\ Undisturbed({w}, {}, {}) /\ SourcesKept
<1>1. /\ run \in [Runs -> Row] /\ wk \in [Workers -> WorkerState]
      /\ wk[w].pc = "write" /\ wk[w].pc \in Holding /\ run[r].state = "running"
      /\ UNCHANGED <<op, rp, hist>>
      /\ run' = [run EXCEPT ![r] = [@ EXCEPT !.state = wk[w].to, !.meta = wk[w].meta]]
      /\ wk' = [wk EXCEPT ![w] = IdleWorker]
  BY DEF TypeInv, TypeOK, WriteBack, ClaimInv, WorkerSafe, Holding
<1>2. /\ run'[r].state = wk[w].to /\ run'[r].meta = wk[w].meta
      /\ \A q \in Runs \ {r} : run'[q] = run[q]
  BY <1>1 DEF Row
<1>3. wk'[w] = IdleWorker /\ \A v \in Workers \ {w} : wk'[v] = wk[v]
  BY <1>1
<1>4. \A q \in Runs \ {r} : Kept(q)
  BY <1>1, <1>2 DEF Kept, hist
<1>5. QED
  BY <1>1, <1>2, <1>3, <1>4, DrainDisturbsNobody

-----------------------------------------------------------------------------
(* The steps of the others, in full                                         *)

(* A step that leaves the held rows, those decided about and those at rest  *)
(* disturbs no process but its own.                                         *)
LEMMA StepDisturbsNobody ==
  ASSUME TypeInv, ClaimInv, NEW O, NEW P, NEW r \in Runs, UNCHANGED wk,
         \A q \in Operators \ O : op'[q] = op[q],
         \A q \in Replayers \ P : rp'[q] = rp[q],
         \A q \in Runs \ {r} : Kept(q),
         \/ run[r].state = "absent"
         \/ run[r].state = "queued" /\ \A q \in Operators \ O :
              op[q].pc = "decide" => op[q].run # r
  PROVE  Undisturbed({}, O, P) /\ SourcesKept
<1>1. ASSUME NEW v \in Workers, wk[v].pc \in Holding
      PROVE  wk[v].run \in Runs \ {r}
  BY <1>1 DEF TypeInv, CallsOK, WorkerKnows, ClaimInv, WorkerSafe, Holding, Executing
<1>2. ASSUME NEW q \in Operators \ O, op[q].pc = "decide"
      PROVE  op[q].run \in Runs \ {r}
  BY <1>2 DEF TypeInv, CallsOK, ClaimInv, DecisionSafe
<1>3. ASSUME NEW q \in Replayers, rp[q].pc \in {"count", "create"}
      PROVE  rp[q].src \in Runs \ {r}
  BY <1>3 DEF TypeInv, CallsOK, ClaimInv, SourceSafe, Terminal
<1>4. QED
  BY <1>1, <1>2, <1>3 DEF Undisturbed, SourcesKept

LEMMA EnqueueStep ==
  ASSUME TypeInv, ClaimInv, NEW r \in Runs, NEW t \in Targets, NEW kind \in Catalog,
         Enqueue(r, t, kind)
  PROVE  /\ UNCHANGED <<wk, op, rp, hist>>
         /\ run[r].state = "absent" /\ run'[r].state = "queued"
         /\ run'[r].meta.approval \in {"none", "pending"} /\ ~run'[r].meta.dlq
         /\ run'[r].meta.replayOf = None
         /\ \A q \in Runs \ {r} : run'[q] = run[q]
         /\ Undisturbed({}, {}, {}) /\ SourcesKept
<1> DEFINE m == FreshMeta(kind)
<1>1. kind.approval \in {"none", "pending"}
  <2>1. kind \in [approval : {"none", "pending"}, canary : {"off", "unchecked"},
                  rollback : {"off", "armed"}]
    BY QueueAssumption
  <2>2. QED
    BY <2>1
<1>2. m.approval \in {"none", "pending"} /\ m.dlq = FALSE /\ m.replayOf = None
  BY <1>1 DEF FreshMeta, NoMeta
<1>3. /\ run[r].state = "absent" /\ UNCHANGED <<wk, op, rp, hist>>
      /\ run' = [run EXCEPT ![r] = [state |-> "queued", target |-> t,
                                    requestedAt |-> now, meta |-> m]]
  BY DEF Enqueue
<1> HIDE DEF m
<1>4. /\ run'[r].state = "queued" /\ run'[r].meta = m
      /\ \A q \in Runs \ {r} : run'[q] = run[q]
  BY <1>3 DEF TypeInv, TypeOK
<1>5. \A q \in Runs \ {r} : Kept(q)
  BY <1>3, <1>4 DEF Kept, hist
<1>6. Undisturbed({}, {}, {}) /\ SourcesKept
  BY <1>3, <1>5, StepDisturbsNobody
<1>7. QED
  BY <1>2, <1>3, <1>4, <1>6

LEMMA ReviewStep ==
  ASSUME TypeInv, ClaimInv, NEW o \in Operators, Review(o)
  PROVE  /\ UNCHANGED <<run, wk, rp, hist>>
         /\ \A q \in Operators \ {o} : op'[q] = op[q]
         /\ LET r == op'[o].run
            IN /\ r \in Runs \ Legacy /\ run[r].state = "queued"
               /\ op'[o].meta.dlq = run[r].meta.dlq
               /\ op'[o].meta.replayOf = run[r].meta.replayOf
<1>1. PICK r \in Reviewable :
        op' = [op EXCEPT ![o] = [pc |-> "decide", run |-> r, meta |-> Parse(run[r].meta)]]
  BY DEF Review
<1>2. r \in Runs \ Legacy /\ run[r].state = "queued" /\ run[r].meta \in Meta
  BY DEF Reviewable, InState, TypeInv, TypeOK, Row
<1>3. /\ Parse(run[r].meta).dlq = run[r].meta.dlq
      /\ Parse(run[r].meta).replayOf = run[r].meta.replayOf
  BY <1>2 DEF Parse, Meta
<1>4. /\ op'[o].run = r /\ op'[o].meta = Parse(run[r].meta)
      /\ \A q \in Operators \ {o} : op'[q] = op[q]
  BY <1>1 DEF TypeInv, TypeOK
<1>5. QED
  BY <1>2, <1>3, <1>4 DEF Review

LEMMA DecideStep ==
  ASSUME TypeInv, ClaimInv, NEW o \in Operators, NEW r \in Runs, op[o].run = r,
         Approve(o) \/ Reject(o)
  PROVE  /\ UNCHANGED <<wk, rp, starts, lastStart, undone, root>>
         /\ op[o].pc = "decide" /\ op'[o] = IdleOperator
         /\ run[r].state = "queued" /\ Blocked(r)
         /\ run'[r].meta.dlq = op[o].meta.dlq
         /\ run'[r].meta.replayOf = op[o].meta.replayOf
         /\ \/ /\ run'[r].state = "queued" /\ run'[r].meta.approval = "approved"
               /\ granted' = granted \cup {root[r]}
            \/ /\ run'[r].state = "canceled" /\ run'[r].meta.approval = "rejected"
               /\ granted' = granted
         /\ \A q \in Runs \ {r} : run'[q] = run[q]
         /\ Undisturbed({}, {o}, {}) /\ SourcesKept
<1> DEFINE a == Approved(op[o].meta)
           d == Rejected(op[o].meta)
<1>1. /\ UNCHANGED <<wk, rp, starts, lastStart, undone, root>> /\ op[o].pc = "decide"
      /\ op' = [op EXCEPT ![o] = IdleOperator]
  BY DEF Approve, Reject, hist
<1>2. run[r].state = "queued" /\ Blocked(r) /\ op[o].meta \in Meta
  BY <1>1 DEF TypeInv, TypeOK, OperatorState, ClaimInv, DecisionSafe
<1>3. /\ a.dlq = op[o].meta.dlq /\ d.dlq = op[o].meta.dlq
      /\ a.replayOf = op[o].meta.replayOf /\ d.replayOf = op[o].meta.replayOf
      /\ a.approval = "approved" /\ d.approval = "rejected"
  BY <1>2 DEF Approved, Rejected, Meta
<1>4. \/ /\ run' = [run EXCEPT ![r] = [@ EXCEPT !.state = "queued", !.meta = a]]
         /\ granted' = granted \cup {root[r]}
      \/ /\ run' = [run EXCEPT ![r] = [@ EXCEPT !.state = "canceled", !.meta = d]]
         /\ granted' = granted
  BY DEF Approve, Reject, hist
<1> HIDE DEF a, d
<1>5. ASSUME NEW state, NEW m, run' = [run EXCEPT ![r] = [@ EXCEPT !.state = state, !.meta = m]]
      PROVE  run'[r].state = state /\ run'[r].meta = m /\ \A q \in Runs \ {r} : run'[q] = run[q]
  BY <1>5 DEF TypeInv, TypeOK, Row
<1>6. /\ \/ /\ run'[r].state = "queued" /\ run'[r].meta = a
            /\ granted' = granted \cup {root[r]}
         \/ run'[r].state = "canceled" /\ run'[r].meta = d /\ granted' = granted
      /\ \A q \in Runs \ {r} : run'[q] = run[q]
  BY <1>4, <1>5
<1>7. op'[o] = IdleOperator /\ \A q \in Operators \ {o} : op'[q] = op[q]
  BY <1>1 DEF TypeInv, TypeOK
<1>8. \A q \in Runs \ {r} : Kept(q)
  BY <1>1, <1>6 DEF Kept
<1>9. \A q \in Operators \ {o} : op[q].pc = "decide" => op[q].run # r
  BY <1>1 DEF ClaimInv, SerialReviews
<1>10. Undisturbed({}, {o}, {}) /\ SourcesKept
  BY <1>1, <1>2, <1>7, <1>8, <1>9, StepDisturbsNobody
<1>11. QED
  BY <1>1, <1>2, <1>3, <1>6, <1>7, <1>10

(* A replay call that goes on without writing: it takes up a source that is *)
(* at rest, keeps it, or is between two sources.                            *)
LEMMA ReplayLookStep ==
  ASSUME TypeInv, ClaimInv, NEW p \in Replayers,
         RequestReplay(p) \/ ReadSource(p) \/ CountActive(p)
  PROVE  /\ UNCHANGED <<run, wk, op, hist>>
         /\ \A q \in Replayers \ {p} : rp'[q] = rp[q]
         /\ \/ rp'[p].pc \in {"idle", "read"} /\ rp'[p].meta \in {NoMeta, rp[p].meta}
            \/ /\ rp[p].pc = "count" /\ rp'[p].src = rp[p].src
               /\ rp'[p].state = rp[p].state /\ rp'[p].meta = rp[p].meta
            \/ LET s == rp'[p].src
               IN /\ s \in Runs \ Legacy /\ run[s].state \in Terminal
                  /\ rp'[p].state = run[s].state
                  /\ rp'[p].meta.dlq = run[s].meta.dlq
                  /\ rp'[p].meta.approval = run[s].meta.approval
                  /\ rp'[p].meta.replayOf = run[s].meta.replayOf
<1>1. /\ UNCHANGED <<run, wk, op, hist>> /\ rp[p] \in ReplayState
      /\ rp \in [Replayers -> ReplayState]
  BY DEF RequestReplay, ReadSource, CountActive, TypeInv, TypeOK
<1>2. ASSUME NEW s, NextItem(p, s)
      PROVE  /\ \A q \in Replayers \ {p} : rp'[q] = rp[q]
             /\ rp'[p].pc \in {"idle", "read"} /\ rp'[p].meta = NoMeta
  BY <1>1, <1>2 DEF NextItem, IdleReplayer
<1>3. CASE RequestReplay(p)
  <2>1. PICK todo : rp' = [rp EXCEPT ![p] = [@ EXCEPT !.pc = "read", !.todo = todo]]
    BY <1>3 DEF RequestReplay
  <2>2. QED
    BY <1>1, <2>1 DEF ReplayState
<1>4. CASE ReadSource(p)
  <2>1. PICK s \in FirstOf(rp[p].todo) :
          \/ NextItem(p, s)
          \/ /\ ~(run[s].state \in Active \/ s \in Legacy)
             /\ rp' = [rp EXCEPT ![p] =
                        [@ EXCEPT !.pc = "count", !.src = s, !.state = run[s].state,
                                  !.meta = Parse(run[s].meta)]]
    BY <1>4 DEF ReadSource
  <2>2. CASE NextItem(p, s)
    BY <1>1, <1>2, <2>2
  <2>3. CASE /\ ~(run[s].state \in Active \/ s \in Legacy)
             /\ rp' = [rp EXCEPT ![p] =
                        [@ EXCEPT !.pc = "count", !.src = s, !.state = run[s].state,
                                  !.meta = Parse(run[s].meta)]]
    <3>1. s \in rp[p].todo /\ s \in Runs
      BY <1>1 DEF FirstOf, ReplayState
    <3>2. run[s].state \in Terminal /\ run[s].meta \in Meta
      BY <2>3, <3>1 DEF ClaimInv, SourceSafe, TypeInv, TypeOK, Row, States, Active, Terminal
    <3>3. /\ Parse(run[s].meta).dlq = run[s].meta.dlq
          /\ Parse(run[s].meta).approval = run[s].meta.approval
          /\ Parse(run[s].meta).replayOf = run[s].meta.replayOf
      BY <3>2 DEF Parse, Meta
    <3>4. /\ rp'[p].src = s /\ rp'[p].state = run[s].state
          /\ rp'[p].meta = Parse(run[s].meta)
          /\ \A q \in Replayers \ {p} : rp'[q] = rp[q]
      BY <1>1, <2>3 DEF ReplayState
    <3>5. QED
      BY <1>1, <2>3, <3>1, <3>2, <3>3, <3>4
  <2>4. QED
    BY <2>1, <2>2, <2>3
<1>5. CASE CountActive(p)
  <2>1. \/ NextItem(p, rp[p].src)
        \/ rp[p].pc = "count" /\ rp' = [rp EXCEPT ![p] = [@ EXCEPT !.pc = "create"]]
    BY <1>5 DEF CountActive
  <2>2. CASE NextItem(p, rp[p].src)
    BY <1>1, <1>2, <2>2
  <2>3. CASE rp[p].pc = "count" /\ rp' = [rp EXCEPT ![p] = [@ EXCEPT !.pc = "create"]]
    BY <1>1, <2>3 DEF ReplayState
  <2>4. QED
    BY <2>1, <2>2, <2>3
<1>6. QED
  BY <1>3, <1>4, <1>5

(* The replay is created, and a dead letter it was read from is retired.    *)
Creates(p, r, s) ==
  /\ UNCHANGED <<wk, op, starts, lastStart, undone, granted>>
  /\ rp[p].pc = "create" /\ rp[p].src = s /\ s # r
  /\ rp'[p].pc \in {"idle", "read"} /\ rp'[p].meta = NoMeta
  /\ run[r].state = "absent" /\ run[s].state \in Terminal
  /\ run'[r].state = "queued" /\ ~run'[r].meta.dlq
  /\ run'[r].meta.approval = rp[p].meta.approval
  /\ run'[r].meta.replayOf = s
  /\ root' = [root EXCEPT ![r] = root[s]]
  /\ \/ ~(rp[p].state = "failed" /\ rp[p].meta.dlq) /\ run'[s] = run[s]
     \/ /\ run'[s].state = "canceled" /\ ~run'[s].meta.dlq
        /\ run'[s].meta.approval = rp[p].meta.approval
        /\ run'[s].meta.replayOf = rp[p].meta.replayOf
  /\ \A q \in Runs \ {r, s} : run'[q] = run[q]
  /\ Undisturbed({}, {}, {p})

LEMMA CreateStep ==
  ASSUME TypeInv, ClaimInv, NEW p \in Replayers, CreateReplay(p)
  PROVE  \E r, s \in Runs : Creates(p, r, s)
<1>1. PICK s \in Runs : s = rp[p].src
  BY DEF CreateReplay, TypeInv, CallsOK
<1> DEFINE m == rp[p].meta
           copy == [state |-> "queued", target |-> run[s].target,
                    requestedAt |-> now, meta |-> ReplayMeta(m, s)]
           old == RetireSource(s, m)
<1>2. /\ run[s].state \in Terminal /\ m \in Meta /\ run \in [Runs -> Row]
      /\ rp[p].pc = "create" /\ UNCHANGED <<wk, op, starts, lastStart, undone, granted>>
  BY <1>1 DEF CreateReplay, TypeInv, TypeOK, ReplayState, ClaimInv, SourceSafe
<1>3. PICK r \in InState({"absent"}) :
         /\ root' = [root EXCEPT ![r] = root[s]]
         /\ \/ run' = [run EXCEPT ![r] = copy, ![s] = old]
            \/ ~(rp[p].state = "failed" /\ m.dlq) /\ run' = [run EXCEPT ![r] = copy]
  BY <1>1 DEF CreateReplay
<1>4. r \in Runs /\ run[r].state = "absent" /\ r # s
  BY <1>2 DEF InState, Terminal
<1>5. /\ copy.state = "queued" /\ copy.meta.dlq = FALSE
      /\ copy.meta.approval = m.approval /\ copy.meta.replayOf = s
  BY <1>2 DEF ReplayMeta, Meta
<1>6. /\ old.state = "canceled" /\ old.meta.dlq = FALSE
      /\ old.meta.approval = m.approval /\ old.meta.replayOf = m.replayOf
  <2> DEFINE x == [m EXCEPT !.dlq = FALSE, !.reason = "replayed", !.next = 0]
  <2>1. x.dlq = FALSE /\ x.approval = m.approval /\ x.replayOf = m.replayOf
    BY <1>2 DEF Meta
  <2>2. old = [run[s] EXCEPT !.state = "canceled", !.meta = x]
    BY DEF RetireSource
  <2> HIDE DEF x, old
  <2>3. old.state = "canceled" /\ old.meta = x
    BY <1>2, <2>2 DEF Row
  <2>4. QED
    BY <2>1, <2>3
<1> HIDE DEF copy, old
<1>7. /\ run'[r] = copy
      /\ \A q \in Runs \ {r, s} : run'[q] = run[q]
      /\ run'[s] = old \/ (~(rp[p].state = "failed" /\ m.dlq) /\ run'[s] = run[s])
  <2>1. CASE run' = [run EXCEPT ![r] = copy, ![s] = old]
    BY <1>2, <1>4, <2>1
  <2>2. CASE ~(rp[p].state = "failed" /\ m.dlq) /\ run' = [run EXCEPT ![r] = copy]
    BY <1>2, <1>4, <2>2
  <2>3. QED
    BY <1>3, <2>1, <2>2
<1>8. /\ rp'[p].pc \in {"idle", "read"} /\ rp'[p].meta = NoMeta
      /\ \A q \in Replayers \ {p} : rp'[q] = rp[q]
  BY DEF CreateReplay, NextItem, IdleReplayer, TypeInv, TypeOK
<1>9. \A q \in Runs \ {r, s} : Kept(q)
  BY <1>2, <1>3, <1>7 DEF Kept, TypeInv, TypeOK
<1>10. Undisturbed({}, {}, {p})
  <2>1. ASSUME NEW v \in Workers, wk[v].pc \in Holding
        PROVE  wk[v].run \in Runs \ {r, s}
    BY <1>2, <1>4, <2>1 DEF TypeInv, CallsOK, WorkerKnows, ClaimInv, WorkerSafe,
       Holding, Executing, Terminal
  <2>2. ASSUME NEW q \in Operators, op[q].pc = "decide"
        PROVE  op[q].run \in Runs \ {r, s}
    BY <1>2, <1>4, <2>2 DEF TypeInv, CallsOK, ClaimInv, DecisionSafe, Terminal
  <2>3. QED
    BY <1>2, <1>8, <1>9, <2>1, <2>2 DEF Undisturbed
<1>11. Creates(p, r, s)
  BY <1>1, <1>2, <1>3, <1>4, <1>5, <1>6, <1>7, <1>8, <1>10 DEF Creates
<1>12. QED
  BY <1>4, <1>11

(* Every step is one of the above, or leaves the queue as it is.            *)
LEMMA StepCases ==
  ASSUME TypeInv, ClaimInv, [SerialNext]_vars
  PROVE  \/ UNCHANGED <<run, wk, op, rp, hist>>
         \/ \E r \in Runs, t \in Targets, kind \in Catalog : Enqueue(r, t, kind)
         \/ \E w \in Workers : Scan(w) \/ LoseClaim(w) \/ Crash(w)
         \/ \E w \in Workers, r \in Runs :
              /\ wk[w].run = r
              /\ \/ Claim(w) \/ Load(w) \/ WriteBack(w)
                 \/ RunCommands(w) \/ RunCanary(w) \/ RunRollback(w)
         \/ \E o \in Operators : Review(o)
         \/ \E o \in Operators, r \in Runs : op[o].run = r /\ (Approve(o) \/ Reject(o))
         \/ \E p \in Replayers : RequestReplay(p) \/ ReadSource(p) \/ CountActive(p)
         \/ \E p \in Replayers, r, s \in Runs : Creates(p, r, s)
<1>1. CASE \E w \in Workers : WorkerStep(w) \/ Crash(w)
  <2>1. PICK w \in Workers : WorkerStep(w) \/ Crash(w)
    BY <1>1
  <2>2. CASE \/ Claim(w) \/ Load(w) \/ WriteBack(w)
             \/ RunCommands(w) \/ RunCanary(w) \/ RunRollback(w)
    <3>1. wk[w].run \in Runs
      BY <2>2 DEF TypeInv, CallsOK, WorkerKnows, Claim, Load, WriteBack,
                  RunCommands, RunCanary, RunRollback
    <3>2. QED
      BY <2>2, <3>1
  <2>3. QED
    BY <2>1, <2>2 DEF WorkerStep
<1>2. CASE \E o \in Operators : OperatorStep(o)
  <2>1. PICK o \in Operators : OperatorStep(o)
    BY <1>2
  <2>2. CASE Approve(o) \/ Reject(o)
    <3>1. op[o].run \in Runs
      BY <2>2 DEF TypeInv, CallsOK, Approve, Reject
    <3>2. QED
      BY <2>2, <3>1
  <2>3. QED
    BY <2>1, <2>2 DEF OperatorStep
<1>3. CASE \E p \in Replayers : ReplayStep(p)
  <2>1. PICK p \in Replayers : ReplayStep(p)
    BY <1>3
  <2>2. CASE CreateReplay(p)
    BY <2>2, CreateStep
  <2>3. QED
    BY <2>1, <2>2 DEF ReplayStep
<1>4. QED
  BY <1>1, <1>2, <1>3 DEF SerialNext, Next, Tick, vars

-----------------------------------------------------------------------------
(* The rollback                                                             *)

(* A rollback that was run is on the books of its run, which its worker is  *)
(* about to report as failed or has; a run that waits, succeeded or is at   *)
(* work before its report has none.                                         *)
RowUndone(r) ==
  /\ undone[r] <= 1
  /\ run[r].state \in {"absent", "queued", "succeeded"} => undone[r] = 0

WorkerUndone(w) ==
  LET r == wk[w].run
  IN /\ wk[w].pc \in {"load"} \cup Executing => undone[r] = 0
     /\ wk[w].pc = "write" /\ wk[w].to \in {"queued", "succeeded"} => undone[r] = 0

UndoInv ==
  /\ \A r \in Runs : RowUndone(r)
  /\ \A w \in Workers : WorkerUndone(w)

LEMMA InitUndo == Init => UndoInv
BY DEF Init, UndoInv, RowUndone, WorkerUndone, IdleWorker, Executing

LEMMA OthersUndone ==
  ASSUME UndoInv, NEW W, NEW O, NEW P, Undisturbed(W, O, P)
  PROVE  \A v \in Workers \ W : WorkerUndone(v)'
BY DEF UndoInv, Undisturbed, Kept, WorkerUndone, Holding

LEMMA DrainUndo ==
  ASSUME TypeInv, ClaimInv, UndoInv, NEW w \in Workers, NEW r \in Runs, wk[w].run = r,
         \/ Claim(w) \/ Load(w) \/ WriteBack(w)
         \/ RunCommands(w) \/ RunCanary(w) \/ RunRollback(w)
  PROVE  UndoInv'
<1>1. RowUndone(r) /\ WorkerUndone(w) /\ undone \in [Runs -> Nat]
  BY DEF UndoInv, TypeInv, TypeOK
<1>2. CASE Claim(w)
  <2>1. RowUndone(r)' /\ WorkerUndone(w)' /\ Undisturbed({w}, {}, {})
    BY <1>1, <1>2, ClaimStep DEF RowUndone, WorkerUndone, Executing, hist
  <2>2. UNCHANGED undone /\ \A q \in Runs \ {r} : run'[q] = run[q]
    BY <1>2, ClaimStep DEF hist
  <2>3. \A q \in Runs \ {r} : RowUndone(q)'
    BY <2>2 DEF UndoInv, RowUndone
  <2>4. QED
    BY <2>1, <2>3, OthersUndone DEF UndoInv
<1>3. CASE Load(w)
  <2>1. WorkerUndone(w)' /\ Undisturbed({w}, {}, {}) /\ UNCHANGED <<run, undone>>
    BY <1>1, <1>3, LoadStep DEF WorkerUndone
  <2>2. QED
    BY <2>1, OthersUndone DEF UndoInv, RowUndone
<1>4. CASE RunCommands(w) \/ RunCanary(w) \/ RunRollback(w)
  <2>1. /\ UNCHANGED run /\ undone[r] = 0 /\ run[r].state = "running"
        /\ Undisturbed({w}, {}, {})
        /\ wk'[w].run = r /\ wk'[w].pc \in {"canary", "rollback", "write"}
        /\ \/ undone' = undone
           \/ /\ undone' = [undone EXCEPT ![r] = @ + 1]
              /\ wk'[w].pc = "write" /\ wk'[w].to = "failed"
    BY <1>1, <1>4, AttemptStep DEF WorkerUndone, Continues
  <2>2. /\ \A q \in Runs \ {r} : undone'[q] = undone[q]
        /\ \/ undone'[r] = 0
           \/ undone'[r] = 1 /\ wk'[w].pc = "write" /\ wk'[w].to = "failed"
    BY <1>1, <2>1
  <2>3. WorkerUndone(w)' /\ \A q \in Runs : RowUndone(q)'
    BY <2>1, <2>2 DEF WorkerUndone, UndoInv, RowUndone, Executing
  <2>4. QED
    BY <2>1, <2>3, OthersUndone DEF UndoInv
<1>5. CASE WriteBack(w)
  <2>1. wk[w].to # "absent"
    BY <1>5 DEF WriteBack, TypeInv, CallsOK, WorkerKnows, Terminal
  <2>2. RowUndone(r)' /\ WorkerUndone(w)' /\ Undisturbed({w}, {}, {})
    BY <1>1, <1>5, <2>1, WriteStep DEF RowUndone, WorkerUndone, IdleWorker, Executing, hist
  <2>3. UNCHANGED undone /\ \A q \in Runs \ {r} : run'[q] = run[q]
    BY <1>5, WriteStep DEF hist
  <2>4. \A q \in Runs \ {r} : RowUndone(q)'
    BY <2>3 DEF UndoInv, RowUndone
  <2>5. QED
    BY <2>2, <2>4, OthersUndone DEF UndoInv
<1>6. QED
  BY <1>2, <1>3, <1>4, <1>5

LEMMA NextUndo ==
  TypeInv /\ ClaimInv /\ UndoInv /\ [SerialNext]_vars => UndoInv'
<1> SUFFICES ASSUME TypeInv, ClaimInv, UndoInv, [SerialNext]_vars PROVE UndoInv'
  OBVIOUS
<1>1. CASE \/ UNCHANGED <<run, wk, op, rp, hist>>
           \/ \E o \in Operators : Review(o)
           \/ \E p \in Replayers : RequestReplay(p) \/ ReadSource(p) \/ CountActive(p)
  <2>1. UNCHANGED <<run, wk, undone>>
    BY <1>1 DEF Review, RequestReplay, ReadSource, CountActive, hist
  <2>2. QED
    BY <2>1 DEF UndoInv, RowUndone, WorkerUndone
<1>2. ASSUME NEW r \in Runs, NEW t \in Targets, NEW kind \in Catalog, Enqueue(r, t, kind)
      PROVE  UndoInv'
  <2>1. \A q \in Runs : RowUndone(q)'
    BY <1>2, EnqueueStep DEF UndoInv, RowUndone, hist
  <2>2. Undisturbed({}, {}, {})
    BY <1>2, EnqueueStep
  <2>3. QED
    BY <2>1, <2>2, OthersUndone DEF UndoInv
<1>3. ASSUME NEW w \in Workers, Scan(w) \/ LoseClaim(w) \/ Crash(w)
      PROVE  UndoInv'
  BY <1>3, LookStep DEF UndoInv, RowUndone, WorkerUndone, Executing, hist
<1>4. ASSUME NEW o \in Operators, NEW r \in Runs, op[o].run = r, Approve(o) \/ Reject(o)
      PROVE  UndoInv'
  <2>1. \A q \in Runs : RowUndone(q)'
    BY <1>4, DecideStep DEF UndoInv, RowUndone
  <2>2. Undisturbed({}, {o}, {})
    BY <1>4, DecideStep
  <2>3. QED
    BY <2>1, <2>2, OthersUndone DEF UndoInv
<1>5. ASSUME NEW p \in Replayers, NEW r \in Runs, NEW s \in Runs, Creates(p, r, s)
      PROVE  UndoInv'
  <2>1. \A q \in Runs : RowUndone(q)'
    BY <1>5 DEF UndoInv, RowUndone, Creates, Terminal
  <2>2. QED
    BY <1>5, <2>1, OthersUndone DEF UndoInv, Creates
<1>6. QED
  BY <1>1, <1>2, <1>3, <1>4, <1>5, StepCases, DrainUndo

(* Whatever the drains, replays and crashes, the rollback of a run is run   *)
(* once at most, and the run is then neither tried again nor reported as a  *)
(* success; a replay does not run it again, since it copies the record.     *)
THEOREM RollbackIsLast == SerialSpec => []RollbackEndsRun
<1>1. TypeInv /\ UndoInv => RollbackEndsRun
  BY DEF TypeInv, TypeOK, UndoInv, RowUndone, RollbackEndsRun
<1>2. QED
  BY <1>1, InitUndo, NextUndo, SerialTypeInvariance, ClaimInvariance, PTL DEF SerialSpec

-----------------------------------------------------------------------------
(* The dead-letter flag                                                     *)

(* The flag is written with the state it belongs to: the payload a worker   *)
(* reports carries it exactly if the run is reported as failed, a payload   *)
(* that is worked on or decided about is without it, and a replay has read  *)
(* flag and state together.                                                 *)
RowFlag(r) == r \notin Legacy => (run[r].meta.dlq <=> run[r].state = "failed")

WorkerFlag(w) ==
  wk[w].run \notin Legacy =>
    /\ wk[w].pc \in Executing => ~wk[w].meta.dlq
    /\ wk[w].pc = "write" => (wk[w].meta.dlq <=> wk[w].to = "failed")

DecisionFlag(o) == op[o].pc = "decide" => ~op[o].meta.dlq

SourceFlag(p) ==
  rp[p].pc \in {"count", "create"} =>
    rp[p].src \notin Legacy /\ (rp[p].meta.dlq <=> rp[p].state = "failed")

FlagInv ==
  /\ \A r \in Runs : RowFlag(r)
  /\ \A w \in Workers : WorkerFlag(w)
  /\ \A o \in Operators : DecisionFlag(o)
  /\ \A p \in Replayers : SourceFlag(p)

LEMMA InitFlag == Init => FlagInv
BY DEF Init, FlagInv, RowFlag, WorkerFlag, DecisionFlag, SourceFlag, NoMeta,
       IdleWorker, IdleOperator, IdleReplayer, Executing

LEMMA OthersFlag ==
  ASSUME FlagInv, NEW W, NEW O, NEW P, Undisturbed(W, O, P)
  PROVE  /\ \A v \in Workers \ W : WorkerFlag(v)'
         /\ \A o \in Operators \ O : DecisionFlag(o)'
         /\ \A p \in Replayers \ P : SourceFlag(p)'
BY DEF FlagInv, Undisturbed, WorkerFlag, DecisionFlag, SourceFlag

LEMMA DrainFlag ==
  ASSUME TypeInv, ClaimInv, FlagInv, NEW w \in Workers, NEW r \in Runs, wk[w].run = r,
         \/ Claim(w) \/ Load(w) \/ WriteBack(w)
         \/ RunCommands(w) \/ RunCanary(w) \/ RunRollback(w)
  PROVE  FlagInv'
<1>1. RowFlag(r) /\ WorkerFlag(w)
  BY DEF FlagInv
<1>2. CASE Claim(w)
  <2>1. /\ WorkerFlag(w)' /\ Undisturbed({w}, {}, {})
        /\ \A q \in Runs \ {r} : run'[q] = run[q]
    BY <1>2, ClaimStep DEF WorkerFlag, Executing
  <2>2. RowFlag(r)'
    BY <1>1, <1>2, ClaimStep DEF RowFlag
  <2>3. \A q \in Runs : RowFlag(q)'
    BY <2>1, <2>2 DEF FlagInv, RowFlag
  <2>4. QED
    BY <2>1, <2>3, OthersFlag DEF FlagInv
<1>3. CASE Load(w)
  <2>1. WorkerFlag(w)'
    BY <1>1, <1>3, LoadStep DEF RowFlag, WorkerFlag, Executing
  <2>2. UNCHANGED run /\ Undisturbed({w}, {}, {})
    BY <1>3, LoadStep
  <2>3. QED
    BY <2>1, <2>2, OthersFlag DEF FlagInv, RowFlag
<1>4. CASE RunCommands(w) \/ RunCanary(w) \/ RunRollback(w)
  <2>1. /\ UNCHANGED run /\ Undisturbed({w}, {}, {}) /\ wk[w].pc \in Executing
        /\ wk'[w].run = r /\ wk'[w].pc \in {"canary", "rollback", "write"}
        /\ Outcome(w, wk[w].meta)
    BY <1>4, AttemptStep DEF Continues
  <2>2. WorkerFlag(w)'
    BY <1>1, <2>1 DEF WorkerFlag, Outcome, Executing
  <2>3. QED
    BY <2>1, <2>2, OthersFlag DEF FlagInv, RowFlag
<1>5. CASE WriteBack(w)
  <2>1. /\ WorkerFlag(w)' /\ Undisturbed({w}, {}, {})
        /\ \A q \in Runs \ {r} : run'[q] = run[q]
    BY <1>5, WriteStep DEF WorkerFlag, IdleWorker, Executing
  <2>2. RowFlag(r)'
    BY <1>1, <1>5, WriteStep DEF RowFlag, WorkerFlag
  <2>3. \A q \in Runs : RowFlag(q)'
    BY <2>1, <2>2 DEF FlagInv, RowFlag
  <2>4. QED
    BY <2>1, <2>3, OthersFlag DEF FlagInv
<1>6. QED
  BY <1>2, <1>3, <1>4, <1>5

LEMMA NextFlag ==
  TypeInv /\ ClaimInv /\ FlagInv /\ [SerialNext]_vars => FlagInv'
<1> SUFFICES ASSUME TypeInv, ClaimInv, FlagInv, [SerialNext]_vars PROVE FlagInv'
  OBVIOUS
<1>1. CASE UNCHANGED <<run, wk, op, rp, hist>>
  BY <1>1 DEF FlagInv, RowFlag, WorkerFlag, DecisionFlag, SourceFlag
<1>2. ASSUME NEW r \in Runs, NEW t \in Targets, NEW kind \in Catalog, Enqueue(r, t, kind)
      PROVE  FlagInv'
  <2>1. /\ Undisturbed({}, {}, {}) /\ \A q \in Runs \ {r} : run'[q] = run[q]
        /\ RowFlag(r)'
    BY <1>2, EnqueueStep DEF RowFlag
  <2>2. QED
    BY <2>1, OthersFlag DEF FlagInv, RowFlag
<1>3. ASSUME NEW w \in Workers, Scan(w) \/ LoseClaim(w) \/ Crash(w)
      PROVE  FlagInv'
  <2>1. WorkerFlag(w)'
    BY <1>3, LookStep DEF WorkerFlag, Executing
  <2>2. /\ UNCHANGED <<run, op, rp>> /\ \A v \in Workers \ {w} : wk'[v] = wk[v]
    BY <1>3, LookStep
  <2>3. QED
    BY <2>1, <2>2 DEF FlagInv, RowFlag, WorkerFlag, DecisionFlag, SourceFlag
<1>4. ASSUME NEW o \in Operators, Review(o) PROVE FlagInv'
  <2>1. DecisionFlag(o)'
    BY <1>4, ReviewStep DEF FlagInv, RowFlag, DecisionFlag
  <2>2. UNCHANGED <<run, wk, rp>> /\ \A q \in Operators \ {o} : op'[q] = op[q]
    BY <1>4, ReviewStep
  <2>3. QED
    BY <2>1, <2>2 DEF FlagInv, RowFlag, WorkerFlag, DecisionFlag, SourceFlag
<1>5. ASSUME NEW o \in Operators, NEW r \in Runs, op[o].run = r, Approve(o) \/ Reject(o)
      PROVE  FlagInv'
  <2>1. /\ Undisturbed({}, {o}, {}) /\ \A q \in Runs \ {r} : run'[q] = run[q]
        /\ DecisionFlag(o)'
    BY <1>5, DecideStep DEF DecisionFlag, IdleOperator
  <2>2. RowFlag(r)'
    BY <1>5, DecideStep DEF RowFlag, FlagInv, DecisionFlag
  <2>3. QED
    BY <2>1, <2>2, OthersFlag DEF FlagInv, RowFlag
<1>6. ASSUME NEW p \in Replayers, RequestReplay(p) \/ ReadSource(p) \/ CountActive(p)
      PROVE  FlagInv'
  <2>1. SourceFlag(p)'
    BY <1>6, ReplayLookStep DEF FlagInv, RowFlag, SourceFlag
  <2>2. UNCHANGED <<run, wk, op>> /\ \A q \in Replayers \ {p} : rp'[q] = rp[q]
    BY <1>6, ReplayLookStep
  <2>3. QED
    BY <2>1, <2>2 DEF FlagInv, RowFlag, WorkerFlag, DecisionFlag, SourceFlag
<1>7. ASSUME NEW p \in Replayers, NEW r \in Runs, NEW s \in Runs, Creates(p, r, s)
      PROVE  FlagInv'
  <2>1. SourceFlag(p)' /\ Undisturbed({}, {}, {p})
    BY <1>7 DEF Creates, SourceFlag
  <2>2. \A q \in Runs : RowFlag(q)'
    BY <1>7 DEF Creates, FlagInv, RowFlag
  <2>3. QED
    BY <2>1, <2>2, OthersFlag DEF FlagInv
<1>8. QED
  BY <1>1, <1>2, <1>3, <1>4, <1>5, <1>6, <1>7, StepCases, DrainFlag

LEMMA FlagInvariance == SerialSpec => []FlagInv
BY InitFlag, NextFlag, SerialTypeInvariance, ClaimInvariance, PTL DEF SerialSpec

(* The dead-letter queue holds the runs that failed with a payload and no   *)
(* others, so none of them is missed by a batch and none that waits is      *)
(* passed over by every claim.                                              *)
THEOREM DeadLettersAreFailures == SerialSpec => []DeadLetterShape
<1>1. FlagInv => DeadLetterShape
  BY DEF FlagInv, RowFlag, DeadLetterShape
<1>2. QED
  BY <1>1, FlagInvariance, PTL

-----------------------------------------------------------------------------
(* Approval                                                                 *)

(* A row says approved only after a decision about the run its replays go   *)
(* back to, and a run that was started does not wait for one: the verdict a *)
(* worker reports, and the one a replay copies, is still that of the row.   *)
RowGate(r) ==
  /\ run[r].meta.approval = "approved" => root[r] \in granted
  /\ starts[r] > 0 => ~ApprovalBlocks(run[r].meta)

WorkerGate(w) ==
  wk[w].pc \in Executing \cup {"write"} =>
    wk[w].meta.approval = run[wk[w].run].meta.approval

SourceGate(p) ==
  rp[p].pc \in {"count", "create"} =>
    rp[p].meta.approval = run[rp[p].src].meta.approval

GateInv ==
  /\ \A r \in Runs : RowGate(r)
  /\ \A w \in Workers : WorkerGate(w)
  /\ \A p \in Replayers : SourceGate(p)

LEMMA InitGate == Init => GateInv
BY DEF Init, GateInv, RowGate, WorkerGate, SourceGate, NoMeta, IdleWorker,
       IdleReplayer, Executing

LEMMA OthersGate ==
  ASSUME GateInv, NEW W, NEW O, NEW P, Undisturbed(W, O, P)
  PROVE  /\ \A v \in Workers \ W : WorkerGate(v)'
         /\ SourcesKept => \A p \in Replayers \ P : SourceGate(p)'
<1>1. ASSUME NEW v \in Workers \ W PROVE WorkerGate(v)'
  BY <1>1 DEF GateInv, WorkerGate, Undisturbed, Kept, Holding
<1>2. ASSUME SourcesKept, NEW p \in Replayers \ P PROVE SourceGate(p)'
  BY <1>2 DEF GateInv, SourceGate, Undisturbed, SourcesKept, Kept
<1>3. QED
  BY <1>1, <1>2

LEMMA DrainGate ==
  ASSUME TypeInv, ClaimInv, GateInv, NEW w \in Workers, NEW r \in Runs, wk[w].run = r,
         \/ Claim(w) \/ Load(w) \/ WriteBack(w)
         \/ RunCommands(w) \/ RunCanary(w) \/ RunRollback(w)
  PROVE  GateInv'
<1>1. RowGate(r) /\ WorkerGate(w) /\ starts \in [Runs -> Nat]
  BY DEF GateInv, TypeInv, TypeOK
<1>2. CASE Claim(w)
  <2>1. /\ UNCHANGED <<starts, root, granted>>
        /\ \A q \in Runs \ {r} : run'[q] = run[q]
        /\ run'[r].meta = run[r].meta
        /\ WorkerGate(w)' /\ Undisturbed({w}, {}, {}) /\ SourcesKept
    BY <1>2, ClaimStep DEF WorkerGate, Executing, hist
  <2>2. \A q \in Runs : RowGate(q)'
    <3>1. \A q \in Runs : run'[q].meta = run[q].meta
      BY <2>1
    <3>2. QED
      BY <2>1, <3>1 DEF GateInv, RowGate, ApprovalBlocks
  <2>3. QED
    BY <2>1, <2>2, OthersGate DEF GateInv
<1>3. CASE Load(w)
  <2>1. /\ UNCHANGED <<run, root, granted>>
        /\ wk'[w].run = r /\ wk'[w].meta.approval = run[r].meta.approval
        /\ starts' = starts \/ ( /\ starts' = [starts EXCEPT ![r] = @ + 1]
                                 /\ ~ApprovalBlocks(run[r].meta))
        /\ Undisturbed({w}, {}, {}) /\ SourcesKept
    BY <1>3, LoadStep
  <2>2. \A q \in Runs : RowGate(q)'
    BY <1>1, <2>1 DEF GateInv, RowGate, ApprovalBlocks
  <2>3. WorkerGate(w)'
    BY <2>1 DEF WorkerGate
  <2>4. QED
    BY <2>1, <2>2, <2>3, OthersGate DEF GateInv
<1>4. CASE RunCommands(w) \/ RunCanary(w) \/ RunRollback(w)
  <2>1. /\ UNCHANGED <<run, starts, root, granted>> /\ wk[w].pc \in Executing
        /\ wk'[w].run = r /\ wk'[w].meta.approval = wk[w].meta.approval
        /\ Undisturbed({w}, {}, {}) /\ SourcesKept
    BY <1>4, AttemptStep DEF Continues
  <2>2. WorkerGate(w)' /\ \A q \in Runs : RowGate(q)'
    BY <1>1, <2>1 DEF GateInv, RowGate, WorkerGate
  <2>3. QED
    BY <2>1, <2>2, OthersGate DEF GateInv
<1>5. CASE WriteBack(w)
  <2>1. /\ UNCHANGED <<starts, root, granted>>
        /\ wk[w].pc = "write" /\ run'[r].meta = wk[w].meta
        /\ \A q \in Runs \ {r} : run'[q] = run[q]
        /\ WorkerGate(w)' /\ Undisturbed({w}, {}, {}) /\ SourcesKept
    BY <1>5, WriteStep DEF WorkerGate, IdleWorker, Executing, hist
  <2>2. run'[r].meta.approval = run[r].meta.approval
    BY <1>1, <2>1 DEF WorkerGate
  <2>3. \A q \in Runs : RowGate(q)'
    <3>1. \A q \in Runs : run'[q].meta.approval = run[q].meta.approval
      BY <2>1, <2>2
    <3>2. QED
      BY <2>1, <3>1 DEF GateInv, RowGate, ApprovalBlocks
  <2>4. QED
    BY <2>1, <2>3, OthersGate DEF GateInv
<1>6. QED
  BY <1>2, <1>3, <1>4, <1>5

LEMMA CreateGate ==
  ASSUME TypeInv, ClaimInv, AttemptInv, GateInv,
         NEW p \in Replayers, NEW r \in Runs, NEW s \in Runs, Creates(p, r, s)
  PROVE  GateInv'
<1>1. /\ RowGate(s) /\ SourceGate(p) /\ starts[r] = 0
      /\ root \in [Runs -> Runs] /\ starts \in [Runs -> Nat]
  BY DEF GateInv, AttemptInv, RowCount, Creates, TypeInv, TypeOK
<1>2. rp[p].meta.approval = run[s].meta.approval
  BY <1>1 DEF SourceGate, Creates
<1>3. /\ \A q \in Runs \ {r} : /\ run'[q].meta.approval = run[q].meta.approval
                               /\ root'[q] = root[q]
      /\ run'[r].meta.approval = run[s].meta.approval /\ root'[r] = root[s]
      /\ UNCHANGED <<starts, granted>>
  BY <1>1, <1>2 DEF Creates
<1>4. RowGate(r)'
  BY <1>1, <1>3 DEF RowGate
<1>5. \A q \in Runs \ {r} : RowGate(q)'
  BY <1>3 DEF GateInv, RowGate, ApprovalBlocks
<1>6. \A v \in Workers : WorkerGate(v)'
  BY OthersGate DEF Creates
<1>7. ASSUME NEW q \in Replayers PROVE SourceGate(q)'
  <2>1. CASE q = p
    BY <2>1 DEF Creates, SourceGate
  <2>2. CASE q # p
    <3>1. rp'[q] = rp[q] /\ SourceGate(q)
      BY <2>2 DEF Creates, Undisturbed, GateInv
    <3>2. rp[q].pc \in {"count", "create"} => rp[q].src \in Runs \ {r}
      BY DEF TypeInv, CallsOK, ClaimInv, SourceSafe, Creates, Terminal
    <3>3. QED
      BY <1>3, <3>1, <3>2 DEF SourceGate
  <2>3. QED
    BY <2>1, <2>2
<1>8. QED
  BY <1>4, <1>5, <1>6, <1>7 DEF GateInv

LEMMA NextGate ==
  TypeInv /\ ClaimInv /\ AttemptInv /\ GateInv /\ [SerialNext]_vars => GateInv'
<1> SUFFICES ASSUME TypeInv, ClaimInv, AttemptInv, GateInv, [SerialNext]_vars
             PROVE  GateInv'
  OBVIOUS
<1>1. CASE UNCHANGED <<run, wk, op, rp, hist>>
  BY <1>1 DEF GateInv, RowGate, WorkerGate, SourceGate, hist
<1>2. ASSUME NEW r \in Runs, NEW t \in Targets, NEW kind \in Catalog, Enqueue(r, t, kind)
      PROVE  GateInv'
  <2>1. /\ Undisturbed({}, {}, {}) /\ SourcesKept
        /\ \A q \in Runs \ {r} : run'[q] = run[q]
        /\ UNCHANGED <<starts, root, granted>>
    BY <1>2, EnqueueStep DEF hist
  <2>2. RowGate(r)'
    <3>1. starts[r] = 0 /\ run'[r].meta.approval \in {"none", "pending"}
      BY <1>2, EnqueueStep DEF AttemptInv, RowCount
    <3>2. QED
      BY <2>1, <3>1 DEF RowGate
  <2>3. \A q \in Runs : RowGate(q)'
    BY <2>1, <2>2 DEF GateInv, RowGate
  <2>4. QED
    BY <2>1, <2>3, OthersGate DEF GateInv
<1>3. ASSUME NEW w \in Workers, Scan(w) \/ LoseClaim(w) \/ Crash(w)
      PROVE  GateInv'
  <2>1. WorkerGate(w)'
    BY <1>3, LookStep DEF WorkerGate, Executing
  <2>2. /\ UNCHANGED <<run, rp, hist>> /\ \A v \in Workers \ {w} : wk'[v] = wk[v]
    BY <1>3, LookStep
  <2>3. QED
    BY <2>1, <2>2 DEF GateInv, RowGate, WorkerGate, SourceGate, hist
<1>4. ASSUME NEW o \in Operators, Review(o) PROVE GateInv'
  BY <1>4 DEF Review, GateInv, RowGate, WorkerGate, SourceGate, hist
<1>5. ASSUME NEW o \in Operators, NEW r \in Runs, op[o].run = r, Approve(o) \/ Reject(o)
      PROVE  GateInv'
  <2>1. /\ Undisturbed({}, {o}, {}) /\ SourcesKept
        /\ \A q \in Runs \ {r} : run'[q] = run[q]
        /\ UNCHANGED <<starts, root>> /\ granted \subseteq granted'
        /\ \/ run'[r].meta.approval = "approved" /\ root[r] \in granted'
           \/ run'[r].meta.approval = "rejected"
        /\ ApprovalBlocks(run[r].meta)
    BY <1>5, DecideStep DEF Blocked
  <2>2. RowGate(r)'
    BY <2>1 DEF GateInv, RowGate
  <2>3. \A q \in Runs \ {r} : RowGate(q)'
    BY <2>1 DEF GateInv, RowGate
  <2>4. QED
    BY <2>1, <2>2, <2>3, OthersGate DEF GateInv
<1>6. ASSUME NEW p \in Replayers, RequestReplay(p) \/ ReadSource(p) \/ CountActive(p)
      PROVE  GateInv'
  <2>1. SourceGate(p)'
    BY <1>6, ReplayLookStep DEF GateInv, SourceGate
  <2>2. UNCHANGED <<run, wk, hist>> /\ \A q \in Replayers \ {p} : rp'[q] = rp[q]
    BY <1>6, ReplayLookStep
  <2>3. QED
    BY <2>1, <2>2 DEF GateInv, RowGate, WorkerGate, SourceGate, hist
<1>7. QED
  BY <1>1, <1>2, <1>3, <1>4, <1>5, <1>6, StepCases, DrainGate, CreateGate

LEMMA GateInvariance == SerialSpec => []GateInv
BY InitGate, NextGate, SerialTypeInvariance, ClaimInvariance, AttemptInvariance,
   PTL DEF SerialSpec

(* No interleaving of claims, decisions, replays and crashes starts a run   *)
(* that asked for approval before an operator has approved it, or the run   *)
(* it goes back to.                                                         *)
THEOREM ApprovalIsRespected == SerialSpec => []ApprovalGate
<1>1. TypeInv /\ GateInv => ApprovalGate
  BY DEF TypeInv, TypeOK, Row, Meta, Approvals, GateInv, RowGate, ApprovalBlocks,
         ApprovalGate
<1>2. QED
  BY <1>1, GateInvariance, SerialTypeInvariance, PTL

-----------------------------------------------------------------------------
(* Replays and their sources                                                *)

(* Every payload, wherever it is held, names as the source of a replay a    *)
(* run that is over for good.                                               *)
Settled == {q \in Runs : run[q].state \in {"succeeded", "canceled"}}

Traced(m) == m.replayOf \in Settled \cup {None}

TraceInv ==
  /\ \A r \in Runs : Traced(run[r].meta)
  /\ \A w \in Workers : Traced(wk[w].meta)
  /\ \A o \in Operators : Traced(op[o].meta)
  /\ \A p \in Replayers : Traced(rp[p].meta)

LEMMA InitTrace == Init => TraceInv
BY DEF Init, TraceInv, Traced, NoMeta, IdleWorker, IdleOperator, IdleReplayer

LEMMA SettledForGood ==
  ASSUME TypeInv, ClaimInv, [SerialNext]_vars PROVE Settled \subseteq Settled'
<1>1. CASE UNCHANGED vars
  BY <1>1 DEF vars, Settled
<1>2. CASE SerialNext
  BY <1>2, TerminalKept DEF Settled, Terminal
<1>3. QED
  BY <1>1, <1>2


LEMMA DrainTrace ==
  ASSUME TypeInv, ClaimInv, TraceInv, NEW w \in Workers, NEW r \in Runs, wk[w].run = r,
         Settled \subseteq Settled',
         \/ Claim(w) \/ Load(w) \/ WriteBack(w)
         \/ RunCommands(w) \/ RunCanary(w) \/ RunRollback(w)
  PROVE  TraceInv'
<1>1. Traced(run[r].meta) /\ Traced(wk[w].meta)
  BY DEF TraceInv
<1>2. /\ UNCHANGED <<op, rp>> /\ \A q \in Runs \ {r} : run'[q] = run[q]
      /\ run'[r].meta.replayOf \in {run[r].meta.replayOf, wk[w].meta.replayOf}
      /\ wk'[w].meta.replayOf \in {None, run[r].meta.replayOf, wk[w].meta.replayOf}
      /\ \A v \in Workers \ {w} : wk'[v] = wk[v]
  <2>1. CASE Claim(w)
    BY <2>1, ClaimStep DEF Undisturbed
  <2>2. CASE Load(w)
    BY <2>2, LoadStep DEF Undisturbed
  <2>3. CASE RunCommands(w) \/ RunCanary(w) \/ RunRollback(w)
    BY <2>3, AttemptStep DEF Undisturbed, Outcome
  <2>4. CASE WriteBack(w)
    BY <2>4, WriteStep DEF Undisturbed, IdleWorker, NoMeta
  <2>5. QED
    BY <2>1, <2>2, <2>3, <2>4
<1>3. QED
  BY <1>1, <1>2 DEF TraceInv, Traced

LEMMA CreateTrace ==
  ASSUME TypeInv, ClaimInv, SourceInv, FlagInv, TraceInv, Settled \subseteq Settled',
         NEW p \in Replayers, NEW r \in Runs, NEW s \in Runs, Creates(p, r, s)
  PROVE  TraceInv'
<1>1. /\ run[s].state \in Terminal /\ run[s].state \in {rp[p].state, "canceled"}
      /\ rp[p].meta.dlq <=> rp[p].state = "failed"
      /\ Traced(rp[p].meta) /\ Traced(run[s].meta)
  BY DEF Creates, SourceInv, FlagInv, SourceFlag, TraceInv
<1>2. s \in Settled'
  BY <1>1 DEF Creates, Settled, Terminal
<1>3. run'[r].meta.replayOf = s
  BY DEF Creates
<1>4. run'[s].meta.replayOf \in {run[s].meta.replayOf, rp[p].meta.replayOf}
  BY DEF Creates
<1>5. \A q \in Runs : Traced(run[q].meta)'
  BY <1>1, <1>2, <1>3, <1>4 DEF Creates, TraceInv, Traced
<1>6. /\ UNCHANGED <<wk, op>> /\ rp'[p].meta = NoMeta
      /\ \A q \in Replayers \ {p} : rp'[q] = rp[q]
  BY DEF Creates, Undisturbed
<1>7. QED
  BY <1>5, <1>6 DEF TraceInv, Traced, NoMeta

LEMMA NextTrace ==
  /\ TypeInv /\ ClaimInv /\ SourceInv /\ FlagInv
  /\ TraceInv /\ [SerialNext]_vars
  => TraceInv'
<1> SUFFICES ASSUME TypeInv, ClaimInv, SourceInv, FlagInv, TraceInv, [SerialNext]_vars
             PROVE  TraceInv'
  OBVIOUS
<1>1. Settled \subseteq Settled'
  BY SettledForGood
<1>2. CASE UNCHANGED <<run, wk, op, rp, hist>>
  BY <1>1, <1>2 DEF TraceInv, Traced
<1>3. ASSUME NEW r \in Runs, NEW t \in Targets, NEW kind \in Catalog, Enqueue(r, t, kind)
      PROVE  TraceInv'
  <2>1. /\ UNCHANGED <<wk, op, rp>> /\ run'[r].meta.replayOf = None
        /\ \A q \in Runs \ {r} : run'[q] = run[q]
    BY <1>3, EnqueueStep
  <2>2. QED
    BY <1>1, <2>1 DEF TraceInv, Traced
<1>4. ASSUME NEW w \in Workers, Scan(w) \/ LoseClaim(w) \/ Crash(w)
      PROVE  TraceInv'
  <2>1. /\ UNCHANGED <<run, op, rp>> /\ wk'[w].meta \in {NoMeta, wk[w].meta}
        /\ \A v \in Workers \ {w} : wk'[v] = wk[v]
    BY <1>4, LookStep
  <2>2. Traced(wk[w].meta)'
    BY <1>1, <2>1 DEF TraceInv, Traced, NoMeta
  <2>3. QED
    BY <1>1, <2>1, <2>2 DEF TraceInv, Traced
<1>5. ASSUME NEW o \in Operators, Review(o) PROVE TraceInv'
  <2>1. /\ UNCHANGED <<run, wk, rp>> /\ \A q \in Operators \ {o} : op'[q] = op[q]
        /\ op'[o].run \in Runs
        /\ op'[o].meta.replayOf = run[op'[o].run].meta.replayOf
    BY <1>5, ReviewStep
  <2>2. QED
    BY <1>1, <2>1 DEF TraceInv, Traced
<1>6. ASSUME NEW o \in Operators, NEW r \in Runs, op[o].run = r, Approve(o) \/ Reject(o)
      PROVE  TraceInv'
  <2>1. /\ UNCHANGED <<wk, rp>> /\ op'[o].meta = NoMeta
        /\ \A q \in Operators \ {o} : op'[q] = op[q]
        /\ run'[r].meta.replayOf = op[o].meta.replayOf
        /\ \A q \in Runs \ {r} : run'[q] = run[q]
    BY <1>6, DecideStep DEF Undisturbed, IdleOperator
  <2>2. QED
    BY <1>1, <2>1 DEF TraceInv, Traced, NoMeta
<1>7. ASSUME NEW p \in Replayers, RequestReplay(p) \/ ReadSource(p) \/ CountActive(p)
      PROVE  TraceInv'
  <2>1. UNCHANGED <<run, wk, op>> /\ \A q \in Replayers \ {p} : rp'[q] = rp[q]
    BY <1>7, ReplayLookStep
  <2>2. \/ rp'[p].meta \in {NoMeta, rp[p].meta}
        \/ \E s \in Runs : rp'[p].meta.replayOf = run[s].meta.replayOf
    BY <1>7, ReplayLookStep
  <2>3. Traced(rp[p].meta)'
    BY <1>1, <2>1, <2>2 DEF TraceInv, Traced, NoMeta
  <2>4. QED
    BY <1>1, <2>1, <2>3 DEF TraceInv, Traced
<1>8. QED
  BY <1>1, <1>2, <1>3, <1>4, <1>5, <1>6, <1>7, StepCases, DrainTrace, CreateTrace

(* A dead letter leaves its queue with its replay, although its row is      *)
(* written from what the replay call had read: no later batch finds it      *)
(* there again.                                                             *)
THEOREM ReplayedLettersLeave == SerialSpec => []ReplayRetiresSource
<1>1. TraceInv => ReplayRetiresSource
  BY DEF TraceInv, Traced, Settled, ReplayRetiresSource, DeadLetters, InState
<1>2. QED
  BY <1>1, InitTrace, NextTrace, FlagInvariance, SourceInvariance,
     SerialTypeInvariance, ClaimInvariance, PTL DEF SerialSpec

-----------------------------------------------------------------------------
(* The delay between two attempts                                           *)

(* The instant before which run r may not be started again.                 *)
NotBefore(r) == lastStart[r] + Backoff[starts[r]]

(* A run that was tried and waits is not due before that; a worker at it    *)
(* remembers when it was started, and puts it back with the delay counted   *)
(* from there.                                                              *)
RowDelay(r) ==
  run[r].state = "queued" /\ starts[r] > 0 => run[r].meta.next >= NotBefore(r)

WorkerDelay(w) ==
  LET r == wk[w].run
  IN /\ wk[w].pc = "load" /\ starts[r] > 0 => run[r].meta.next >= NotBefore(r)
     /\ wk[w].pc \in Executing => wk[w].at = lastStart[r]
     /\ wk[w].pc = "write" /\ wk[w].to = "queued" /\ starts[r] > 0
          => wk[w].meta.next >= NotBefore(r)

DelayInv ==
  /\ \A r \in Runs : RowDelay(r)
  /\ \A w \in Workers : WorkerDelay(w)

LEMMA NotBeforeType ==
  ASSUME TypeInv, NEW r \in Runs, starts[r] \in 1..MaxAttempts
  PROVE  NotBefore(r) \in Nat
<1>1. Backoff \in [1..MaxAttempts -> Nat \ {0}] /\ lastStart[r] \in Nat
  BY QueueAssumption DEF TypeInv, TypeOK
<1>2. Backoff[starts[r]] \in Nat
  BY <1>1
<1>3. QED
  BY <1>1, <1>2 DEF NotBefore

LEMMA InitDelay == Init => DelayInv
BY DEF Init, DelayInv, RowDelay, WorkerDelay, IdleWorker, Executing

LEMMA OthersDelay ==
  ASSUME DelayInv, NEW W, NEW O, NEW P, Undisturbed(W, O, P)
  PROVE  \A v \in Workers \ W : WorkerDelay(v)'
BY DEF DelayInv, Undisturbed, Kept, WorkerDelay, NotBefore, Holding

LEMMA DrainDelay ==
  ASSUME TypeInv, ClaimInv, FlagInv, GateInv, AttemptInv', DelayInv,
         NEW w \in Workers, NEW r \in Runs, wk[w].run = r,
         \/ Claim(w) \/ Load(w) \/ WriteBack(w)
         \/ RunCommands(w) \/ RunCanary(w) \/ RunRollback(w)
  PROVE  DelayInv'
<1>1. /\ RowDelay(r) /\ WorkerDelay(w)
      /\ starts \in [Runs -> Nat] /\ lastStart \in [Runs -> Nat]
  BY DEF DelayInv, TypeInv, TypeOK
<1>2. CASE Claim(w)
  <2>1. /\ UNCHANGED <<starts, lastStart>>
        /\ \A q \in Runs \ {r} : run'[q] = run[q]
        /\ run[r].state = "queued" /\ run'[r].state = "running"
        /\ run'[r].meta = run[r].meta
        /\ wk'[w].pc = "load" /\ wk'[w].run = r
        /\ Undisturbed({w}, {}, {})
    BY <1>2, ClaimStep DEF hist
  <2>2. WorkerDelay(w)'
    BY <1>1, <2>1 DEF RowDelay, WorkerDelay, NotBefore, Executing
  <2>3. \A q \in Runs : RowDelay(q)'
    BY <2>1 DEF DelayInv, RowDelay, NotBefore
  <2>4. QED
    BY <2>1, <2>2, <2>3, OthersDelay DEF DelayInv
<1>3. CASE Load(w)
  <2>1. /\ UNCHANGED run /\ run[r].state = "running" /\ wk[w].pc = "load"
        /\ wk'[w].run = r /\ Undisturbed({w}, {}, {})
        /\ \A q \in Runs \ {r} : starts'[q] = starts[q] /\ lastStart'[q] = lastStart[q]
    BY <1>1, <1>3, LoadStep
  <2>2. \A q \in Runs : RowDelay(q)'
    BY <2>1 DEF DelayInv, RowDelay, NotBefore
  <2>3. r \notin Legacy => ~run[r].meta.dlq
    BY <2>1 DEF FlagInv, RowFlag
  <2>4. starts[r] > 0 => ~ApprovalBlocks(run[r].meta)
    BY DEF GateInv, RowGate
  <2>5. \/ /\ wk'[w].pc = "commands" /\ wk'[w].at = now
           /\ lastStart' = [lastStart EXCEPT ![r] = now]
        \/ /\ wk'[w].pc = "write" /\ UNCHANGED <<starts, lastStart>>
           /\ wk'[w].to = "queued" /\ starts[r] > 0 =>
                wk'[w].meta.next = run[r].meta.next
    BY <1>3, <2>3, <2>4, LoadStep
  <2>6. WorkerDelay(w)'
    <3>1. CASE /\ wk'[w].pc = "commands" /\ wk'[w].at = now
               /\ lastStart' = [lastStart EXCEPT ![r] = now]
      BY <1>1, <2>1, <3>1 DEF WorkerDelay, Executing
    <3>2. CASE /\ wk'[w].pc = "write" /\ UNCHANGED <<starts, lastStart>>
               /\ wk'[w].to = "queued" /\ starts[r] > 0 =>
                    wk'[w].meta.next = run[r].meta.next
      BY <1>1, <2>1, <3>2 DEF WorkerDelay, NotBefore, Executing
    <3>3. QED
      BY <2>5, <3>1, <3>2
  <2>7. QED
    BY <2>1, <2>2, <2>6, OthersDelay DEF DelayInv
<1>4. CASE RunCommands(w) \/ RunCanary(w) \/ RunRollback(w)
  <2>1. /\ UNCHANGED <<run, starts, lastStart>> /\ wk[w].pc \in Executing
        /\ wk'[w].run = r /\ wk'[w].pc \in {"canary", "rollback", "write"}
        /\ Outcome(w, wk[w].meta) /\ Undisturbed({w}, {}, {})
    BY <1>4, AttemptStep DEF Continues
  <2>2. wk'[w].at = lastStart[r]
    BY <1>1, <2>1 DEF WorkerDelay, Outcome
  <2>3. wk'[w].meta.attempts = starts[r]
    BY <2>1 DEF AttemptInv, WorkerCount
  <2>4. wk'[w].pc = "write" /\ wk'[w].to = "queued" => wk'[w].meta.next = NotBefore(r)
    BY <1>1, <2>1, <2>2, <2>3 DEF Outcome, WorkerDelay, NotBefore
  <2>5. /\ NotBefore(r)' = NotBefore(r)
        /\ starts[r] > 0 => NotBefore(r) \in Nat
    <3>1. starts[r] <= MaxAttempts
      BY <2>1 DEF AttemptInv, RowCount
    <3>2. QED
      BY <1>1, <2>1, <3>1, NotBeforeType, QueueAssumption DEF NotBefore
  <2>6. WorkerDelay(w)'
    BY <2>1, <2>2, <2>4, <2>5 DEF WorkerDelay, Executing
  <2>7. \A q \in Runs : RowDelay(q)'
    BY <2>1 DEF DelayInv, RowDelay, NotBefore
  <2>8. QED
    BY <2>1, <2>6, <2>7, OthersDelay DEF DelayInv
<1>5. CASE WriteBack(w)
  <2>1. /\ UNCHANGED <<starts, lastStart>>
        /\ \A q \in Runs \ {r} : run'[q] = run[q]
        /\ wk[w].pc = "write" /\ wk'[w] = IdleWorker
        /\ run'[r].state = wk[w].to /\ run'[r].meta = wk[w].meta
        /\ Undisturbed({w}, {}, {})
    BY <1>5, WriteStep DEF hist
  <2>2. WorkerDelay(w)'
    BY <2>1 DEF WorkerDelay, IdleWorker, Executing
  <2>3. \A q \in Runs : RowDelay(q)'
    BY <1>1, <2>1 DEF DelayInv, RowDelay, WorkerDelay, NotBefore
  <2>4. QED
    BY <2>1, <2>2, <2>3, OthersDelay DEF DelayInv
<1>6. QED
  BY <1>2, <1>3, <1>4, <1>5

LEMMA NextDelay ==
  /\ TypeInv /\ ClaimInv /\ FlagInv /\ GateInv /\ AttemptInv /\ AttemptInv'
  /\ DelayInv /\ [SerialNext]_vars
  => DelayInv'
<1> SUFFICES ASSUME TypeInv, ClaimInv, FlagInv, GateInv, AttemptInv, AttemptInv',
                    DelayInv, [SerialNext]_vars
             PROVE  DelayInv'
  OBVIOUS
<1>1. CASE \/ UNCHANGED <<run, wk, op, rp, hist>>
           \/ \E o \in Operators : Review(o)
           \/ \E p \in Replayers : RequestReplay(p) \/ ReadSource(p) \/ CountActive(p)
  <2>1. UNCHANGED <<run, wk, starts, lastStart>>
    BY <1>1 DEF Review, RequestReplay, ReadSource, CountActive, hist
  <2>2. QED
    BY <2>1 DEF DelayInv, RowDelay, WorkerDelay, NotBefore
<1>2. ASSUME NEW r \in Runs, NEW t \in Targets, NEW kind \in Catalog, Enqueue(r, t, kind)
      PROVE  DelayInv'
  <2>1. /\ Undisturbed({}, {}, {}) /\ UNCHANGED <<starts, lastStart>>
        /\ \A q \in Runs \ {r} : run'[q] = run[q]
        /\ starts[r] = 0
    BY <1>2, EnqueueStep DEF hist, AttemptInv, RowCount
  <2>2. QED
    BY <2>1, OthersDelay DEF DelayInv, RowDelay, NotBefore
<1>3. ASSUME NEW w \in Workers, Scan(w) \/ LoseClaim(w) \/ Crash(w)
      PROVE  DelayInv'
  <2>1. /\ UNCHANGED <<run, starts, lastStart>> /\ wk'[w].pc \in {"idle", "scan", "claim"}
        /\ \A v \in Workers \ {w} : wk'[v] = wk[v]
    BY <1>3, LookStep DEF hist
  <2>2. QED
    BY <2>1 DEF DelayInv, RowDelay, WorkerDelay, NotBefore, Executing
<1>4. ASSUME NEW o \in Operators, NEW r \in Runs, op[o].run = r, Approve(o) \/ Reject(o)
      PROVE  DelayInv'
  <2>1. /\ Undisturbed({}, {o}, {}) /\ UNCHANGED <<starts, lastStart>>
        /\ \A q \in Runs \ {r} : run'[q] = run[q]
        /\ ApprovalBlocks(run[r].meta)
    BY <1>4, DecideStep DEF Blocked
  <2>2. ~(starts[r] > 0)
    BY <2>1 DEF GateInv, RowGate
  <2>3. QED
    BY <2>1, <2>2, OthersDelay DEF DelayInv, RowDelay, NotBefore
<1>5. ASSUME NEW p \in Replayers, NEW r \in Runs, NEW s \in Runs, Creates(p, r, s)
      PROVE  DelayInv'
  <2>1. /\ Undisturbed({}, {}, {p}) /\ UNCHANGED <<starts, lastStart>>
        /\ starts[r] = 0
        /\ run'[s] = run[s] \/ run'[s].state = "canceled"
        /\ \A q \in Runs \ {r, s} : run'[q] = run[q]
    BY <1>5 DEF Creates, AttemptInv, RowCount
  <2>2. QED
    BY <2>1, OthersDelay DEF DelayInv, RowDelay, NotBefore
<1>6. QED
  BY <1>1, <1>2, <1>3, <1>4, <1>5, StepCases, DrainDelay

(* Only the reading of a claimed row starts a run.                          *)
LEMMA StartsWhenDue ==
  ASSUME TypeInv, ClaimInv, DelayInv, [SerialNext]_vars,
         NEW r \in Runs, starts'[r] > starts[r], starts[r] \in 1..MaxAttempts
  PROVE  now >= NotBefore(r)
<1>1. /\ run \in [Runs -> Row] /\ now \in Nat
      /\ starts \in [Runs -> Nat] /\ lastStart \in [Runs -> Nat]
  BY DEF TypeInv, TypeOK
<1>2. PICK w \in Workers, q \in Runs : wk[w].run = q /\ Load(w)
  <2>1. starts' # starts
    BY <1>1
  <2>2. ~ \E w \in Workers : Scan(w) \/ LoseClaim(w) \/ Crash(w)
    BY <2>1, LookStep DEF hist
  <2>3. \A w \in Workers : ~Claim(w) /\ ~WriteBack(w) /\ ~RunCommands(w)
                           /\ ~RunCanary(w) /\ ~RunRollback(w)
    BY <2>1 DEF Claim, WriteBack, RunCommands, RunCanary, RunRollback, hist
  <2>4. \A o \in Operators : ~Review(o) /\ ~Approve(o) /\ ~Reject(o)
    BY <2>1 DEF Review, Approve, Reject, hist
  <2>5. \A p \in Replayers : ~RequestReplay(p) /\ ~ReadSource(p) /\ ~CountActive(p)
    BY <2>1 DEF RequestReplay, ReadSource, CountActive, hist
  <2>6. /\ \A p \in Replayers, q, s \in Runs : ~Creates(p, q, s)
        /\ \A q \in Runs, t \in Targets, kind \in Catalog : ~Enqueue(q, t, kind)
    BY <2>1 DEF Creates, Enqueue, hist
  <2>7. QED
    BY <2>1, <2>2, <2>3, <2>4, <2>5, <2>6, StepCases DEF hist
<1>3. /\ wk[w].pc = "load"
      /\ \/ UNCHANGED starts
         \/ starts' = [starts EXCEPT ![q] = @ + 1] /\ run[q].meta.next <= now
  BY <1>2, LoadStep
<1>4. q = r /\ run[r].meta.next <= now
  BY <1>1, <1>3
<1>5. run[r].meta.next >= NotBefore(r)
  BY <1>2, <1>3, <1>4 DEF DelayInv, WorkerDelay
<1>6. run[r].meta.next \in Nat
  BY <1>1 DEF Row, Meta
<1>7. NotBefore(r) \in Nat
  BY NotBeforeType
<1>8. QED
  BY <1>1, <1>4, <1>5, <1>6, <1>7

LEMMA DelayInvariance == SerialSpec => []DelayInv
BY InitDelay, NextDelay, FlagInvariance, GateInvariance, AttemptInvariance,
   SerialTypeInvariance, ClaimInvariance, PTL DEF SerialSpec

(* A run is not started again before the delay of its earlier attempt has   *)
(* passed, although its worker claimed it from a list read before the retry *)
(* was scheduled: the row is judged again once it is claimed.               *)
THEOREM RetriesWait == SerialSpec => BackoffRespected
<1>1. TypeInv /\ ClaimInv /\ DelayInv /\ [SerialNext]_vars
        => [\A r \in Runs : starts'[r] > starts[r] /\ starts[r] \in 1..MaxAttempts
              => now >= lastStart[r] + Backoff[starts[r]]]_vars
  BY StartsWhenDue DEF NotBefore
<1>2. QED
  BY <1>1, DelayInvariance, SerialTypeInvariance, ClaimInvariance, PTL
     DEF SerialSpec, BackoffRespected
=============================================================================
