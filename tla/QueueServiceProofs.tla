------------------------- MODULE QueueServiceProofs -------------------------
(* Theorems about QueueService, for any number of runs and operators and    *)
(* any caps, pauses and limits; and, in the last part, about Counterstrike, *)
(* for any number of requests and of polls.                                 *)
EXTENDS QueueService, Counterstrike, FiniteSetTheorems, TLAPS

-----------------------------------------------------------------------------
(* The smaller of two numbers, and the pauses                               *)

Least(a, b) == Min({a, b})

LEMMA LeastOfTwo ==
  \A a, b \in Int : Least(a, b) = IF a <= b THEN a ELSE b
<1> SUFFICES ASSUME NEW a \in Int, NEW b \in Int
             PROVE  Least(a, b) = IF a <= b THEN a ELSE b
  OBVIOUS
<1>1. \E x \in {a, b} : \A y \in {a, b} : x <= y
  OBVIOUS
<1>2. Min({a, b}) \in {a, b} /\ \A y \in {a, b} : Min({a, b}) <= y
  BY <1>1 DEF Min
<1>3. QED
  BY <1>2 DEF Least

LeastOf(a, b, c) == Min({a, b, c})

LEMMA LeastOfThree ==
  \A a, b, c \in Int :
    LeastOf(a, b, c) \in {a, b, c} /\ LeastOf(a, b, c) <= a /\ LeastOf(a, b, c) <= b
<1> SUFFICES ASSUME NEW a \in Int, NEW b \in Int, NEW c \in Int
             PROVE  /\ LeastOf(a, b, c) \in {a, b, c}
                    /\ LeastOf(a, b, c) <= a /\ LeastOf(a, b, c) <= b
  OBVIOUS
<1>1. \E x \in {a, b, c} : \A y \in {a, b, c} : x <= y
  OBVIOUS
<1>2. Min({a, b, c}) \in {a, b, c} /\ \A y \in {a, b, c} : Min({a, b, c}) <= y
  BY <1>1 DEF Min
<1>3. QED
  BY <1>2 DEF LeastOf

(* The pause that n failures in a row call for.                             *)
PauseAfter(n) == Least(MaxBackoff, Interval * PowerOf2[n])

LEMMA PowerType ==
  ASSUME NEW n \in 0..MaxFails
  PROVE  PowerOf2[n] \in Nat /\ Interval * PowerOf2[n] \in Nat
<1>1. PowerOf2[n] \in Nat /\ Interval \in Nat
  BY PowerAssumption, PausesAssumption
<1>2. QED
  BY <1>1

LEMMA PauseType ==
  ASSUME NEW n \in 0..MaxFails PROVE PauseAfter(n) \in Nat
BY PowerType, PausesAssumption, LeastOfTwo DEF PauseAfter

(* One more failure doubles it, up to the longest pause.                    *)
LEMMA PauseDoubles ==
  ASSUME NEW n \in 0..MaxFails
  PROVE  /\ Least(n + 1, MaxFails) \in 1..MaxFails
         /\ Least(MaxBackoff, 2 * PauseAfter(n)) = PauseAfter(Least(n + 1, MaxFails))
         /\ PauseAfter(n) = PauseAfter(Least(n + 1, MaxFails) - 1)
<1>1. /\ MaxFails \in Nat /\ n + 1 \in Nat /\ MaxFails >= 1
      /\ MaxBackoff \in Nat /\ Interval \in Nat /\ Interval >= 1
  BY PowerAssumption, PausesAssumption
<1>2. Interval * PowerOf2[n] \in Nat
  BY PowerType
<1>3. CASE n < MaxFails
  <2>1. Least(n + 1, MaxFails) = n + 1 /\ n + 1 \in 1..MaxFails
    BY <1>1, <1>3, LeastOfTwo
  <2>2. PowerOf2[n + 1] = 2 * PowerOf2[n] /\ PowerOf2[n] \in Nat
    BY <1>1, <2>1, PowerAssumption, PowerType
  <2>3. Interval * PowerOf2[n + 1] = 2 * (Interval * PowerOf2[n])
    BY <1>1, <2>2
  <2>4. Least(MaxBackoff, 2 * PauseAfter(n)) = PauseAfter(n + 1)
    BY <1>1, <1>2, <2>3, LeastOfTwo DEF PauseAfter
  <2>5. QED
    BY <1>1, <2>1, <2>4
<1>4. CASE n = MaxFails
  <2>1. Least(n + 1, MaxFails) = MaxFails
    BY <1>1, <1>4, LeastOfTwo
  <2>2. /\ PowerOf2[MaxFails] = 2 * PowerOf2[MaxFails - 1]
        /\ PowerOf2[MaxFails - 1] \in Nat
    BY <1>1, PowerAssumption, PowerType
  <2>3. Interval * PowerOf2[MaxFails] = 2 * (Interval * PowerOf2[MaxFails - 1])
    BY <1>1, <2>2
  <2>4. /\ Interval * PowerOf2[MaxFails - 1] \in Nat
        /\ Interval * PowerOf2[MaxFails - 1] >= MaxBackoff
    BY <1>1, PowerType, MaxFailsAssumption
  <2>5. PauseAfter(MaxFails) = MaxBackoff /\ PauseAfter(MaxFails - 1) = MaxBackoff
    BY <1>1, <1>2, <1>4, <2>3, <2>4, LeastOfTwo DEF PauseAfter
  <2>6. Least(MaxBackoff, 2 * MaxBackoff) = MaxBackoff
    BY <1>1, LeastOfTwo
  <2>7. QED
    BY <1>1, <1>4, <2>1, <2>5, <2>6
<1>5. QED
  BY <1>1, <1>3, <1>4

-----------------------------------------------------------------------------
(* The queue                                                                *)

RunStates == {"absent", "queued", "running", "succeeded", "failed", "canceled"}

QueueOK ==
  /\ state \in [Runs -> RunStates]
  /\ holder \in [Runs -> Callers \cup {Nobody}]
  /\ tried \in [Runs -> 0..MaxAttempts]

(* The run c works on is leased to c; nothing a caller works on or has      *)
(* listed is ever absent again.                                             *)
Leased(c, r) == state[r] = "running" /\ holder[r] = c

LeaseKept(c, r) == Leased(c, r) => Leased(c, r)'

RowsStay == \A r \in Runs : state[r] # "absent" => state'[r] # "absent"

LEMMA TakeStep ==
  ASSUME QueueOK, NEW c \in Callers, NEW r \in Runs, Queue!Take(c, r)
  PROVE  /\ QueueOK' /\ RowsStay /\ Leased(c, r)'
         /\ state[r] = "queued"
         /\ \A d \in Callers, q \in Runs : LeaseKept(d, q)
         /\ \A q \in Runs \ {r} : state'[q] = state[q]
<1>1. QueueOK'
  BY DEF Queue!Take, QueueOK, RunStates
<1>2. QED
  BY <1>1 DEF Queue!Take, QueueOK, RowsStay, Leased, LeaseKept

LEMMA TryStep ==
  ASSUME QueueOK, NEW c \in Callers, NEW r \in Runs, Queue!Try(c, r)
  PROVE  QueueOK' /\ UNCHANGED <<state, holder>>
<1>1. MaxAttempts \in Nat
  BY ServiceAssumption
<1>2. QED
  BY <1>1 DEF Queue!Try, QueueOK

LEMMA SettleStep ==
  ASSUME QueueOK, NEW c \in Callers, NEW r \in Runs, Queue!Settle(c, r)
  PROVE  /\ QueueOK' /\ RowsStay
         /\ state[r] = "running"
         /\ \A d \in Callers \ {c}, q \in Runs : LeaseKept(d, q)
         /\ \A q \in Runs \ {r} : state'[q] = state[q]
<1>1. PICK to \in {"queued", "succeeded", "failed", "canceled"} :
        state' = [state EXCEPT ![r] = to]
  BY DEF Queue!Settle
<1>2. QueueOK'
  BY <1>1 DEF Queue!Settle, QueueOK, RunStates
<1>3. QED
  BY <1>1, <1>2 DEF Queue!Settle, QueueOK, RowsStay, Leased, LeaseKept

LEMMA VanishStep ==
  ASSUME QueueOK, NEW c \in Callers, NEW r \in Runs, Queue!Vanish(c, r)
  PROVE  /\ QueueOK' /\ UNCHANGED state
         /\ \A d \in Callers \ {c}, q \in Runs : LeaseKept(d, q)
BY DEF Queue!Vanish, QueueOK, Leased, LeaseKept

LEMMA WithdrawStep ==
  ASSUME QueueOK, NEW r \in Runs, Queue!Withdraw(r)
  PROVE  /\ QueueOK' /\ RowsStay
         /\ \A d \in Callers, q \in Runs : LeaseKept(d, q)
         /\ \A q \in Runs \ {r} : state'[q] = state[q]
<1>1. QueueOK'
  BY DEF Queue!Withdraw, QueueOK, RunStates
<1>2. QED
  BY <1>1 DEF Queue!Withdraw, QueueOK, RowsStay, Leased, LeaseKept

LEMMA CreateRunStep ==
  ASSUME QueueOK, NEW r \in Runs, NEW closed, CreateRun(r, closed)
  PROVE  /\ QueueOK' /\ RowsStay
         /\ state[r] = "absent" /\ state'[r] # "absent"
         /\ \A d \in Callers, q \in Runs : LeaseKept(d, q)
         /\ \A q \in Runs : state[q] = "queued" => state'[q] = "queued"
<1>1. \/ state' = [state EXCEPT ![r] = "queued"]
      \/ \E s \in Runs : /\ state[s] = "failed"
                         /\ state' = [state EXCEPT ![r] = "queued", ![s] = "canceled"]
  BY DEF CreateRun, Queue!Submit
<1>2. state[r] = "absent" /\ UNCHANGED <<holder, tried>>
  BY DEF CreateRun, Queue!Submit
<1>3. CASE state' = [state EXCEPT ![r] = "queued"]
  BY <1>2, <1>3 DEF QueueOK, RunStates, RowsStay, Leased, LeaseKept
<1>4. ASSUME NEW s \in Runs, state[s] = "failed",
             state' = [state EXCEPT ![r] = "queued", ![s] = "canceled"]
      PROVE  /\ QueueOK' /\ RowsStay /\ state'[r] # "absent"
             /\ \A d \in Callers, q \in Runs : LeaseKept(d, q)
             /\ \A q \in Runs : state[q] = "queued" => state'[q] = "queued"
  <2>1. state' \in [Runs -> RunStates]
    BY <1>4 DEF QueueOK, RunStates
  <2>2. /\ state'[r] = "queued" /\ state'[s] = "canceled"
        /\ \A q \in Runs \ {r, s} : state'[q] = state[q]
    BY <1>2, <1>4 DEF QueueOK
  <2>3. QED
    BY <1>2, <1>4, <2>1, <2>2 DEF QueueOK, RowsStay, Leased, LeaseKept
<1>5. QED
  BY <1>1, <1>2, <1>3, <1>4

-----------------------------------------------------------------------------
(* The calls                                                                *)

PassState ==
  [at : Stages, hygiene : BOOLEAN, left : Nat, done : Nat, run : Runs \cup {Nobody},
   ran : BOOLEAN, todo : SUBSET Runs, before : Nat, replayed : Nat, made : SUBSET Runs]

(* What a call has yet to replay are rows that were there when it looked,   *)
(* none of them of its own making, and they are within its bounds; before   *)
(* it has looked, it has replayed nothing. Only a drain works on a run.     *)
RecordOK(p) ==
  /\ p.ran => p.run # Nobody
  /\ p.run # Nobody => p.at \in {"drain", "redrain"}
  /\ p.todo \cap p.made = {}
  /\ p.replayed + Cardinality(p.todo) <= Least(p.before, ReplayCap)
  /\ p.at \in {"drain", "list"} => p.todo = {} /\ p.made = {} /\ p.replayed = 0

CallOK(c) ==
  /\ pass[c].run # Nobody => Leased(c, pass[c].run)
  /\ \A r \in pass[c].todo : state[r] # "absent"
  /\ RecordOK(pass[c])

PassInv ==
  /\ pass \in [Callers -> PassState]
  /\ \A c \in Callers : CallOK(c)

LEMMA CapsAreNumbers ==
  /\ ReplayCap \in Nat /\ ReplayCap >= 1 /\ DrainCap \in Nat /\ DrainLimit \in Nat
BY ServiceAssumption

LEMMA SomeRuns ==
  ASSUME NEW S \in SUBSET Runs
  PROVE  IsFiniteSet(S) /\ Cardinality(S) \in Nat
BY ServiceAssumption, FS_Subset, FS_CardinalityType

LEMMA IdlePassOK ==
  /\ IdlePass \in PassState /\ RecordOK(IdlePass)
  /\ IdlePass.run = Nobody /\ IdlePass.todo = {}
<1>1. Cardinality({}) = 0
  BY FS_EmptySet
<1>2. 0 + Cardinality({}) <= Least(0, ReplayCap)
  BY <1>1, CapsAreNumbers, LeastOfTwo
<1>3. QED
  BY <1>2 DEF IdlePass, PassState, Stages, RecordOK

(* A call that goes on with x, while the others go on with what they had.   *)
LEMMA OneCall ==
  ASSUME PassInv, RowsStay, NEW c \in Callers, NEW x \in PassState, RecordOK(x),
         pass' = [pass EXCEPT ![c] = x],
         x.run # Nobody => Leased(c, x.run)',
         \A r \in x.todo : state'[r] # "absent",
         \A d \in Callers \ {c}, q \in Runs : LeaseKept(d, q)
  PROVE  PassInv'
<1>1. pass' \in [Callers -> PassState] /\ pass'[c] = x
  BY DEF PassInv
<1>2. CallOK(c)'
  BY <1>1 DEF CallOK
<1>3. ASSUME NEW d \in Callers \ {c} PROVE CallOK(d)'
  <2>1. pass'[d] = pass[d] /\ CallOK(d) /\ pass[d] \in PassState
    BY DEF PassInv
  <2>2. pass[d].todo \subseteq Runs /\ pass[d].run \in Runs \cup {Nobody}
    BY <2>1 DEF PassState
  <2>3. QED
    BY <2>1, <2>2 DEF CallOK, RowsStay, LeaseKept
<1>4. QED
  BY <1>1, <1>2, <1>3 DEF PassInv

WorkerState ==
  [pc : {"asleep", "waits"}, pause : Nat, backoff : Interval..MaxBackoff]

ServerOK ==
  /\ backingOff \subseteq {r \in Runs : state[r] = "queued"}
  /\ up \in BOOLEAN /\ calls \in 0..MaxCalls /\ fails \in 0..MaxFails
  /\ worker \in WorkerState

ServiceInv == QueueOK /\ ServerOK /\ PassInv

LEMMA InitService == ServiceInit => ServiceInv
<1> SUFFICES ASSUME ServiceInit PROVE ServiceInv
  OBVIOUS
<1>1. QueueOK
  BY ServiceAssumption DEF ServiceInit, Queue!Init, QueueOK, RunStates
<1>2. ServerOK
  BY ServiceAssumption, PausesAssumption, PowerAssumption
     DEF ServiceInit, ServerOK, WorkerState
<1>3. PassInv
  BY IdlePassOK DEF ServiceInit, PassInv, CallOK
<1>4. QED
  BY <1>1, <1>2, <1>3 DEF ServiceInv

-----------------------------------------------------------------------------
(* Drains                                                                   *)

LEMMA CallType ==
  ASSUME ServiceInv, NEW c \in Callers
  PROVE  pass[c] \in PassState /\ CallOK(c) /\ pass \in [Callers -> PassState]
BY DEF ServiceInv, PassInv

LEMMA ClaimRunOK ==
  ASSUME ServiceInv, NEW c \in Callers, ClaimRun(c) PROVE ServiceInv'
<1>1. pass[c] \in PassState /\ CallOK(c) /\ pass \in [Callers -> PassState]
  BY CallType
<1>2. PICK r \in Ready :
        Queue!Take(c, r) /\ pass' = [pass EXCEPT ![c].run = r, ![c].left = @ - 1]
  BY DEF ClaimRun
<1>3. r \in Runs \ backingOff /\ pass[c].left > 0 /\ Draining(c)
  BY <1>2 DEF Ready, InState, ClaimRun
<1>4. /\ QueueOK' /\ RowsStay /\ Leased(c, r)' /\ \A d \in Callers, q \in Runs : LeaseKept(d, q)
      /\ \A q \in Runs \ {r} : state'[q] = state[q]
  BY <1>2, <1>3, TakeStep DEF ServiceInv
<1> DEFINE x == [pass[c] EXCEPT !.run = r, !.left = @ - 1]
<1>5. pass' = [pass EXCEPT ![c] = x]
  BY <1>1, <1>2 DEF PassState
<1>6. /\ x \in PassState /\ x.run = r /\ x.todo = pass[c].todo /\ x.made = pass[c].made
      /\ x.replayed = pass[c].replayed /\ x.before = pass[c].before /\ x.at = pass[c].at
      /\ x.ran = pass[c].ran
  <2> DEFINE n == pass[c].left - 1
  <2>1. n \in Nat
    BY <1>1, <1>3 DEF PassState
  <2>2. x = [pass[c] EXCEPT !.run = r, !.left = n]
    OBVIOUS
  <2> HIDE DEF n, x
  <2>3. QED
    BY <1>1, <1>3, <2>1, <2>2 DEF PassState
<1> HIDE DEF x
<1>7. RecordOK(x) /\ \A q \in x.todo : state'[q] # "absent"
  BY <1>1, <1>3, <1>4, <1>6, ServiceAssumption
     DEF CallOK, RecordOK, RowsStay, PassState, Draining
<1>8. PassInv'
  BY <1>4, <1>5, <1>6, <1>7, OneCall DEF ServiceInv
<1>9. ServerOK'
  BY <1>3, <1>4 DEF ServiceInv, ServerOK, ClaimRun
<1>10. QED
  BY <1>4, <1>8, <1>9 DEF ServiceInv

LEMMA TryRunOK ==
  ASSUME ServiceInv, NEW c \in Callers, TryRun(c) PROVE ServiceInv'
<1>1. pass[c] \in PassState /\ CallOK(c) /\ pass \in [Callers -> PassState]
  BY CallType
<1>2. QueueOK' /\ UNCHANGED <<state, holder>>
  BY <1>1, TryStep DEF TryRun, ServiceInv, PassState
<1> DEFINE x == [pass[c] EXCEPT !.ran = TRUE]
<1>3. pass' = [pass EXCEPT ![c] = x]
  BY <1>1 DEF TryRun, PassState
<1>4. /\ x \in PassState /\ x.run = pass[c].run /\ x.todo = pass[c].todo
      /\ x.made = pass[c].made /\ x.replayed = pass[c].replayed
      /\ x.before = pass[c].before /\ x.at = pass[c].at
  BY <1>1 DEF PassState
<1> HIDE DEF x
<1>5. RecordOK(x) /\ \A q \in x.todo : state'[q] # "absent"
  BY <1>1, <1>2, <1>4 DEF TryRun, CallOK, RecordOK
<1>6. PassInv'
  BY <1>1, <1>2, <1>3, <1>4, <1>5, OneCall DEF ServiceInv, CallOK, Leased, LeaseKept, RowsStay
<1>7. QED
  BY <1>2, <1>6 DEF ServiceInv, ServerOK, TryRun

LEMMA SettleRunOK ==
  ASSUME ServiceInv, NEW c \in Callers, SettleRun(c) PROVE ServiceInv'
<1>1. pass[c] \in PassState /\ CallOK(c) /\ pass \in [Callers -> PassState]
  BY CallType
<1> DEFINE r == pass[c].run
<1>2. r \in Runs
  BY <1>1 DEF SettleRun, CallOK, RecordOK, PassState
<1>3. /\ QueueOK' /\ RowsStay /\ state[r] = "running"
      /\ \A d \in Callers \ {c}, q \in Runs : LeaseKept(d, q)
      /\ \A q \in Runs \ {r} : state'[q] = state[q]
  BY <1>2, SettleStep DEF SettleRun, ServiceInv
<1> DEFINE x == [pass[c] EXCEPT !.run = Nobody, !.ran = FALSE, !.done = @ + 1]
<1>4. pass' = [pass EXCEPT ![c] = x]
  BY <1>1 DEF SettleRun, PassState
<1>5. /\ x \in PassState /\ x.run = Nobody /\ x.todo = pass[c].todo
      /\ x.made = pass[c].made /\ x.replayed = pass[c].replayed
      /\ x.before = pass[c].before /\ x.at = pass[c].at /\ x.ran = FALSE
  <2> DEFINE n == pass[c].done + 1
  <2>1. n \in Nat
    BY <1>1 DEF PassState
  <2>2. x = [pass[c] EXCEPT !.run = Nobody, !.ran = FALSE, !.done = n]
    OBVIOUS
  <2> HIDE DEF n, x
  <2>3. QED
    BY <1>1, <2>1, <2>2 DEF PassState
<1> HIDE DEF x
<1>6. RecordOK(x) /\ \A q \in x.todo : state'[q] # "absent"
  BY <1>1, <1>3, <1>5 DEF CallOK, RecordOK, RowsStay, PassState
<1>7. PassInv'
  BY <1>3, <1>4, <1>5, <1>6, OneCall DEF ServiceInv
<1>8. backingOff' \subseteq {q \in Runs : state'[q] = "queued"}
  <2>1. backingOff' = IF state'[r] = "queued" THEN backingOff \cup {r} ELSE backingOff
    BY DEF SettleRun
  <2>2. r \notin backingOff /\ backingOff \subseteq {q \in Runs : state[q] = "queued"}
    BY <1>3 DEF ServiceInv, ServerOK
  <2>3. QED
    BY <1>2, <1>3, <2>1, <2>2
<1>9. QED
  BY <1>3, <1>7, <1>8 DEF ServiceInv, ServerOK, SettleRun

(* The steps of a call that leave the queue as it is.                       *)
LEMMA QuietCall ==
  ASSUME ServiceInv, NEW c \in Callers, NEW x \in PassState, RecordOK(x),
         UNCHANGED <<queueVars, backingOff>>,
         up' \in BOOLEAN, calls' \in 0..MaxCalls, fails' \in 0..MaxFails,
         worker' \in WorkerState,
         pass' = [pass EXCEPT ![c] = x],
         x.run \in {Nobody, pass[c].run},
         \A r \in x.todo : state[r] # "absent"
  PROVE  ServiceInv'
<1>1. pass[c] \in PassState /\ CallOK(c)
  BY CallType
<1>2. UNCHANGED <<state, holder, tried>>
  BY DEF queueVars
<1>3. QueueOK'
  BY <1>2 DEF ServiceInv, QueueOK
<1>4. PassInv'
  BY <1>1, <1>2, OneCall DEF ServiceInv, CallOK, Leased, LeaseKept, RowsStay
<1>5. QED
  BY <1>2, <1>3, <1>4 DEF ServiceInv, ServerOK

LEMMA EndDrainOK ==
  ASSUME ServiceInv, NEW c \in Callers, EndDrain(c) PROVE ServiceInv'
<1>1. pass[c] \in PassState /\ CallOK(c) /\ pass \in [Callers -> PassState]
  BY CallType
<1> DEFINE listing == [pass[c] EXCEPT !.at = "list"]
           answered == [pass[c] EXCEPT !.at = "answered"]
<1>2. PICK x \in {listing, answered, IdlePass} :
        /\ pass' = [pass EXCEPT ![c] = x]
        /\ x = listing => pass[c].at = "drain"
  <2>1. CASE pass[c].at = "drain" /\ pass[c].before > 0
    <3>1. pass' = [pass EXCEPT ![c] = listing]
      BY <1>1, <2>1 DEF EndDrain, PassState
    <3>2. QED
      BY <2>1, <3>1
  <2>2. CASE ~(pass[c].at = "drain" /\ pass[c].before > 0)
    <3>1. pass' = [pass EXCEPT ![c] = IF c = Worker THEN answered ELSE IdlePass]
      BY <1>1, <2>2 DEF EndDrain
    <3>2. answered.at = "answered" /\ listing.at = "list" /\ IdlePass.at = "idle"
      BY <1>1 DEF PassState, IdlePass
    <3>3. listing # answered /\ listing # IdlePass
      BY <3>2
    <3> HIDE DEF listing, answered
    <3>4. QED
      BY <3>1, <3>3
  <2>3. QED
    BY <2>1, <2>2
<1>3. /\ x \in PassState /\ RecordOK(x) /\ x.run \in {Nobody, pass[c].run}
      /\ x.todo \subseteq pass[c].todo
  <2>1. ASSUME x \in {listing, answered}
        PROVE  /\ x \in PassState /\ x.run = pass[c].run /\ x.ran = pass[c].ran
               /\ x.todo = pass[c].todo /\ x.made = pass[c].made
               /\ x.replayed = pass[c].replayed /\ x.before = pass[c].before
               /\ x.at \in {"list", "answered"}
               /\ x.at = "list" => pass[c].at = "drain"
    <3>1. CASE x = listing
      BY <1>1, <1>2, <3>1 DEF PassState, Stages
    <3>2. CASE x = answered
      BY <1>1, <3>2 DEF PassState, Stages
    <3>3. QED
      BY <2>1, <3>1, <3>2
  <2> HIDE DEF listing, answered
  <2>2. CASE x \in {listing, answered}
    BY <1>1, <2>1, <2>2 DEF EndDrain, CallOK, RecordOK
  <2>3. CASE x = IdlePass
    BY <2>3, IdlePassOK
  <2>4. QED
    BY <1>2, <2>2, <2>3
<1>4. \A r \in x.todo : state[r] # "absent"
  BY <1>1, <1>3 DEF CallOK
<1>5. UNCHANGED <<queueVars, backingOff, up, worker, fails, calls>>
  BY DEF EndDrain
<1>6. QED
  BY <1>2, <1>3, <1>4, <1>5, QuietCall DEF ServiceInv, ServerOK

-----------------------------------------------------------------------------
(* The operators' calls                                                     *)

LEMMA BeginOK ==
  ASSUME ServiceInv, NEW c \in Callers, NEW x \in PassState, Begin(c, x),
         RecordOK(x), x.run = Nobody, \A r \in x.todo : state[r] # "absent"
  PROVE  ServiceInv'
<1>1. calls' \in 0..MaxCalls
  BY ServiceAssumption DEF Begin, Spend, ServiceInv, ServerOK
<1>2. QED
  BY <1>1, QuietCall DEF Begin, ServiceInv, ServerOK

(* A call that has neither listed nor replayed anything.                    *)
LEMMA FreshCall ==
  ASSUME NEW x \in PassState, x.run = Nobody, x.ran = FALSE, x.todo = {}, x.made = {},
         x.replayed = 0
  PROVE  RecordOK(x)
<1>1. x.before \in Nat
  BY DEF PassState
<1>2. 0 + Cardinality({}) <= Least(x.before, ReplayCap)
  BY <1>1, FS_EmptySet, CapsAreNumbers, LeastOfTwo
<1>3. QED
  BY <1>2 DEF RecordOK

LEMMA PostsOK ==
  ASSUME ServiceInv, NEW o \in Operators,
         PostDrain(o) \/ PostReplay(o) \/ PostReplayOne(o) \/ PostHygiene(o)
  PROVE  ServiceInv'
<1>1. o \in Callers
  BY DEF Callers
<1>2. CASE PostDrain(o)
  <2> DEFINE x == [IdlePass EXCEPT !.at = "redrain", !.left = DrainLimit]
  <2>1. /\ x \in PassState /\ x.run = Nobody /\ x.ran = FALSE /\ x.todo = {}
        /\ x.made = {} /\ x.replayed = 0
    BY CapsAreNumbers DEF IdlePass, PassState, Stages
  <2>2. Begin(o, x)
    BY <1>2 DEF PostDrain
  <2> HIDE DEF x
  <2>3. QED
    BY <1>1, <2>1, <2>2, FreshCall, BeginOK
<1>3. CASE PostReplay(o)
  <2> DEFINE x == [IdlePass EXCEPT !.at = "list", !.before = ReplayCap]
  <2>1. /\ x \in PassState /\ x.run = Nobody /\ x.ran = FALSE /\ x.todo = {}
        /\ x.made = {} /\ x.replayed = 0
    BY CapsAreNumbers DEF IdlePass, PassState, Stages
  <2>2. Begin(o, x)
    BY <1>3 DEF PostReplay
  <2> HIDE DEF x
  <2>3. QED
    BY <1>1, <2>1, <2>2, FreshCall, BeginOK
<1>4. CASE PostReplayOne(o)
  <2>1. PICK r \in Runs :
          /\ state[r] # "absent"
          /\ Begin(o, [IdlePass EXCEPT !.at = "replay", !.before = 1, !.todo = {r}])
    BY <1>4 DEF PostReplayOne
  <2> DEFINE x == [IdlePass EXCEPT !.at = "replay", !.before = 1, !.todo = {r}]
  <2>2. /\ x \in PassState /\ x.run = Nobody /\ x.ran = FALSE /\ x.todo = {r} /\ x.made = {}
        /\ x.replayed = 0 /\ x.before = 1 /\ x.at = "replay"
    BY DEF IdlePass, PassState, Stages
  <2> HIDE DEF x
  <2>3. 0 + Cardinality({r}) <= Least(1, ReplayCap)
    BY FS_Singleton, CapsAreNumbers, LeastOfTwo
  <2>4. RecordOK(x)
    BY <2>2, <2>3 DEF RecordOK
  <2>5. QED
    BY <1>1, <2>1, <2>2, <2>4, BeginOK DEF x
<1>5. CASE PostHygiene(o)
  <2> DEFINE queued == Cardinality(InState("queued"))
             dead == Cardinality(InState("failed"))
             at == IF queued > 0 THEN "drain" ELSE "list"
             x == [IdlePass EXCEPT !.at = at, !.hygiene = TRUE,
                                   !.left = Min({queued, DrainCap}), !.before = dead]
  <2>1. queued \in Nat /\ dead \in Nat /\ at \in Stages
    BY SomeRuns DEF InState, Stages
  <2>2. Least(queued, DrainCap) \in Nat
    BY <2>1, CapsAreNumbers, LeastOfTwo
  <2>3. Begin(o, x)
    BY <1>5 DEF PostHygiene
  <2> HIDE DEF queued, dead, at
  <2>4. /\ x \in PassState /\ x.run = Nobody /\ x.ran = FALSE /\ x.todo = {}
        /\ x.made = {} /\ x.replayed = 0
    BY <2>1, <2>2 DEF Least, IdlePass, PassState
  <2> HIDE DEF x
  <2>5. QED
    BY <1>1, <2>3, <2>4, FreshCall, BeginOK
<1>6. QED
  BY <1>2, <1>3, <1>4, <1>5

LEMMA ListDeadLettersOK ==
  ASSUME ServiceInv, NEW c \in Callers, ListDeadLetters(c) PROVE ServiceInv'
<1>1. pass[c] \in PassState /\ CallOK(c) /\ pass \in [Callers -> PassState]
  BY CallType
<1>2. PICK batch \in kSubset(BatchSize(c), InState("failed")) :
        pass' = [pass EXCEPT ![c].at = "replay", ![c].todo = batch]
  BY DEF ListDeadLetters
<1>3. /\ batch \in SUBSET Runs /\ \A r \in batch : state[r] # "absent"
      /\ Cardinality(batch) = BatchSize(c)
  BY DEF kSubset, InState
<1> DEFINE dead == Cardinality(InState("failed"))
<1>4. /\ dead \in Nat /\ pass[c].before \in Nat
      /\ BatchSize(c) = LeastOf(pass[c].before, ReplayCap, dead)
  BY <1>1, SomeRuns DEF InState, PassState, BatchSize, LeastOf
<1> HIDE DEF dead
<1>5. BatchSize(c) \in Nat /\ BatchSize(c) <= Least(pass[c].before, ReplayCap)
  BY <1>4, CapsAreNumbers, LeastOfTwo, LeastOfThree
<1> DEFINE x == [pass[c] EXCEPT !.at = "replay", !.todo = batch]
<1>6. pass' = [pass EXCEPT ![c] = x]
  BY <1>1, <1>2 DEF PassState
<1>7. /\ x \in PassState /\ x.run = pass[c].run /\ x.ran = pass[c].ran
      /\ x.todo = batch /\ x.made = pass[c].made /\ x.at = "replay"
      /\ x.replayed = pass[c].replayed /\ x.before = pass[c].before
  BY <1>1, <1>3 DEF PassState, Stages
<1> HIDE DEF x
<1>8. pass[c].made = {} /\ pass[c].replayed = 0
  BY <1>1 DEF ListDeadLetters, CallOK, RecordOK
<1>9. RecordOK(x)
  BY <1>1, <1>3, <1>5, <1>7, <1>8 DEF ListDeadLetters, CallOK, RecordOK
<1>10. UNCHANGED <<queueVars, backingOff, up, worker, fails, calls>>
  BY DEF ListDeadLetters
<1>11. QED
  BY <1>3, <1>6, <1>7, <1>9, <1>10, QuietCall DEF ServiceInv, ServerOK

LEMMA ReplayNextOK ==
  ASSUME ServiceInv, NEW c \in Callers, ReplayNext(c) PROVE ServiceInv'
<1>1. pass[c] \in PassState /\ CallOK(c) /\ pass \in [Callers -> PassState]
  BY CallType
<1>2. PICK r \in pass[c].todo :
        \/ \E n \in Runs :
             /\ CreateRun(n, {r} \cap InState("failed"))
             /\ pass' = [pass EXCEPT ![c].todo = Remaining(c, r), ![c].replayed = @ + 1,
                                     ![c].made = @ \cup {n}]
        \/ /\ UNCHANGED queueVars
           /\ pass' = [pass EXCEPT ![c].todo = Remaining(c, r)]
  BY DEF ReplayNext
<1> DEFINE rest == pass[c].todo \ {r}
<1>3. /\ rest \in SUBSET Runs /\ rest = Remaining(c, r)
      /\ Cardinality(rest) \in Nat /\ Cardinality(pass[c].todo) \in Nat
      /\ Cardinality(rest) = Cardinality(pass[c].todo) - 1
      /\ \A q \in rest : state[q] # "absent"
  BY <1>1, SomeRuns, FS_RemoveElement DEF PassState, Remaining, CallOK
<1>4. /\ pass[c].replayed \in Nat /\ Least(pass[c].before, ReplayCap) \in Nat
      /\ pass[c].at = "replay"
  BY <1>1, CapsAreNumbers, LeastOfTwo DEF PassState, ReplayNext
<1>5. UNCHANGED <<backingOff, up, worker, fails, calls>>
  BY DEF ReplayNext
<1> HIDE DEF rest
<1>6. CASE \E n \in Runs :
             /\ CreateRun(n, {r} \cap InState("failed"))
             /\ pass' = [pass EXCEPT ![c].todo = Remaining(c, r), ![c].replayed = @ + 1,
                                     ![c].made = @ \cup {n}]
  <2>1. PICK n \in Runs :
          /\ CreateRun(n, {r} \cap InState("failed"))
          /\ pass' = [pass EXCEPT ![c].todo = rest, ![c].replayed = @ + 1,
                                  ![c].made = @ \cup {n}]
    BY <1>3, <1>6
  <2>2. /\ QueueOK' /\ RowsStay /\ state[n] = "absent"
        /\ \A d \in Callers, q \in Runs : LeaseKept(d, q)
        /\ \A q \in Runs : state[q] = "queued" => state'[q] = "queued"
    BY <2>1, CreateRunStep DEF ServiceInv
  <2> DEFINE k == pass[c].replayed + 1
             new == pass[c].made \cup {n}
  <2>3. k \in Nat /\ new \in SUBSET Runs
    BY <1>1, <1>4, <2>1 DEF PassState
  <2>0. PICK x : x = [pass[c] EXCEPT !.todo = rest, !.replayed = k, !.made = new]
    OBVIOUS
  <2>4. pass' = [pass EXCEPT ![c] = x]
    BY <1>1, <2>1, <2>0 DEF PassState
  <2> HIDE DEF k, new
  <2>5. /\ x \in PassState /\ x.run = pass[c].run /\ x.ran = pass[c].ran
        /\ x.todo = rest /\ x.made = new /\ x.replayed = k
        /\ x.before = pass[c].before /\ x.at = "replay"
    BY <1>1, <1>3, <1>4, <2>3, <2>0 DEF PassState
  <2>6. x.todo \cap x.made = {}
    BY <1>1, <1>3, <2>2, <2>5 DEF new, rest, CallOK, RecordOK
  <2>7. x.replayed + Cardinality(x.todo) <= Least(x.before, ReplayCap)
    BY <1>1, <1>3, <1>4, <2>5 DEF k, CallOK, RecordOK
  <2>8. RecordOK(x)
    BY <1>1, <1>4, <2>5, <2>6, <2>7 DEF CallOK, RecordOK
  <2>9. \A q \in x.todo : state'[q] # "absent"
    BY <1>3, <2>2, <2>5 DEF RowsStay
  <2>10. x.run # Nobody => Leased(c, x.run)'
    BY <1>1, <2>2, <2>5 DEF CallOK, LeaseKept, PassState
  <2>11. PassInv'
    BY <2>2, <2>4, <2>5, <2>8, <2>9, <2>10, OneCall DEF ServiceInv
  <2>12. ServerOK'
    BY <1>5, <2>2 DEF ServiceInv, ServerOK
  <2>13. QED
    BY <2>2, <2>11, <2>12 DEF ServiceInv
<1>7. CASE UNCHANGED queueVars /\ pass' = [pass EXCEPT ![c].todo = Remaining(c, r)]
  <2> DEFINE x == [pass[c] EXCEPT !.todo = rest]
  <2>1. pass' = [pass EXCEPT ![c] = x]
    BY <1>1, <1>3, <1>7 DEF PassState
  <2>2. /\ x \in PassState /\ x.run = pass[c].run /\ x.ran = pass[c].ran
        /\ x.todo = rest /\ x.made = pass[c].made /\ x.replayed = pass[c].replayed
        /\ x.before = pass[c].before /\ x.at = "replay"
    BY <1>1, <1>3, <1>4 DEF PassState
  <2> HIDE DEF x
  <2>3. x.todo \cap x.made = {}
    BY <1>1, <2>2 DEF rest, CallOK, RecordOK
  <2>4. x.replayed + Cardinality(x.todo) <= Least(x.before, ReplayCap)
    BY <1>1, <1>3, <1>4, <2>2 DEF CallOK, RecordOK
  <2>5. RecordOK(x)
    BY <1>1, <1>4, <2>2, <2>3, <2>4 DEF CallOK, RecordOK
  <2>6. QED
    BY <1>3, <1>5, <1>7, <2>1, <2>2, <2>5, QuietCall DEF ServiceInv, ServerOK
<1>8. QED
  BY <1>2, <1>6, <1>7

LEMMA EndReplayOK ==
  ASSUME ServiceInv, NEW c \in Callers, EndReplay(c) PROVE ServiceInv'
<1>1. pass[c] \in PassState /\ CallOK(c) /\ pass \in [Callers -> PassState]
  BY CallType
<1> DEFINE n == Least(pass[c].replayed, DrainCap)
           again == [pass[c] EXCEPT !.at = "redrain", !.left = n]
<1>2. n \in Nat
  BY <1>1, CapsAreNumbers, LeastOfTwo DEF PassState
<1>3. pass' = [pass EXCEPT ![c] = again] \/ pass' = [pass EXCEPT ![c] = IdlePass]
  BY <1>1 DEF EndReplay, Least
<1> HIDE DEF n
<1>4. /\ again \in PassState /\ again.run = pass[c].run /\ again.ran = pass[c].ran
      /\ again.todo = pass[c].todo /\ again.made = pass[c].made
      /\ again.replayed = pass[c].replayed /\ again.before = pass[c].before
      /\ again.at = "redrain"
  BY <1>1, <1>2 DEF PassState, Stages
<1> HIDE DEF again
<1>5. RecordOK(again) /\ \A r \in again.todo : state[r] # "absent"
  BY <1>1, <1>4 DEF CallOK, RecordOK
<1>6. UNCHANGED <<queueVars, backingOff, up, worker, fails, calls>>
  BY DEF EndReplay
<1>7. CASE pass' = [pass EXCEPT ![c] = again]
  BY <1>4, <1>5, <1>6, <1>7, QuietCall DEF ServiceInv, ServerOK
<1>8. CASE pass' = [pass EXCEPT ![c] = IdlePass]
  BY <1>6, <1>8, IdlePassOK, QuietCall DEF ServiceInv, ServerOK
<1>9. QED
  BY <1>3, <1>7, <1>8

-----------------------------------------------------------------------------
(* The worker                                                               *)

LEMMA FailedType ==
  ASSUME ServiceInv
  PROVE  /\ Failed \in WorkerState
         /\ CountFailure => fails' \in 0..MaxFails
<1>1. /\ worker.backoff \in Interval..MaxBackoff /\ fails \in 0..MaxFails
      /\ Interval \in Nat /\ Interval >= 1 /\ MaxBackoff \in Nat /\ MaxBackoff >= Interval
      /\ MaxFails \in Nat
  BY PausesAssumption, PowerAssumption DEF ServiceInv, ServerOK, WorkerState
<1>2. Least(MaxBackoff, 2 * worker.backoff) \in Interval..MaxBackoff
  BY <1>1, LeastOfTwo
<1>3. Least(fails + 1, MaxFails) \in 0..MaxFails
  BY <1>1, LeastOfTwo
<1>4. QED
  BY <1>1, <1>2, <1>3 DEF Failed, CountFailure, WorkerState, Least

LEMMA WorkerStepOK ==
  ASSUME ServiceInv, WorkerStep PROVE ServiceInv'
<1>1. Worker \in Callers
  BY DEF Callers
<1>2. CASE Wake /\ up
  <2> DEFINE x == [IdlePass EXCEPT !.at = "redrain", !.left = DrainLimit]
  <2>1. /\ x \in PassState /\ x.run = Nobody /\ x.ran = FALSE /\ x.todo = {}
        /\ x.made = {} /\ x.replayed = 0
    BY CapsAreNumbers DEF IdlePass, PassState, Stages
  <2>2. pass' = [pass EXCEPT ![Worker] = x] /\ UNCHANGED <<queueVars, backingOff, up, calls, fails>>
    BY <1>2 DEF Wake
  <2>3. worker' \in WorkerState
    BY <1>2 DEF Wake, ServiceInv, ServerOK, WorkerState
  <2> HIDE DEF x
  <2>4. QED
    BY <1>1, <2>1, <2>2, <2>3, FreshCall, QuietCall DEF ServiceInv, ServerOK
<1>3. CASE Wake /\ ~up
  <2>1. /\ UNCHANGED <<queueVars, backingOff, up, calls, pass>>
        /\ worker' \in WorkerState /\ fails' \in 0..MaxFails
    BY <1>3, FailedType DEF Wake
  <2>2. QED
    BY <2>1 DEF queueVars, ServiceInv, QueueOK, ServerOK, PassInv, CallOK, Leased
<1>4. CASE ReadAnswer \/ ReadError
  <2>1. /\ pass' = [pass EXCEPT ![Worker] = IdlePass]
        /\ UNCHANGED <<queueVars, backingOff, up, calls>>
        /\ worker' \in WorkerState /\ fails' \in 0..MaxFails
    BY <1>4, FailedType, PausesAssumption, PowerAssumption
       DEF ReadAnswer, ReadError, Hangup, WorkerState
  <2>2. QED
    BY <1>1, <2>1, IdlePassOK, QuietCall DEF ServiceInv, ServerOK
<1>5. QED
  BY <1>2, <1>3, <1>4 DEF WorkerStep

-----------------------------------------------------------------------------
(* The server and the other users of the queue                              *)

LEMMA BrokenOK ==
  ASSUME NEW c \in Callers
  PROVE  /\ Broken(c) \in PassState /\ RecordOK(Broken(c))
         /\ Broken(c).run = Nobody /\ Broken(c).todo = {}
<1> DEFINE x == [IdlePass EXCEPT !.at = "failed"]
<1>1. /\ x \in PassState /\ x.run = Nobody /\ x.ran = FALSE /\ x.todo = {}
      /\ x.made = {} /\ x.replayed = 0
  BY DEF IdlePass, PassState, Stages
<1>2. RecordOK(x)
  BY <1>1, FreshCall
<1> HIDE DEF x
<1>3. QED
  BY <1>1, <1>2, IdlePassOK DEF Broken, x

LEMMA ThrowOK ==
  ASSUME ServiceInv, NEW c \in Callers, Throw(c) PROVE ServiceInv'
<1>1. pass[c] \in PassState /\ pass \in [Callers -> PassState]
  BY CallType
<1>2. QueueOK' /\ UNCHANGED state /\ \A d \in Callers \ {c}, q \in Runs : LeaseKept(d, q)
  <2>1. CASE pass[c].run = Nobody
    BY <2>1 DEF Throw, queueVars, ServiceInv, QueueOK, LeaseKept, Leased
  <2>2. CASE pass[c].run # Nobody
    BY <1>1, <2>2, VanishStep DEF Throw, ServiceInv, PassState
  <2>3. QED
    BY <2>1, <2>2
<1>3. PassInv'
  <2>1. pass' = [pass EXCEPT ![c] = Broken(c)] /\ RowsStay
    BY <1>2 DEF Throw, RowsStay
  <2>2. QED
    BY <1>2, <2>1, BrokenOK, OneCall DEF ServiceInv
<1>4. ServerOK'
  BY <1>2, ServiceAssumption DEF Throw, Spend, ServiceInv, ServerOK
<1>5. QED
  BY <1>2, <1>3, <1>4 DEF ServiceInv

(* A caller that is idle, or has its answer, works on no run.               *)
LEMMA OutageOK ==
  ASSUME ServiceInv, Outage PROVE ServiceInv'
<1>1. QueueOK'
  <2>1. UNCHANGED <<state, tried>> /\ holder' = [r \in Runs |-> Nobody]
    BY DEF Outage
  <2>2. state' \in [Runs -> RunStates] /\ tried' \in [Runs -> 0..MaxAttempts]
    BY <2>1 DEF ServiceInv, QueueOK
  <2>3. holder' \in [Runs -> Callers \cup {Nobody}]
    BY <2>1
  <2>4. QED
    BY <2>2, <2>3 DEF QueueOK, Callers
<1>2. ServerOK'
  <2>1. /\ UNCHANGED <<state, backingOff, worker, fails>> /\ up' = FALSE
        /\ calls < MaxCalls /\ calls' = calls + 1
    BY DEF Outage, Spend
  <2>2. MaxCalls \in Nat /\ ServerOK
    BY ServiceAssumption DEF ServiceInv
  <2>3. calls' \in 0..MaxCalls
    BY <2>1, <2>2 DEF ServerOK
  <2>4. QED
    BY <2>1, <2>2, <2>3 DEF ServerOK
<1>3. pass \in [Callers -> PassState]
  BY DEF ServiceInv, PassInv
<1>4. ASSUME NEW c \in Callers PROVE pass'[c] \in PassState /\ CallOK(c)'
  <2>1. CASE Active(c)
    <3>1. pass'[c] = Broken(c)
      BY <2>1 DEF Outage
    <3>2. QED
      BY <3>1, BrokenOK DEF CallOK
  <2>2. CASE ~Active(c)
    <3>1. pass'[c] = pass[c] /\ UNCHANGED state /\ pass[c].run = Nobody /\ CallOK(c)
      BY <2>2 DEF Outage, ServiceInv, PassInv, Active, CallOK, RecordOK
    <3>2. QED
      BY <1>3, <3>1 DEF CallOK
  <2>3. QED
    BY <2>1, <2>2
<1>5. pass' \in [Callers -> PassState]
  <2>1. pass' = [c \in Callers |-> IF Active(c) THEN Broken(c) ELSE pass[c]]
    BY DEF Outage
  <2>2. \A c \in Callers : (IF Active(c) THEN Broken(c) ELSE pass[c]) \in PassState
    BY <1>3, BrokenOK
  <2>3. QED
    BY <2>1, <2>2
<1>6. QED
  BY <1>1, <1>2, <1>4, <1>5 DEF ServiceInv, PassInv

LEMMA OthersOK ==
  ASSUME ServiceInv,
         Recover \/ \E r \in Runs : RetryDue(r) \/ Admit(r) \/ Reject(r)
  PROVE  ServiceInv'
<1>1. CASE Recover \/ \E r \in Runs : RetryDue(r)
  <2>1. /\ UNCHANGED <<queueVars, pass, worker, fails, calls>>
        /\ up' \in BOOLEAN /\ backingOff' \subseteq backingOff
    BY <1>1 DEF Recover, RetryDue, ServiceInv, ServerOK
  <2>2. UNCHANGED <<state, holder, tried>>
    BY <2>1 DEF queueVars
  <2>3. QED
    BY <2>1, <2>2 DEF ServiceInv, QueueOK, ServerOK, PassInv, CallOK, Leased
<1>2. ASSUME NEW r \in Runs, Admit(r) \/ Reject(r) PROVE ServiceInv'
  <2>1. /\ QueueOK' /\ RowsStay
        /\ \A d \in Callers, q \in Runs : LeaseKept(d, q)
        /\ \A q \in Runs : q \in backingOff' => state'[q] = "queued"
    <3>1. CASE Admit(r)
      <4>1. CreateRun(r, {}) /\ UNCHANGED backingOff
        BY <3>1 DEF Admit
      <4>2. QED
        BY <4>1, CreateRunStep DEF ServiceInv, ServerOK
    <3>2. CASE Reject(r)
      <4>1. Queue!Withdraw(r) /\ backingOff' = backingOff \ {r}
        BY <3>2 DEF Reject
      <4>2. QED
        BY <4>1, WithdrawStep DEF ServiceInv, ServerOK
    <3>3. QED
      BY <1>2, <3>1, <3>2
  <2>2. /\ UNCHANGED <<up, pass, worker, fails>> /\ calls' \in 0..MaxCalls
        /\ backingOff' \subseteq Runs
    BY <1>2, ServiceAssumption DEF Admit, Reject, Spend, ServiceInv, ServerOK
  <2>3. ServerOK'
    BY <2>1, <2>2 DEF ServiceInv, ServerOK
  <2>4. PassInv'
    BY <2>1, <2>2 DEF ServiceInv, PassInv, PassState, CallOK, RowsStay, LeaseKept
  <2>5. QED
    BY <2>1, <2>3, <2>4 DEF ServiceInv
<1>3. QED
  BY <1>1, <1>2

LEMMA NextService == ServiceInv /\ [ServiceNext]_serviceVars => ServiceInv'
<1> SUFFICES ASSUME ServiceInv, [ServiceNext]_serviceVars PROVE ServiceInv'
  OBVIOUS
<1>1. CASE UNCHANGED serviceVars
  BY <1>1 DEF serviceVars, queueVars, ServiceInv, QueueOK, ServerOK, PassInv, CallOK, Leased
<1>2. ASSUME NEW c \in Callers, PassStep(c) PROVE ServiceInv'
  BY <1>2, ClaimRunOK, TryRunOK, SettleRunOK, EndDrainOK, ListDeadLettersOK,
     ReplayNextOK, EndReplayOK DEF PassStep
<1>3. QED
  BY <1>1, <1>2, ThrowOK, PostsOK, OthersOK, WorkerStepOK, OutageOK DEF ServiceNext

LEMMA ServiceInvariance == ServiceSpec => []ServiceInv
BY InitService, NextService, PTL DEF ServiceSpec

(* Every state is well formed; in particular the run that a call works on   *)
(* is leased to that call, whatever other calls, failures and rejections    *)
(* there are.                                                               *)
THEOREM ServiceTypes == ServiceSpec => []ServiceTypeOK
<1>1. ServiceInv => ServiceTypeOK
  BY DEF ServiceInv, QueueOK, RunStates, ServerOK, WorkerState, PassInv, PassState,
         CallOK, Leased, ServiceTypeOK
<1>2. QED
  BY <1>1, ServiceInvariance, PTL

(* However the calls meet and whatever fails, no call replays a run of its  *)
(* own making, and none replays more than its cap or than it began with.    *)
THEOREM NoReplayOfReplays == ServiceSpec => []ReplaysOnce
<1>1. ServiceInv => ReplaysOnce
  BY DEF ServiceInv, PassInv, CallOK, RecordOK, Least, ReplaysOnce, Callers
<1>2. QED
  BY <1>1, ServiceInvariance, PTL

-----------------------------------------------------------------------------
(* The pauses of the worker                                                 *)

PauseInv ==
  /\ worker.backoff = PauseAfter(fails)
  /\ fails > 0 /\ worker.pc = "asleep" => worker.pause = PauseAfter(fails - 1)

LEMMA NoPauseYet == PauseAfter(0) = Interval
<1>1. Interval * PowerOf2[0] = Interval
  BY PausesAssumption, PowerAssumption
<1>2. QED
  BY <1>1, PausesAssumption, LeastOfTwo DEF PauseAfter

(* A failure is counted, and the worker sleeps for what was due.            *)
LEMMA FailurePause ==
  ASSUME ServiceInv, PauseInv, worker' = Failed, CountFailure
  PROVE  PauseInv'
<1>1. fails \in 0..MaxFails /\ fails' = Least(fails + 1, MaxFails)
  BY DEF ServiceInv, ServerOK, CountFailure, Least
<1>2. /\ fails' \in 1..MaxFails
      /\ Least(MaxBackoff, 2 * PauseAfter(fails)) = PauseAfter(fails')
      /\ PauseAfter(fails) = PauseAfter(fails' - 1)
  BY <1>1, PauseDoubles
<1>3. /\ worker'.backoff = Least(MaxBackoff, 2 * worker.backoff)
      /\ worker'.pause = worker.backoff
  BY DEF Failed, Least
<1>4. worker'.backoff = PauseAfter(fails') /\ worker'.pause = PauseAfter(fails' - 1)
  BY <1>2, <1>3 DEF PauseInv
<1>5. QED
  BY <1>4 DEF PauseInv, PauseAfter

LEMMA NextPause == ServiceInv /\ PauseInv /\ [ServiceNext]_serviceVars => PauseInv'
<1> SUFFICES ASSUME ServiceInv, PauseInv, [ServiceNext]_serviceVars PROVE PauseInv'
  OBVIOUS
<1>1. CASE UNCHANGED <<worker, fails>>
  BY <1>1 DEF PauseInv, PauseAfter
<1>2. CASE Wake /\ up
  <2>1. UNCHANGED fails /\ worker'.backoff = worker.backoff /\ worker'.pc = "waits"
    BY <1>2 DEF Wake, ServiceInv, ServerOK, WorkerState
  <2>2. QED
    BY <2>1 DEF PauseInv, PauseAfter
<1>3. CASE (Wake /\ ~up) \/ ReadError
  BY <1>3, FailurePause DEF Wake, ReadError
<1>4. CASE ReadAnswer
  <2>1. fails' = 0 /\ worker'.backoff = Interval
    BY <1>4 DEF ReadAnswer
  <2>2. QED
    BY <2>1, NoPauseYet DEF PauseInv, PauseAfter
<1>5. QED
  <2>1. CASE \E c \in Callers : PassStep(c) \/ Throw(c)
    BY <1>1, <2>1 DEF PassStep, ClaimRun, TryRun, SettleRun, EndDrain, ListDeadLetters,
       ReplayNext, EndReplay, Throw
  <2>2. CASE \E o \in Operators : PostDrain(o) \/ PostReplay(o) \/ PostReplayOne(o)
                                  \/ PostHygiene(o)
    BY <1>1, <2>2 DEF PostDrain, PostReplay, PostReplayOne, PostHygiene, Begin
  <2>3. CASE \E r \in Runs : RetryDue(r) \/ Admit(r) \/ Reject(r)
    BY <1>1, <2>3 DEF RetryDue, Admit, Reject
  <2>4. CASE WorkerStep
    BY <1>2, <1>3, <1>4, <2>4 DEF WorkerStep
  <2>5. CASE Outage \/ Recover \/ UNCHANGED serviceVars
    BY <1>1, <2>5 DEF Outage, Recover, serviceVars
  <2>6. QED
    BY <2>1, <2>2, <2>3, <2>4, <2>5 DEF ServiceNext

(* The pause doubles with every failure in a row, is never longer than the  *)
(* longest, and falls back with the first success, in whatever order        *)
(* failures, outages and answers come.                                      *)
THEOREM PausesDouble == ServiceSpec => []PauseFollowsFailures
<1>1. ServiceInit => PauseInv
  BY NoPauseYet DEF ServiceInit, PauseInv
<1>2. PauseInv => PauseFollowsFailures
  BY DEF PauseInv, PauseAfter, Least, PauseFollowsFailures
<1>3. QED
  BY <1>1, <1>2, NextPause, ServiceInvariance, PTL DEF ServiceSpec

-----------------------------------------------------------------------------
(* Counterstrike: types                                                     *)

RequestState ==
  [pc : {"idle", "spawn", "grace", "poll"}, attempt : 0..2, polls : 0..Polls]

LEMMA NextAttemptType ==
  ASSUME StrikeTypeOK, NEW q \in Requests
  PROVE  NextAttempt(q) \in [Requests -> RequestState]
<1>1. request \in [Requests -> RequestState]
  BY DEF StrikeTypeOK, RequestState
<1>2. [request[q] EXCEPT !.pc = "spawn", !.attempt = 2] \in RequestState
  <2>1. request[q] \in RequestState
    BY <1>1
  <2>2. [request[q] EXCEPT !.pc = "spawn"] \in RequestState
    BY <2>1 DEF RequestState
  <2>3. \A r \in RequestState : [r EXCEPT !.attempt = 2] \in RequestState
    BY DEF RequestState
  <2>4. QED
    BY <2>2, <2>3
<1>3. IdleRequest \in RequestState
  BY StrikeAssumption DEF IdleRequest, RequestState
<1>4. CASE request[q].attempt = 1
  <2>1. NextAttempt(q) = [request EXCEPT ![q] = [request[q] EXCEPT !.pc = "spawn", !.attempt = 2]]
    BY <1>1, <1>4 DEF NextAttempt, RequestState
  <2>2. QED
    BY <1>1, <1>2, <2>1
<1>5. CASE request[q].attempt # 1
  BY <1>1, <1>3, <1>5 DEF NextAttempt
<1>6. QED
  BY <1>4, <1>5

LEMMA GotoType ==
  ASSUME StrikeTypeOK, NEW q \in Requests, NEW pc \in {"idle", "spawn", "grace", "poll"},
         Goto(q, pc)
  PROVE  request' \in [Requests -> RequestState]
<1>1. request \in [Requests -> RequestState]
  BY DEF StrikeTypeOK, RequestState
<1>2. [request[q] EXCEPT !.pc = pc] \in RequestState
  BY <1>1 DEF RequestState
<1>3. QED
  BY <1>1, <1>2 DEF Goto

LEMMA StrikeTypeInductive ==
  ASSUME StrikeTypeOK, [StrikeNext]_strikeVars
  PROVE  StrikeTypeOK'
<1>1. request \in [Requests -> RequestState] /\ script \in [Requests -> ScriptStates]
      /\ file \in Requests \cup {NoRequest} /\ blind \in BOOLEAN
  BY DEF StrikeTypeOK, RequestState
<1>2. SUFFICES /\ request' \in [Requests -> RequestState]
               /\ script' \in [Requests -> ScriptStates]
               /\ file' \in Requests \cup {NoRequest}
               /\ blind' \in BOOLEAN
  BY DEF StrikeTypeOK, RequestState
<1>3. IdleRequest \in RequestState
  BY StrikeAssumption DEF IdleRequest, RequestState
<1>4. ASSUME NEW q \in Requests, CheckRunning(q) PROVE <1>2!1
  <2>1. [pc |-> "spawn", attempt |-> 1, polls |-> Polls] \in RequestState
    BY StrikeAssumption DEF RequestState
  <2>2. (blind \/ Unseen) \in BOOLEAN
    BY DEF Unseen
  <2>3. QED
    BY <1>1, <1>4, <2>1, <2>2 DEF CheckRunning
<1>5. ASSUME NEW q \in Requests, Spawn(q) PROVE <1>2!1
  <2>1. request' \in [Requests -> RequestState]
    BY <1>5, GotoType, NextAttemptType DEF Spawn
  <2>2. script' \in [Requests -> ScriptStates]
    BY <1>1, <1>5 DEF Spawn, ScriptStates
  <2>3. QED
    BY <1>1, <1>5, <2>1, <2>2 DEF Spawn
<1>6. ASSUME NEW q \in Requests, GraceOver(q) PROVE <1>2!1
  BY <1>1, <1>6, GotoType DEF GraceOver
<1>7. ASSUME NEW q \in Requests, Poll(q) PROVE <1>2!1
  <2>1. CASE file # NoRequest \/ request[q].polls = 0
    BY <1>1, <1>3, <1>7, <2>1 DEF Poll, Answer
  <2>2. CASE ~(file # NoRequest \/ request[q].polls = 0)
    <3>1. [request[q] EXCEPT !.polls = request[q].polls - 1] \in RequestState
      <4>1. request[q] \in RequestState /\ request[q].polls # 0
        BY <1>1, <2>2
      <4>2. request[q].polls - 1 \in 0..Polls
        BY <4>1, StrikeAssumption DEF RequestState
      <4>3. QED
        BY <4>1, <4>2 DEF RequestState
    <3>2. request' = [request EXCEPT ![q] = [request[q] EXCEPT !.polls = request[q].polls - 1]]
      BY <1>1, <1>7, <2>2 DEF Poll
    <3>3. QED
      BY <1>1, <1>7, <3>1, <3>2 DEF Poll
  <2>3. QED
    BY <2>1, <2>2
<1>8. ASSUME NEW q \in Requests, Announce(q) PROVE <1>2!1
  BY <1>1, <1>8 DEF Announce, ScriptStates
<1>9. ASSUME NEW q \in Requests, Exit(q) PROVE <1>2!1
  <2>1. request' \in [Requests -> RequestState]
    BY <1>1, <1>9, GotoType, NextAttemptType DEF Exit
  <2>2. QED
    BY <1>1, <1>9, <2>1 DEF Exit, ScriptStates
<1>10. CASE UNCHANGED strikeVars
  BY <1>1, <1>10 DEF strikeVars
<1>11. QED
  BY <1>4, <1>5, <1>6, <1>7, <1>8, <1>9, <1>10 DEF StrikeNext

-----------------------------------------------------------------------------
(* Counterstrike: one script                                                *)

(* A request that has a script, or is about to start one.                   *)
Engaged(q) == Alive(q) \/ request[q].pc = "spawn"

(* While no check has missed a script, one request at most is engaged, and  *)
(* a script that has announced itself is seen: the file is only removed by  *)
(* the script that wrote it, and there is no other.                         *)
LoneScript ==
  /\ \A p, q \in Requests : Engaged(p) /\ Engaged(q) => p = q
  /\ \A q \in Requests : script[q] = "announced" => file # NoRequest

StrikeInv == StrikeTypeOK /\ (~blind => LoneScript)

LEMMA StrikeInvInductive ==
  ASSUME StrikeInv, [StrikeNext]_strikeVars
  PROVE  StrikeInv'
<1>1. StrikeTypeOK' /\ StrikeTypeOK
  BY StrikeTypeInductive DEF StrikeInv
<1>2. request \in [Requests -> RequestState] /\ script \in [Requests -> ScriptStates]
  BY <1>1 DEF StrikeTypeOK, RequestState
<1>3. SUFFICES ASSUME ~blind'
      PROVE  LoneScript'
  BY <1>1 DEF StrikeInv
<1>4. ~blind
  BY <1>1, <1>3 DEF StrikeTypeOK, StrikeNext, CheckRunning, Spawn, GraceOver, Poll,
                    Announce, Exit, strikeVars
<1>5. /\ \A p, q \in Requests : Engaged(p) /\ Engaged(q) => p = q
      /\ \A q \in Requests : script[q] = "announced" => file # NoRequest
  BY <1>4 DEF StrikeInv, LoneScript
<1>6. SUFFICES ASSUME NEW q \in Requests,
                 \/ CheckRunning(q) \/ Spawn(q) \/ GraceOver(q)
                 \/ Poll(q) \/ Announce(q) \/ Exit(q)
      PROVE  LoneScript'
  BY <1>5 DEF LoneScript, StrikeNext, strikeVars, Engaged, Alive
<1>7. CASE CheckRunning(q)
  <2>1. ~Unseen
    BY <1>3, <1>7 DEF CheckRunning
  <2>2. \A p \in Requests : ~Engaged(p)
    BY <1>2, <1>5, <1>7, <2>1 DEF CheckRunning, Unseen, Engaged, Alive, ScriptStates
  <2>3. \A p \in Requests : p # q => request'[p] = request[p]
    BY <1>2, <1>7 DEF CheckRunning
  <2>4. QED
    BY <1>5, <1>7, <2>2, <2>3 DEF CheckRunning, LoneScript, Engaged, Alive
<1>8. CASE ~CheckRunning(q)
  <2>1. /\ Engaged(q)' => Engaged(q)
        /\ \A p \in Requests : p # q => script'[p] = script[p] /\ request'[p].pc = request[p].pc
    <3>1. \A p \in Requests : p # q => script'[p] = script[p]
      BY <1>2, <1>6, <1>8 DEF Spawn, GraceOver, Poll, Announce, Exit
    <3>2. \A p \in Requests : p # q => request'[p] = request[p]
      BY <1>2, <1>6, <1>8 DEF Spawn, GraceOver, Poll, Announce, Exit, Goto, NextAttempt, Answer
    <3>3. Engaged(q)' => Engaged(q)
      BY <1>2, <1>6, <1>8 DEF Spawn, GraceOver, Poll, Announce, Exit, Goto, NextAttempt,
                             Answer, Engaged, Alive, IdleRequest, RequestState
    <3>4. QED
      BY <3>1, <3>2, <3>3
  <2>2. \A p, r \in Requests : Engaged(p)' /\ Engaged(r)' => p = r
    BY <1>5, <2>1 DEF Engaged, Alive
  <2>3. \A p \in Requests : script'[p] = "announced" => file' # NoRequest
    <3>1. CASE Announce(q)
      BY <3>1, StrikeAssumption DEF Announce
    <3>2. CASE Exit(q)
      <4>1. \A p \in Requests : p # q => script[p] = "none"
        BY <1>2, <1>5, <3>2 DEF Exit, Engaged, Alive
      <4>2. QED
        BY <1>2, <3>2, <4>1 DEF Exit
    <3>3. CASE Spawn(q) \/ GraceOver(q) \/ Poll(q)
      BY <1>2, <1>5, <3>3 DEF Spawn, GraceOver, Poll
    <3>4. QED
      BY <1>6, <1>8, <3>1, <3>2, <3>3
  <2>4. QED
    BY <2>2, <2>3 DEF LoneScript
<1>9. QED
  BY <1>7, <1>8

LEMMA StrikeInvInitially == StrikeInit => StrikeInv
<1>1. StrikeInit => StrikeTypeOK
  <2>1. IdleRequest \in RequestState
    BY StrikeAssumption DEF IdleRequest, RequestState
  <2>2. QED
    BY <2>1 DEF StrikeInit, StrikeTypeOK, RequestState, ScriptStates
<1>2. StrikeInit => LoneScript
  BY DEF StrikeInit, IdleRequest, LoneScript, Engaged, Alive
<1>3. QED
  BY <1>1, <1>2 DEF StrikeInv

LEMMA StrikeInvImplies == StrikeInv => OneScript
<1>1. SUFFICES ASSUME StrikeInv, ~blind
      PROVE  ~(Cardinality({q \in Requests : Alive(q)}) > 1)
  BY DEF OneScript
<1>2. \A p, q \in Requests : Alive(p) /\ Alive(q) => p = q
  BY <1>1 DEF StrikeInv, LoneScript, Engaged
<1>3. CASE {q \in Requests : Alive(q)} = {}
  BY <1>3, FS_EmptySet
<1>4. CASE \E p \in Requests : Alive(p)
  <2>1. PICK p \in Requests : Alive(p)
    BY <1>4
  <2>2. {q \in Requests : Alive(q)} = {p}
    BY <1>2, <2>1
  <2>3. QED
    BY <2>2, FS_Singleton
<1>5. QED
  BY <1>3, <1>4

(* The state of requests, scripts and file keeps its type.                  *)
THEOREM StrikeTypeCorrect == StrikeSpec => []StrikeTypeOK
<1>1. StrikeInit => StrikeTypeOK
  BY StrikeInvInitially DEF StrikeInv
<1>2. QED
  BY <1>1, StrikeTypeInductive, PTL DEF StrikeSpec

(* However many requests overlap, two scripts run only after some request   *)
(* looked while a script was there that it could not see.                   *)
THEOREM OneScriptUnlessBlind == StrikeSpec => []OneScript
BY StrikeInvInitially, StrikeInvInductive, StrikeInvImplies, PTL DEF StrikeSpec
=============================================================================
