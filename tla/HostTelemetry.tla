---------------------------- MODULE HostTelemetry ----------------------------
(***************************************************************************)
(* What happens to the status snapshots an agent sends for its host: the   *)
(* ingest (hosts/[hostId]/status/route.ts) that authenticates, drops a     *)
(* repeated snapshot, stores a new one and reconciles the breach ledger    *)
(* with it (auto-breaches.ts), and the operators who edit the ledger       *)
(* (hosts/[hostId]/breaches/route.ts).                                     *)
(*                                                                         *)
(* The network may deliver a snapshot late, twice or not at all. Ingests   *)
(* overlap; the reconciliation reads the ledger and then writes each       *)
(* difference by a statement of its own, all in parallel. A statement may  *)
(* fail without stopping the others. A snapshot is reduced to the level,   *)
(* 0 for absent, of each breach-like signal in it.                         *)
(***************************************************************************)
EXTENDS HostKeys, Sequences

CONSTANTS
  Msgs,      \* the snapshots the agent sends
  Ts,        \* the time each of them carries
  Signals,   \* the keys of breach-like signals
  Level,     \* Level[m][s]: severity of s in snapshot m, 0 when absent
  Ingests,   \* concurrent calls of POST .../status
  Breaches,  \* ids of rows of Breach
  Expected, StaleBy, MissingBy,  \* heartbeat settings, in minutes and multiples
  WriteScope \* host.status.write

ASSUME TelemetryAssumption ==
  /\ IsFiniteSet(Ingests) /\ IsFiniteSet(Breaches) /\ Signals # {}
  /\ Level \in [Msgs -> [Signals -> Nat]] /\ Ts \in [Msgs -> Nat]
  /\ None \notin Msgs
  /\ {Expected, StaleBy, MissingBy} \subseteq Nat \ {0}

VARIABLES
  stored,   \* snapshots by time of creation
  breach,   \* the ledger
  ing,      \* the ingest calls
  seen,     \* host.lastSeenAt, NeverSeen before the first contact
  reopened  \* history: rows an operator has set to open

vars == <<keys, adm, now, calls, stored, breach, ing, seen, reopened>>
telemetryVars == <<stored, breach, ing, seen, reopened>>

-----------------------------------------------------------------------------
(* Rows and calls                                                           *)

NeverSeen == MaxTime + 1

Levels == {0} \cup UNION {{Level[m][s] : s \in Signals} : m \in Msgs}

(* auto: the row carries the evidence by which the reconciliation knows its *)
(* own rows.                                                                *)
BreachRow == [state : {"absent", "open", "fixed", "ignored"}, auto : BOOLEAN,
              signal : Signals, level : Levels, opened : Nat]

(* One write the reconciliation has decided on.                             *)
Writes == [kind : {"create"}, signal : Signals]
          \cup [kind : {"update", "fix"}, signal : Signals, row : Breaches]

IdleIngest == [pc |-> "idle", key |-> None, msg |-> None, todo |-> {}, alone |-> FALSE]

IngestState == [pc : {"idle", "latest", "duplicate", "store", "ledger", "write"},
                key : Keys \cup {None}, msg : Msgs \cup {None},
                todo : SUBSET Writes, alone : BOOLEAN]

TypeOK ==
  /\ KeysTypeOK
  /\ stored \in Seq(Msgs)
  /\ breach \in [Breaches -> BreachRow]
  /\ ing \in [Ingests -> IngestState]
  /\ seen \in 0..NeverSeen
  /\ reopened \subseteq Breaches

Init ==
  /\ KeysInit
  /\ stored = <<>>
  /\ breach = [b \in Breaches |-> [state |-> "absent", auto |-> FALSE,
                 signal |-> CHOOSE s \in Signals : TRUE, level |-> 0, opened |-> 0]]
  /\ ing = [i \in Ingests |-> IdleIngest]
  /\ seen = NeverSeen
  /\ reopened = {}

-----------------------------------------------------------------------------
(* The ingest                                                               *)

(* A request that is not authenticated changes nothing.                     *)
Authenticate(i) ==
  /\ ing[i].pc = "idle" /\ Begin
  /\ \E k \in Keys, m \in Msgs :
       /\ Verified(k, WriteScope)
       /\ ing' = [ing EXCEPT ![i] = [IdleIngest EXCEPT !.pc = "latest", !.key = k, !.msg = m]]
  /\ UNCHANGED <<keys, adm, now, stored, breach, seen, reopened>>

(* Mutant: nothing is a duplicate.                                          *)
NeverDuplicate(m) == FALSE

(* Equal hash and time: the snapshot stored last is this one.               *)
Duplicate(m) == stored # <<>> /\ stored[Len(stored)] = m

ReadLatest(i) ==
  /\ ing[i].pc = "latest"
  /\ ing' = [ing EXCEPT ![i].pc = IF Duplicate(ing[i].msg) THEN "duplicate" ELSE "store"]
  /\ UNCHANGED <<keys, adm, now, calls, stored, breach, seen, reopened>>

(* Both transactions note the use of the key and the contact with the host. *)
NoteContact(i) ==
  /\ keys' = [keys EXCEPT ![ing[i].key] = Touched(keys[ing[i].key])]
  /\ seen' = now

DropDuplicate(i) ==
  /\ ing[i].pc = "duplicate"
  /\ NoteContact(i)
  /\ ing' = [ing EXCEPT ![i] = IdleIngest]
  /\ UNCHANGED <<adm, now, calls, stored, breach, reopened>>

Store(i) ==
  /\ ing[i].pc = "store"
  /\ NoteContact(i)
  /\ stored' = Append(stored, ing[i].msg)
  /\ ing' = [ing EXCEPT ![i].pc = "ledger"]
  /\ UNCHANGED <<adm, now, calls, breach, reopened>>

-----------------------------------------------------------------------------
(* The reconciliation                                                       *)

(* parseAutoBreachEvidence finds evidence of its own.                       *)
Managed(b) == breach[b].auto

(* Mutant: ignored rows are taken for open ones.                            *)
UnfixedRows(s) == {b \in Breaches : /\ breach[b].state \in {"open", "ignored"}
                                    /\ Managed(b) /\ breach[b].signal = s}

OpenRows(s) == {b \in Breaches : /\ breach[b].state = "open" /\ Managed(b)
                                 /\ breach[b].signal = s}

Ignored(s) == \E b \in Breaches : /\ breach[b].state = "ignored" /\ Managed(b)
                                  /\ breach[b].signal = s

(* Of several open rows of a signal the one opened last is looked at.       *)
LatestOf(S) == {b \in S : \A c \in S : breach[c].opened <= breach[b].opened}

(* Mutants: an open row is not looked for; an open row is never fixed.      *)
AlwaysCreates(s, m) ==
  {IF Level[m][s] > 0 /\ ~Ignored(s) THEN {[kind |-> "create", signal |-> s]} ELSE {}}
NeverFixes(s, m) ==
  {IF Level[m][s] > 0 /\ ~Ignored(s) /\ OpenRows(s) = {}
   THEN {[kind |-> "create", signal |-> s]} ELSE {}}

(* What is to be written for signal s: nothing when an operator ignores it; *)
(* otherwise the open row is created, brought up to date or fixed.          *)
WritesFor(s, m) ==
  IF OpenRows(s) = {}
  THEN {IF Level[m][s] > 0 /\ ~Ignored(s)
        THEN {[kind |-> "create", signal |-> s]} ELSE {}}
  ELSE {IF Level[m][s] = 0 THEN {[kind |-> "fix", signal |-> s, row |-> b]}
        ELSE IF Ignored(s) \/ breach[b].level = Level[m][s] THEN {}
        ELSE {[kind |-> "update", signal |-> s, row |-> b]} :
        b \in LatestOf(OpenRows(s))}

(* No other reconciliation is writing, and no signal has two open rows.     *)
Alone(i) ==
  /\ \A j \in Ingests : j # i => ing[j].pc # "write"
  /\ \A s \in Signals : Cardinality(OpenRows(s)) <= 1

(* Every call that reads or writes the ledger disturbs the others.          *)
Disturb(i, rec) ==
  [j \in Ingests |-> IF j = i THEN rec ELSE [ing[j] EXCEPT !.alone = FALSE]]

ReadLedger(i) ==
  /\ ing[i].pc = "ledger"
  /\ \E choice \in [Signals -> UNION {WritesFor(s, ing[i].msg) : s \in Signals}] :
       /\ \A s \in Signals : choice[s] \in WritesFor(s, ing[i].msg)
       /\ LET todo == UNION {choice[s] : s \in Signals}
          IN ing' = [ing EXCEPT ![i] =
               IF todo = {} THEN IdleIngest
               ELSE [@ EXCEPT !.pc = "write", !.todo = todo, !.alone = Alone(i)]]
  /\ UNCHANGED <<keys, adm, now, calls, stored, breach, seen, reopened>>

(* Each write is by id and looks at nothing else.                           *)
Apply(x, m) ==
  \/ /\ x.kind = "create"
     /\ \E b \in Breaches :
          /\ breach[b].state = "absent"
          /\ breach' = [breach EXCEPT ![b] =
               [state |-> "open", auto |-> TRUE, signal |-> x.signal,
                level |-> Level[m][x.signal], opened |-> Ts[m]]]
  \/ /\ x.kind = "update"
     /\ breach' = [breach EXCEPT ![x.row].level = Level[m][x.signal]]
  \/ /\ x.kind = "fix"
     /\ breach' = [breach EXCEPT ![x.row].state = "fixed"]

Done(i, x) ==
  IF ing[i].todo = {x} THEN IdleIngest
  ELSE [ing[i] EXCEPT !.todo = @ \ {x}]

Write(i, x) ==
  /\ ing[i].pc = "write" /\ x \in ing[i].todo
  /\ Apply(x, ing[i].msg)
  /\ ing' = Disturb(i, Done(i, x))
  /\ UNCHANGED <<keys, adm, now, calls, stored, seen, reopened>>

(* One statement fails; the error is audited and the rest goes on.          *)
LoseWrite(i, x) ==
  /\ ing[i].pc = "write" /\ x \in ing[i].todo
  /\ ing' = Disturb(i, [Done(i, x) EXCEPT !.alone = FALSE])
  /\ UNCHANGED <<keys, adm, now, calls, stored, breach, seen, reopened>>

-----------------------------------------------------------------------------
(* The operators                                                            *)

Unmanaged(s) == [state |-> "open", auto |-> FALSE, signal |-> s, level |-> 0, opened |-> now]

OpenManually ==
  /\ Begin
  /\ \E b \in Breaches, s \in Signals :
       /\ breach[b].state = "absent"
       /\ breach' = [breach EXCEPT ![b] = Unmanaged(s)]
  /\ UNCHANGED <<keys, adm, now, stored, ing, seen, reopened>>

(* mark-fixed, reopen, ignore and set-state put any row into any state.     *)
SetState(b) ==
  /\ breach[b].state # "absent" /\ Begin
  /\ \E to \in {"open", "fixed", "ignored"} :
       /\ breach' = [breach EXCEPT ![b].state = to]
       /\ reopened' = IF to = "open" THEN reopened \cup {b} ELSE reopened
  /\ ing' = [i \in Ingests |-> [ing[i] EXCEPT !.alone = FALSE]]
  /\ UNCHANGED <<keys, adm, now, stored, seen>>

(* GET .../status and the verify route note the use of a key.               *)
ReadStatus ==
  /\ Begin
  /\ \E k \in ActiveKeys : keys' = [keys EXCEPT ![k] = Touched(keys[k])]
  /\ UNCHANGED <<adm, now, stored, breach, ing, seen, reopened>>

Tick ==
  /\ now < MaxTime
  /\ now' = now + 1
  /\ UNCHANGED <<keys, adm, calls, stored, breach, ing, seen, reopened>>

IngestStep(i) ==
  \/ Authenticate(i) \/ ReadLatest(i) \/ DropDuplicate(i) \/ Store(i) \/ ReadLedger(i)
  \/ \E x \in ing[i].todo : Write(i, x) \/ LoseWrite(i, x)

Next ==
  \/ (\E c \in Admins : AdminStep(c)) /\ UNCHANGED telemetryVars
  \/ \E i \in Ingests : IngestStep(i)
  \/ OpenManually
  \/ \E b \in Breaches : SetState(b)
  \/ ReadStatus
  \/ Tick

Spec == Init /\ [][Next]_vars

-----------------------------------------------------------------------------
(* The heartbeat                                                            *)

staleAfterMinutes   == Expected * StaleBy
missingAfterMinutes == Expected * Max({MissingBy, StaleBy + 1})

classifyHeartbeat ==
  IF seen = NeverSeen THEN "missing"
  ELSE CASE now - seen <= Expected -> "fresh"
         [] now - seen > Expected /\ now - seen <= staleAfterMinutes -> "delayed"
         [] now - seen > staleAfterMinutes /\ now - seen <= missingAfterMinutes -> "stale"
         [] OTHER -> "missing"

-----------------------------------------------------------------------------
(* Properties                                                               *)

(* However deliveries are repeated and overlap, no more equal snapshots are *)
(* stored in a row than there are ingests at a time.                        *)
RepeatsBounded ==
  \A n \in 1..Len(stored) :
    LET last == n + Cardinality(Ingests)
    IN last <= Len(stored) => \E k \in n..last : stored[k] # stored[n]

(* Snapshots reconciled at once may open one breach several times, but no   *)
(* more often than there are ingests at a time (an operator's reopening     *)
(* aside).                                                                  *)
OpenRowsBounded ==
  \A s \in Signals : Cardinality(OpenRows(s) \ reopened) <= Cardinality(Ingests)

(* auto-breaches.test.ts:51, "without touching manual rows": a breach an    *)
(* operator has opened is changed by operators only.                        *)
ManualRowsUntouched ==
  [][\A b \in Breaches :
       breach[b].state # "absent" /\ ~breach[b].auto /\ breach'[b] # breach[b]
       => calls' # calls]_vars

(* An ingest that finds at most one open row of a signal, is not disturbed  *)
(* until it is done and loses no write leaves the ledger saying what its    *)
(* snapshot says: the signals it carries are open, unless ignored, and no   *)
(* others.                                                                  *)
LedgerFollowsSnapshot ==
  [][\A i \in Ingests :
       /\ ing'[i].pc = "idle"
       /\ \/ ing[i].pc = "ledger" /\ Alone(i)
          \/ ing[i].pc = "write" /\ ing[i].alone /\ breach' # breach
       => \A s \in Signals :
            IF Level[ing[i].msg][s] = 0 THEN OpenRows(s)' = {}
            ELSE Ignored(s) \/ OpenRows(s)' # {}]_vars

(* A host that falls silent is reported stale before it is reported        *)
(* missing, whatever multiples are configured (readHeartbeatConfig raises   *)
(* the missing multiple above the stale one).                               *)
StaleBeforeMissing ==
  [][classifyHeartbeat # "missing" /\ classifyHeartbeat' = "missing"
     => classifyHeartbeat = "stale"]_vars

(* auto-breaches.test.ts:123, "respects ignored auto breaches": a breach an *)
(* operator ignores is left alone by every ingest that looks at the ledger  *)
(* afterwards. (One that has looked before still writes what it decided.)   *)
IgnoreOutlivesSnapshots ==
  [][\A b \in Breaches :
       breach[b].state = "ignored" /\ breach'[b] # breach[b] =>
         \/ calls' # calls
         \/ \E i \in Ingests : /\ ing[i].pc = "write" /\ ~ing[i].alone
                               /\ \E x \in ing[i].todo : x.kind # "create" /\ x.row = b]_vars
=============================================================================
