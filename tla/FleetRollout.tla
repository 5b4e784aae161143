---------------------------- MODULE FleetRollout ----------------------------
(***************************************************************************)
(* The fleet policy of the hosts and the staged rollouts over them: the    *)
(* plan a rollout request computes (fleet-policy.ts), its execution host   *)
(* by host (ops/remediate-fleet/route.ts), and the requests that edit the  *)
(* policies meanwhile (ops/fleet-policy/route.ts, hosts/[hostId]/route.ts).*)
(*                                                                         *)
(* A plan is computed anew by every request from what the hosts are then,  *)
(* and an operator names one of its stages by number. An edit reads whole  *)
(* metadata documents and writes them back one host at a time; a document  *)
(* holds the fleet policy and, beside it, the remediation profile.         *)
(* Hosts are numbered in the order of their names. Scopes are selected and *)
(* edited as tags are, and are left out.                                   *)
(***************************************************************************)
EXTENDS Integers, Sequences, FiniteSets, FiniteSetsExt, Functions

CONSTANTS
  NHosts, NGroups,   \* hosts 1..NHosts, groups 1..NGroups; 0 is no group
  Tags,
  Rollouts,          \* concurrent calls of POST ops/remediate-fleet
  Editors,           \* concurrent calls that edit policies
  Selectors,         \* selectors that requests use
  Patches,           \* edits that requests make
  Profiles,          \* remediation profiles
  MaxHosts, MaxPerGroup, MaxPercent, StageSize, \* the blast radius
  EditLimit,         \* hosts a bulk edit may change
  RequireSelector,   \* VPS_REMEDIATE_FLEET_REQUIRE_SELECTOR
  InitialFleets,     \* the documents the hosts start with
  Keep, None,        \* a field a patch does not name; no selector, no patch
  MaxCalls           \* bound: requests and contacts

VARIABLES
  host,    \* the rows of Host
  seen,    \* the place of each host in the order of lastSeenAt, latest first
  roll,    \* the rollout calls
  edit,    \* the edit calls
  calls,
  reached  \* history: hosts reached per selector since plans last moved

vars == <<host, seen, roll, edit, calls, reached>>

Hosts  == 1..NHosts
Groups == 0..NGroups

Meta == [group : Groups, tags : SUBSET Tags, paused : BOOLEAN,
         priority : -100..100, profile : Profiles]

NewMeta == [group |-> 0, tags |-> {}, paused |-> FALSE, priority |-> 0,
            profile |-> CHOOSE p \in Profiles : TRUE]

Patch == [group : Groups \cup {Keep}, tags : (SUBSET Tags) \cup {Keep},
          add : SUBSET Tags, remove : SUBSET Tags, paused : BOOLEAN \cup {Keep},
          priority : -100..100 \cup {Keep}, profile : Profiles \cup {Keep},
          enabled : BOOLEAN \cup {Keep}]

(* The limits are clamped where they are read (clampInt).                   *)
ASSUME FleetAssumption ==
  /\ NHosts \in Nat /\ NGroups \in Nat /\ MaxCalls \in Nat
  /\ {MaxHosts, MaxPerGroup, StageSize, EditLimit} \subseteq Nat \ {0}
  /\ MaxPercent \in 1..100
  /\ InitialFleets \subseteq [Hosts -> Meta] /\ Patches \subseteq Patch

-----------------------------------------------------------------------------
(* The plan                                                                 *)

HasFilter(sel) == sel.ids # {} \/ sel.groups # {} \/ sel.tagsAll # {} \/ sel.enabledOnly

(* An operator may allow a selector without a filter.                       *)
SelectorAllowed(sel) ==
  \E allowWide \in BOOLEAN : RequireSelector => allowWide \/ HasFilter(sel)

Live == {h \in Hosts : host[h].live}

hostMatchesFleetSelector(h, sel) ==
  /\ sel.enabledOnly => host[h].enabled
  /\ sel.includePaused \/ ~host[h].meta.paused
  /\ sel.ids # {} => h \in sel.ids
  /\ sel.groups # {} => host[h].meta.group \in sel.groups \ {0}
  /\ sel.tagsAll \subseteq host[h].meta.tags

(* Higher priority first, then the host seen last.                          *)
Precedes(a, b) ==
  LET pa == host[a].meta.priority  pb == host[b].meta.priority
  IN pa > pb \/ (pa = pb /\ seen[a] < seen[b])

Candidates(sel) == {h \in Live : hostMatchesFleetSelector(h, sel)}

GroupOf(h) == host[h].meta.group

OfGroup(S, g) == {h \in S : GroupOf(h) = g}

Precedence == {p \in Hosts \X Hosts : Precedes(p[1], p[2])}

(* Group by group.                                                          *)
GroupOrder == {p \in Hosts \X Hosts :
                 \/ GroupOf(p[1]) < GroupOf(p[2])
                 \/ GroupOf(p[1]) = GroupOf(p[2]) /\ Precedes(p[1], p[2])}

Earlier(h, S, order) == {g \in S : <<g, h>> \in order}

(* At place i is the host with i - 1 hosts before it.                       *)
Sorted(S, order) ==
  LET place == [h \in S |-> Cardinality(Earlier(h, S, order)) + 1]
  IN [i \in 1..Cardinality(S) |-> CHOOSE h \in S : place[h] = i]

sortFleetHostsForRollout(S) == Sorted(S, Precedence)

(* MaxPercent of the enabled hosts, at least one.                           *)
AllowedByPercent ==
  Max({1, (Max({1, Cardinality({h \in Live : host[h].enabled})}) * MaxPercent) \div 100})

AllowedTotal == Min({MaxHosts, AllowedByPercent})

(* Mutant: there is no cap on all.                                          *)
RoomInGroup(accepted, h) == Cardinality(OfGroup(accepted, GroupOf(h))) < MaxPerGroup

HasRoom(accepted, h) ==
  /\ Cardinality(accepted) < AllowedTotal
  /\ Cardinality(OfGroup(accepted, GroupOf(h))) < MaxPerGroup

(* The hosts of s, in its order, but for those no cap has room for.         *)
applyFleetBlastRadiusSafeguards(s) ==
  LET accepted[i \in 0..Len(s)] ==
        IF i = 0 THEN {}
        ELSE LET before == accepted[i - 1]
             IN before \cup {h \in {s[i]} : HasRoom(before, h)}
  IN accepted[Len(s)]

Accepted(sel) == applyFleetBlastRadiusSafeguards(sortFleetHostsForRollout(Candidates(sel)))

chunk(s) ==
  [k \in 1..((Len(s) + StageSize - 1) \div StageSize) |->
     SubSeq(s, (k - 1) * StageSize + 1, Min({k * StageSize, Len(s)}))]

(* The first host of each group.                                            *)
CanaryWave(S) ==
  {h \in S : \A g \in S \ {h} : GroupOf(g) = GroupOf(h) => Precedes(h, g)}

(* The canaries and the rest go group by group; a sequential rollout has no *)
(* canaries.                                                                *)
FirstWave(S, strategy) == IF strategy = "sequential" THEN {} ELSE CanaryWave(S)
WaveOrder(strategy) == IF strategy = "sequential" THEN Precedence ELSE GroupOrder

(* Mutant: the two waves are chunked as one.                                *)
OneWave(S, strategy) ==
  LET canaries == FirstWave(S, strategy)  order == WaveOrder(strategy)
  IN chunk(Sorted(canaries, order) \o Sorted(S \ canaries, order))

buildFleetRolloutStages(S, strategy) ==
  LET canaries == FirstWave(S, strategy)  order == WaveOrder(strategy)
  IN chunk(Sorted(canaries, order)) \o chunk(Sorted(S \ canaries, order))

Strategies == {"group_canary", "sequential"}

Stages(sel, strategy) == buildFleetRolloutStages(Accepted(sel), strategy)

-----------------------------------------------------------------------------
(* Rows and calls                                                           *)

HostRow == [live : BOOLEAN, enabled : BOOLEAN, meta : Meta]

(* current: no plan has moved since the call read the fleet.                *)
RollState == [todo : Seq(Hosts), sel : Selectors \cup {None}, current : BOOLEAN]
IdleRoll  == [todo |-> <<>>, sel |-> None, current |-> FALSE]

(* A write of an edit: the whole document, computed from the one read, or   *)
(* none.                                                                    *)
EditWrite == [host : Hosts, meta : Meta \cup {Keep}, enabled : BOOLEAN \cup {Keep}]
EditState == [todo : Seq(EditWrite), patch : Patches \cup {None}, stale : SUBSET Hosts]
IdleEdit  == [todo |-> <<>>, patch |-> None, stale |-> {}]

TypeOK ==
  /\ host \in [Hosts -> HostRow]
  /\ seen \in [Hosts -> Hosts] /\ \A g, h \in Hosts : seen[g] = seen[h] => g = h
  /\ roll \in [Rollouts -> RollState] /\ edit \in [Editors -> EditState]
  /\ reached \in [Selectors -> SUBSET Hosts]
  /\ calls \in 0..MaxCalls

Init ==
  /\ \E fleet \in InitialFleets :
       host = [h \in Hosts |-> [live |-> TRUE, enabled |-> TRUE, meta |-> fleet[h]]]
  /\ seen = [h \in Hosts |-> h]
  /\ roll = [c \in Rollouts |-> IdleRoll]
  /\ edit = [e \in Editors |-> IdleEdit]
  /\ reached = [sel \in Selectors |-> {}]
  /\ calls = 0

Begin == calls < MaxCalls /\ calls' = calls + 1

NothingReached == [sel \in Selectors |-> {}]

(* The fleet has changed: plans may now be others.                          *)
Moved ==
  /\ reached' = NothingReached
  /\ roll' = [c \in Rollouts |-> [roll[c] EXCEPT !.current = FALSE]]

-----------------------------------------------------------------------------
(* The rollout                                                              *)

(* The stage asked for, or the last one; the phrase must name the stage     *)
(* that is taken. The plan is read at once.                                 *)
BeginStage(c) ==
  /\ roll[c] = IdleRoll /\ Begin
  /\ \E sel \in Selectors, strategy \in Strategies :
       /\ SelectorAllowed(sel)
       /\ LET stages == Stages(sel, strategy)
          IN \E confirmed \in DOMAIN stages :
               roll' = [roll EXCEPT ![c] =
                 [todo |-> stages[confirmed], sel |-> sel, current |-> TRUE]]
  /\ UNCHANGED <<host, seen, edit, reached>>

(* queueAutonomousRemediationForHost, for the next host of the stage; a     *)
(* host that is gone or fails is noted and the loop goes on.                *)
QueueHost(c) ==
  /\ roll[c].todo # <<>>
  /\ LET h == Head(roll[c].todo) IN
       /\ reached' = IF roll[c].current /\ host[h].live
                     THEN [reached EXCEPT ![roll[c].sel] = @ \cup {h}] ELSE reached
       /\ roll' = [roll EXCEPT ![c] = IF Len(roll[c].todo) = 1 THEN IdleRoll
                                      ELSE [roll[c] EXCEPT !.todo = Tail(@)]]
  /\ UNCHANGED <<host, seen, edit, calls>>

-----------------------------------------------------------------------------
(* The edits                                                                *)

Chosen(new, old) == IF new = Keep THEN old ELSE new

applyFleetPolicyDelta(meta, p) ==
  [meta EXCEPT
     !.group = Chosen(p.group, @),
     !.tags = IF p.tags # Keep THEN p.tags ELSE (@ \cup p.add) \ p.remove,
     !.paused = Chosen(p.paused, @),
     !.priority = Chosen(p.priority, @)]

FreshDocument(meta, p) ==
  [applyFleetPolicyDelta(meta, p) EXCEPT !.profile = Chosen(p.profile, NewMeta.profile)]

(* Both merges keep what the patch does not name, and the other document.   *)
MergedMeta(meta, p) ==
  [applyFleetPolicyDelta(meta, p) EXCEPT !.profile = Chosen(p.profile, @)]

(* The first hosts of the selection; those the patch does not change are    *)
(* not written.                                                             *)
BeginBulkEdit(e) ==
  /\ edit[e] = IdleEdit /\ Begin
  /\ \E sel \in Selectors :
       /\ SelectorAllowed(sel)
       /\ LET sorted == sortFleetHostsForRollout(Candidates(sel))
              first  == {sorted[i] : i \in 1..Min({EditLimit, Len(sorted)})}
          IN \E p \in Patches :
               LET hit  == {h \in first : MergedMeta(host[h].meta, p) # host[h].meta}
                   todo == sortFleetHostsForRollout(hit)
               IN /\ p.profile = Keep /\ p.enabled = Keep /\ hit # {}
                  /\ edit' = [edit EXCEPT ![e] =
                       [todo |-> [i \in DOMAIN todo |->
                          [host |-> todo[i], meta |-> MergedMeta(host[todo[i]].meta, p),
                           enabled |-> Keep]],
                        patch |-> p, stale |-> {}]]
  /\ UNCHANGED <<host, seen, roll, reached>>

NamesMeta(p) ==
  p.group # Keep \/ p.tags # Keep \/ p.paused # Keep \/ p.priority # Keep \/ p.profile # Keep

(* The document is left alone when the request names nothing of it.         *)
BeginPut(e) ==
  /\ edit[e] = IdleEdit /\ Begin
  /\ \E h \in Live, p \in Patches :
       /\ p.add = {} /\ p.remove = {}
       /\ edit' = [edit EXCEPT ![e] =
            [todo |-> <<[host |-> h, enabled |-> p.enabled,
                         meta |-> IF NamesMeta(p) THEN MergedMeta(host[h].meta, p) ELSE Keep]>>,
             patch |-> p, stale |-> {}]]
  /\ UNCHANGED <<host, seen, roll, reached>>

(* A host that is gone ends the whole edit.                                 *)
WriteEdit(e) ==
  /\ edit[e].todo # <<>>
  /\ LET w == Head(edit[e].todo)  h == w.host  meta == Chosen(w.meta, host[h].meta) IN
       IF host[h].live
       THEN /\ host' = [host EXCEPT ![h].meta = meta, ![h].enabled = Chosen(w.enabled, @)]
            /\ edit' = [f \in Editors |->
                 IF f # e THEN [edit[f] EXCEPT !.stale = IF edit[f].todo = <<>> THEN @ ELSE @ \cup {h}]
                 ELSE IF Len(edit[e].todo) = 1 THEN IdleEdit
                 ELSE [edit[e] EXCEPT !.todo = Tail(@)]]
            /\ Moved
       ELSE /\ edit' = [edit EXCEPT ![e] = IdleEdit]
            /\ UNCHANGED <<host, roll, reached>>
  /\ UNCHANGED <<seen, calls>>

-----------------------------------------------------------------------------
(* The fleet                                                                *)

Delete(h) ==
  /\ host[h].live /\ Begin
  /\ host' = [host EXCEPT ![h].live = FALSE]
  /\ Moved
  /\ UNCHANGED <<seen, edit>>

(* A snapshot arrives. Hosts with equal priority change places.             *)
Contact(h) ==
  /\ host[h].live /\ seen[h] # 1 /\ Begin
  /\ seen' = [g \in Hosts |-> IF g = h THEN 1
                             ELSE IF seen[g] < seen[h] THEN seen[g] + 1 ELSE seen[g]]
  /\ IF \E g \in Live \ {h} : host[g].meta.priority = host[h].meta.priority
     THEN Moved ELSE UNCHANGED <<roll, reached>>
  /\ UNCHANGED <<host, edit>>

Next ==
  \/ \E c \in Rollouts : BeginStage(c) \/ QueueHost(c)
  \/ \E e \in Editors : BeginBulkEdit(e) \/ BeginPut(e) \/ WriteEdit(e)
  \/ \E h \in Hosts : Delete(h) \/ Contact(h)

Spec == Init /\ [][Next]_vars

-----------------------------------------------------------------------------
(* Properties                                                               *)

(* No more hosts than the caps allow, and a host is left out only for a cap *)
(* that is used up, by hosts before it when it is the cap on all.           *)
WithinLimits(accepted, sel) ==
  /\ Cardinality(accepted) <= AllowedTotal
  /\ \A g \in Groups : Cardinality(OfGroup(accepted, g)) <= MaxPerGroup
  /\ \A r \in Candidates(sel) \ accepted :
       \/ Cardinality(OfGroup(accepted, GroupOf(r))) = MaxPerGroup
       \/ Cardinality(accepted) = AllowedTotal /\ \A h \in accepted : Precedes(h, r)

(* The stages together are the accepted hosts, each of them once.           *)
StagesPartition(stages, accepted) ==
  /\ accepted = UNION {Range(stages[k]) : k \in DOMAIN stages}
  /\ \A k \in DOMAIN stages :
       LET stage == stages[k]
       IN /\ Len(stage) \in 1..StageSize /\ IsInjective(stage)
          /\ \A l \in 1..(k - 1) : Range(stages[l]) \cap Range(stage) = {}

(* fleet-rollout-runbook.md:111, "first wave takes one host per group, then *)
(* remaining hosts": a stage holds a group's second host only if the first  *)
(* of every group is in a stage before it.                                  *)
CanariesFirst(stages, accepted) ==
  LET first == {h \in accepted :
                  \A g \in accepted \ {h} : GroupOf(g) = GroupOf(h) => Precedes(h, g)}
  IN \A k \in DOMAIN stages :
       Range(stages[k]) \subseteq first
       \/ first \subseteq UNION {Range(stages[l]) : l \in 1..(k - 1)}

(* fleet-rollout-runbook.md:127: whatever the hosts' policies, a plan takes *)
(* the hosts it promises to, and in the order it promises.                  *)
PlanIsSound ==
  \A sel \in Selectors :
    LET accepted == Accepted(sel)
        stages   == [strategy \in Strategies |-> buildFleetRolloutStages(accepted, strategy)]
    IN /\ WithinLimits(accepted, sel)
       /\ \A strategy \in Strategies : StagesPartition(stages[strategy], accepted)
       /\ CanariesFirst(stages["group_canary"], accepted)

(* However many stages are executed, by however many operators, in whatever *)
(* order and strategy, the hosts they reach stay within the blast radius of *)
(* one plan, until a policy, the fleet, the limits of the requests or the   *)
(* contact order of hosts with equal priority change.                       *)
RolloutWithinRadius ==
  \A sel \in Selectors :
    /\ Cardinality(reached[sel]) <= AllowedTotal
    /\ \A g \in Groups : Cardinality(OfGroup(reached[sel], g)) <= MaxPerGroup

(* An edit changes what its patch names and nothing else of the document,   *)
(* unless another edit has written the document since it was read: that     *)
(* edit is then undone.                                                     *)
KeepsTheRest(e) ==
  LET h == Head(edit[e].todo).host
      p == edit[e].patch
      old == host[h].meta
      new == host'[h].meta
  IN /\ p.group = Keep => new.group = old.group
     /\ p.paused = Keep => new.paused = old.paused
     /\ p.priority = Keep => new.priority = old.priority
     /\ p.profile = Keep => new.profile = old.profile
     /\ p.tags = Keep => new.tags \ (p.add \cup p.remove) = old.tags \ (p.add \cup p.remove)
     /\ p.enabled = Keep => host'[h].enabled = host[h].enabled

EditsKeepTheRest ==
  [][\A e \in Editors :
       /\ edit[e].todo # <<>> /\ edit'[e].todo # edit[e].todo
       /\ Head(edit[e].todo).host \notin edit[e].stale
       /\ host' # host
       => KeepsTheRest(e)]_vars
=============================================================================
