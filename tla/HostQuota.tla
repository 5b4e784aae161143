----------------------------- MODULE HostQuota -----------------------------
(***************************************************************************)
(* The hosts of one user and the calls that create them                    *)
(* (POST hosts/route.ts) against a limit that billing may move meanwhile.  *)
(* A host is its slug: a name and a suffix, unique by a constraint of the  *)
(* schema. The limit is another module's state and comes as a parameter.   *)
(***************************************************************************)
EXTENDS Integers, FiniteSets

CONSTANTS
  Creators,   \* concurrent create calls
  HostNames,
  MaxSuffix   \* suffixes findUniqueSlug tries (50 in the code)

ASSUME QuotaAssumption == IsFiniteSet(Creators) /\ MaxSuffix \in Nat

VARIABLES
  hosts,   \* the slugs taken
  create   \* the create calls

quotaVars == <<hosts, create>>

Slugs == HostNames \X (0..MaxSuffix)
NoSlug == <<>>

IdleCreate == [pc |-> "idle", limit |-> 0, slug |-> NoSlug]

CreateState == [pc : {"idle", "count", "slug"}, limit : Nat, slug : {NoSlug}]
               \cup [pc : {"insert"}, limit : Nat, slug : Slugs]

QuotaTypeOK == hosts \subseteq Slugs /\ create \in [Creators -> CreateState]

QuotaInit == hosts = {} /\ create = [n \in Creators |-> IdleCreate]

BeginCreate(n, limit) ==
  /\ create[n].pc = "idle"
  /\ create' = [create EXCEPT ![n].pc = "count", ![n].limit = limit]
  /\ UNCHANGED hosts

(* Mutant: the limit is taken for the number of hosts that may be there     *)
(* already.                                                                 *)
WithinLimitInclusive(limit) == Cardinality(hosts) <= limit
WithinLimit(limit) == Cardinality(hosts) < limit

CountHosts(n) ==
  /\ create[n].pc = "count"
  /\ create' = [create EXCEPT ![n] = IF WithinLimit(@.limit) THEN [@ EXCEPT !.pc = "slug"]
                                     ELSE IdleCreate]
  /\ UNCHANGED hosts

(* The first suffix that is free; the names of the model have one.          *)
findUniqueSlug(n) ==
  /\ create[n].pc = "slug"
  /\ \E name \in HostNames, i \in 0..MaxSuffix :
       /\ <<name, i>> \notin hosts
       /\ \A j \in 0..(i - 1) : <<name, j>> \in hosts
       /\ create' = [create EXCEPT ![n].pc = "insert", ![n].slug = <<name, i>>]
  /\ UNCHANGED hosts

(* The constraint refuses a slug that was taken since, and the call fails.  *)
InsertHost(n) ==
  /\ create[n].pc = "insert"
  /\ hosts' = hosts \cup {create[n].slug}
  /\ create' = [create EXCEPT ![n] = IdleCreate]

DeleteHost(s) ==
  /\ s \in hosts /\ hosts' = hosts \ {s}
  /\ UNCHANGED create

CreateStep(n) == CountHosts(n) \/ findUniqueSlug(n) \/ InsertHost(n)
=============================================================================
