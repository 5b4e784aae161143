------------------------ MODULE MCRemediationQueue ------------------------
(* Instances of RemediationQueue for TLC. *)
EXTENDS RemediationQueue, TLC

(* Delays after the first, second and third failed attempt. *)
OneTick    == [n \in 1..MaxAttempts |-> 1]
Growing    == [n \in 1..MaxAttempts |-> n]

(* Payload kinds of the execute route and of the autonomous queueing. *)
PlainKind    == [approval |-> "none", canary |-> "off", rollback |-> "off"]
GuardedKind  == [approval |-> "none", canary |-> "unchecked", rollback |-> "armed"]
RollbackKind == [approval |-> "none", canary |-> "off", rollback |-> "armed"]
RiskyKind    == [approval |-> "pending", canary |-> "off", rollback |-> "off"]

PlainOnly       == {PlainKind}
RollbackOnly    == {RollbackKind}
RiskyOnly       == {RiskyKind}
PlainAndGuarded == {PlainKind, GuardedKind}
PlainAndRisky   == {PlainKind, RiskyKind}

WorkerSymmetry == Permutations(Workers)
=============================================================================
