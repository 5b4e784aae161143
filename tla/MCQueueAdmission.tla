-------------------------- MODULE MCQueueAdmission --------------------------
(* Instances of QueueAdmission for TLC. *)
EXTENDS QueueAdmission, TLC

(* One action is safe, every other one is guarded and of high risk. *)
SafeOrGuarded == [a \in Acts |-> IF a = CHOOSE b \in Acts : TRUE
                                 THEN "safe_auto" ELSE "guarded_auto"]
LowOrHigh     == [a \in Acts |-> IF SafeOrGuarded[a] = "safe_auto"
                                 THEN "low" ELSE "high"]

Symmetry == Permutations(Runs) \cup Permutations(Operators) \cup Permutations(Replays)
=============================================================================
