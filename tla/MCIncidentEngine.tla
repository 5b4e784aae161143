-------------------------- MODULE MCIncidentEngine --------------------------
(* Instances of IncidentEngine for TLC. *)
EXTENDS IncidentEngine, TLC

(* One minute to acknowledge and two between escalations, whatever the      *)
(* severity; or a severity that is slower.                                  *)
Ack == [sev \in Severities |-> IF sev = "critical" THEN 1 ELSE 2]
Esc == [sev \in Severities |-> IF sev = "critical" THEN 2 ELSE 3]
=============================================================================
