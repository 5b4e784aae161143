--------------------------- MODULE MCHostTelemetry ---------------------------
(* Instances of HostTelemetry for TLC. *)
EXTENDS HostTelemetry, TLC

(* Three snapshots in the order they are taken: "loud" and "mild" carry the *)
(* first signal at two severities; in "other" it has given way to the second. *)
SentAt     == [m \in Msgs |-> CASE m = "loud" -> 0 [] m = "mild" -> 1 [] OTHER -> 2]
SeverityOf == [m \in Msgs |-> [s \in Signals |->
                 CASE m = "loud" /\ s = "tamper" -> 2
                   [] m = "mild" /\ s = "tamper" -> 1
                   [] m = "other" /\ s = "ports" -> 1
                   [] OTHER -> 0]]

Symmetry == Permutations(Keys) \cup Permutations(Admins) \cup Permutations(Ingests)
            \cup Permutations(Breaches)
==============================================================================
