--------------------------- MODULE MCQueueService ---------------------------
(* Instances of QueueService and of Counterstrike for TLC. The two share no *)
(* state, so their interleavings show nothing: one moves while the other    *)
(* rests in its initial state.                                              *)
EXTENDS QueueService, Counterstrike

Powers == [n \in 0..MaxFails |-> 2^n]

StrikeRests  == request = [q \in Requests |-> IdleRequest] /\ \A q \in Requests : ~Alive(q)
ServiceRests == calls = 0 /\ pass[Worker].at = "idle" /\ worker.pause = 0

Init == ServiceInit /\ StrikeInit
Next == \/ ServiceNext /\ StrikeRests /\ ~blind /\ UNCHANGED strikeVars
        \/ StrikeNext /\ ServiceRests /\ UNCHANGED serviceVars
Spec == Init /\ [][Next]_<<serviceVars, strikeVars>> /\ ServiceFairness
=============================================================================
