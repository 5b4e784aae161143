------------------------------ MODULE RunLease ------------------------------
(***************************************************************************)
(* What the remediation queue promises about a run, whatever its payload:  *)
(* it is leased to one drain at a time, only the holder of the lease runs  *)
(* its commands or settles it, the attempts are limited, and a run that    *)
(* was closed stays closed. A holder may vanish: the run then stays        *)
(* leased to nobody, which is the one promise the queue does not make.     *)
(*                                                                         *)
(* RemediationQueue implements this specification (Lease there).           *)
(***************************************************************************)
EXTENDS Naturals

CONSTANTS
  Runs,
  Workers,
  Waiting,      \* the runs there are at the start
  MaxAttempts,
  Nobody

VARIABLES
  state,   \* what the row of a run says
  holder,  \* the drain that has the run
  tried    \* attempts so far

vars == <<state, holder, tried>>

Init ==
  /\ state = [r \in Runs |-> IF r \in Waiting THEN "queued" ELSE "absent"]
  /\ holder = [r \in Runs |-> Nobody]
  /\ tried = [r \in Runs |-> 0]

(* A run is admitted, or created to replay the run s, which is then closed  *)
(* for good if it was a dead letter.                                        *)
Submit(r) ==
  /\ state[r] = "absent"
  /\ \/ state' = [state EXCEPT ![r] = "queued"]
     \/ \E s \in Runs :
          /\ state[s] = "failed"
          /\ state' = [state EXCEPT ![r] = "queued", ![s] = "canceled"]
  /\ UNCHANGED <<holder, tried>>

Take(w, r) ==
  /\ state[r] = "queued"
  /\ state' = [state EXCEPT ![r] = "running"]
  /\ holder' = [holder EXCEPT ![r] = w]
  /\ UNCHANGED tried

Try(w, r) ==
  /\ holder[r] = w
  /\ tried[r] < MaxAttempts
  /\ tried' = [tried EXCEPT ![r] = @ + 1]
  /\ UNCHANGED <<state, holder>>

Settle(w, r) ==
  /\ holder[r] = w
  /\ state[r] = "running"
  /\ \E to \in {"queued", "succeeded", "failed", "canceled"} :
       state' = [state EXCEPT ![r] = to]
  /\ holder' = [holder EXCEPT ![r] = Nobody]
  /\ UNCHANGED tried

Vanish(w, r) ==
  /\ holder[r] = w
  /\ holder' = [holder EXCEPT ![r] = Nobody]
  /\ UNCHANGED <<state, tried>>

Withdraw(r) ==
  /\ state[r] = "queued"
  /\ state' = [state EXCEPT ![r] = "canceled"]
  /\ UNCHANGED <<holder, tried>>

Next ==
  \E r \in Runs :
    \/ Submit(r) \/ Withdraw(r)
    \/ \E w \in Workers : Take(w, r) \/ Try(w, r) \/ Settle(w, r) \/ Vanish(w, r)

Spec == Init /\ [][Next]_vars
=============================================================================
