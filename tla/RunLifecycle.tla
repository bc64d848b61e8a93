----------------------------- MODULE RunLifecycle -----------------------------
(***************************************************************************)
(* What a XIOFLOW run promises to whoever watches it, without tasks,       *)
(* transactions, reapers or requests in flight.  A run is submitted,       *)
(* started and finished.  A start is provisional until it is pinned: a     *)
(* provisional start may be taken back, and nobody can cancel the run      *)
(* while it lasts; a pinned one is only left for good.                     *)
(***************************************************************************)
CONSTANT Runs

VARIABLES
    phase,     \* [Runs -> phase of the run]
    pinned     \* runs whose start is durable

vars == <<phase, pinned>>

Ended == {"SUCCESS", "FAILED", "CANCELLED"}

Init ==
    /\ phase = [r \in Runs |-> "ABSENT"]
    /\ pinned = {}

Submit(r) ==
    /\ phase[r] = "ABSENT"
    /\ phase' = [phase EXCEPT ![r] = "PENDING"]
    /\ UNCHANGED pinned

Start(r) ==
    /\ phase[r] = "PENDING"
    /\ phase' = [phase EXCEPT ![r] = "RUNNING"]
    /\ pinned' \in {pinned, pinned \cup {r}}

Yield(r) ==
    /\ phase[r] = "RUNNING"
    /\ r \notin pinned
    /\ phase' = [phase EXCEPT ![r] = "PENDING"]
    /\ UNCHANGED pinned

Pin(r) ==
    /\ phase[r] = "RUNNING"
    /\ pinned' = pinned \cup {r}
    /\ UNCHANGED phase

Finish(r) ==
    /\ phase[r] = "RUNNING"
    /\ \E outcome \in {"SUCCESS", "FAILED"} : phase' = [phase EXCEPT ![r] = outcome]
    /\ pinned' = pinned \cup {r}

Cancel(r) ==
    /\ phase[r] = "PENDING" \/ (phase[r] = "RUNNING" /\ r \in pinned)
    /\ phase' = [phase EXCEPT ![r] = "CANCELLED"]
    /\ pinned' = pinned \cup {r}

\* Several abandoned runs fail in one step.
Expire(S) ==
    /\ \A r \in S : phase[r] = "RUNNING" /\ r \in pinned
    /\ phase' = [r \in Runs |-> IF r \in S THEN "FAILED" ELSE phase[r]]
    /\ UNCHANGED pinned

Next ==
    \/ \E r \in Runs : Submit(r) \/ Start(r) \/ Yield(r) \/ Pin(r) \/ Finish(r) \/ Cancel(r)
    \/ \E S \in SUBSET Runs : Expire(S)

Spec == Init /\ [][Next]_vars
=============================================================================
