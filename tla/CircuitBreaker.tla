--------------------------- MODULE CircuitBreaker ---------------------------
(***************************************************************************)
(* The three-state circuit breaker of the DAG engine                       *)
(* (xioflow/engine/circuit_breaker.py) and the node executions that share  *)
(* it (dag_executor.py).  Parallel branches execute nodes concurrently, so *)
(* a node may report its result when the breaker has long left the state   *)
(* in which it admitted the node.  Each method runs under the breaker's    *)
(* lock and is one step.  Time is reduced to whether recovery_timeout has  *)
(* passed since the breaker opened.                                        *)
(***************************************************************************)
EXTENDS Naturals

CONSTANTS
    Nodes,              \* node executions that share the breaker
    FailureThreshold,   \* failure_threshold
    Silent,             \* those that may end without recording a result
    NoNode

ASSUME FailureThresholdAssumption == FailureThreshold \in Nat \ {0}
ASSUME NodesAssumption == Silent \subseteq Nodes /\ NoNode \notin Nodes

VARIABLES
    state,      \* CircuitState
    failures,   \* consecutive failures counted while CLOSED
    cooled,     \* time.time() - last_failure_time >= recovery_timeout
    running,    \* executions that were admitted and have not ended
    probe       \* the last execution that allow_request admitted out of OPEN

vars == <<state, failures, cooled, running, probe>>

Init ==
    /\ state = "CLOSED"
    /\ failures = 0
    /\ cooled = TRUE
    /\ running = {}
    /\ probe = NoNode

\* allow_request returns True; when it returns False nothing changes.
AllowRequest(n) ==
    /\ n \notin running
    /\ \/ state = "CLOSED" /\ UNCHANGED <<state, probe>>
       \/ state = "OPEN" /\ cooled /\ state' = "HALF_OPEN" /\ probe' = n
    /\ running' = running \cup {n}
    /\ UNCHANGED <<failures, cooled>>

\* Fault: a successful probe closes the breaker but keeps the old count.
RecordSuccessKeepingCount(n) ==
    /\ n \in running
    /\ running' = running \ {n}
    /\ state' = IF state = "HALF_OPEN" THEN "CLOSED" ELSE state
    /\ failures' = IF state = "CLOSED" THEN 0 ELSE failures
    /\ UNCHANGED <<cooled, probe>>

RecordSuccess(n) ==
    /\ n \in running
    /\ running' = running \ {n}
    /\ \/ state = "HALF_OPEN" /\ state' = "CLOSED" /\ failures' = 0
       \/ state = "CLOSED" /\ failures' = 0 /\ UNCHANGED state
       \/ state = "OPEN" /\ UNCHANGED <<state, failures>>
    /\ UNCHANGED <<cooled, probe>>

\* Fault: a failed probe is ignored.
RecordFailureWhenClosed(n) ==
    /\ n \in running
    /\ running' = running \ {n}
    /\ IF state = "CLOSED"
         THEN /\ failures' = failures + 1
              /\ state' = IF failures' >= FailureThreshold THEN "OPEN" ELSE state
              /\ cooled' = IF failures' >= FailureThreshold THEN FALSE ELSE cooled
         ELSE UNCHANGED <<state, failures, cooled>>
    /\ UNCHANGED probe

RecordFailure(n) ==
    /\ n \in running
    /\ running' = running \ {n}
    /\ \/ state = "HALF_OPEN" /\ state' = "OPEN" /\ cooled' = FALSE /\ UNCHANGED failures
       \/ /\ state = "CLOSED"
          /\ failures' = failures + 1
          /\ IF failures' >= FailureThreshold
               THEN state' = "OPEN" /\ cooled' = FALSE
               ELSE UNCHANGED <<state, cooled>>
       \/ state = "OPEN" /\ UNCHANGED <<state, failures, cooled>>
    /\ UNCHANGED probe

\* Nodes that end without recording: navigate, scroll_down, wait, delay,
\* conditional, done, a skipped bubble, a human_input that times out, an
\* llm_prompt without an answer, an exception raised by the page.
ReturnSilently(n) ==
    /\ n \in Silent \cap running
    /\ running' = running \ {n}
    /\ UNCHANGED <<state, failures, cooled, probe>>

\* recovery_timeout passes.
Elapse ==
    /\ state = "OPEN" /\ ~cooled
    /\ cooled' = TRUE
    /\ UNCHANGED <<state, failures, running, probe>>

NodeStep(n) == AllowRequest(n) \/ RecordSuccess(n) \/ RecordFailure(n) \/ ReturnSilently(n)

Next == Elapse \/ \E n \in Nodes : NodeStep(n)

Spec == Init /\ [][Next]_vars

\* Time passes, and every admitted execution ends in some way.
FairSpec ==
    /\ Spec
    /\ WF_vars(Elapse)
    /\ \A n \in Nodes : WF_vars(RecordSuccess(n) \/ RecordFailure(n) \/ ReturnSilently(n))

------------------------------------------------------------------------------
\* Every variable keeps its type.
TypeOK ==
    /\ state \in {"CLOSED", "OPEN", "HALF_OPEN"}
    /\ failures \in 0..FailureThreshold
    /\ cooled \in BOOLEAN
    /\ running \subseteq Nodes
    /\ probe \in Nodes \cup {NoNode}

\* The count and the state agree, whatever late results arrive: the breaker is
\* CLOSED exactly while fewer than FailureThreshold failures are counted.  A
\* breaker that closes therefore tolerates the full number of failures again.
CountTellsState == state = "CLOSED" <=> failures < FailureThreshold

\* The breaker admits again and again: it is closed, or open with its window
\* over ("60s open window").  Only a probe that may end without recording can
\* leave it HALF_OPEN, where it refuses for ever.
RefusalIsTemporary == []<>(state = "CLOSED" \/ (state = "OPEN" /\ cooled) \/ probe \in Silent)

------------------------------------------------------------------------------
\* Somebody can still end a HALF_OPEN breaker's refusals, unless its probe was
\* one that may end without recording.
ProbeIsAccountable == state = "HALF_OPEN" => probe \in running \cup Silent

\* The inductive invariant: one more failure is counted only while the breaker is
\* CLOSED, hence below the threshold.
BreakerIInv == TypeOK /\ CountTellsState /\ ProbeIsAccountable
=============================================================================
