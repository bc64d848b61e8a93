---------------------------- MODULE MCXioflowRuns ----------------------------
(* Instances of XioflowRuns for TLC. *)
EXTENDS XioflowRuns

CONSTANTS
    LastChance,   \* tasks with max_retries = 0, the others have 3
    AnyKind       \* runs of every kind, the others are scripts and DAGs

MCMaxRetries == [t \in Tasks |-> IF t \in LastChance THEN 0 ELSE 3]
MCKindsOf == [r \in Runs |-> IF r \in AnyKind THEN Kinds ELSE {"script", "dag"}]
=============================================================================
