----------------------------- MODULE DagBranches -----------------------------
(***************************************************************************)
(* The parallel execution mode of DAGExecutor._execute_node_inner and the  *)
(* BranchVars it forks workflow_vars into.  The branches are coroutines of *)
(* one event loop: they interleave wherever a node awaits.  Each branch    *)
(* stores its BranchVars in the executor's attribute self.workflow_vars    *)
(* when it gets the semaphore and restores what it found there when it     *)
(* ends; between the two, every node reads and writes whatever the         *)
(* attribute refers to.  With more than one permit (the default is five)   *)
(* branches run beside each other, and what the attribute refers to may be *)
(* the context of another branch, or the parent's.                         *)
(***************************************************************************)
EXTENDS Naturals, Sequences, FiniteSets, FiniteSetsExt

CONSTANTS
    NumBranches,     \* len(valid_next_nodes)
    Keys,            \* names of workflow variables
    MaxConcurrent    \* permits of the semaphore (max_concurrent)

ASSUME NumBranchesAssumption == NumBranches \in Nat \ {0}
ASSUME MaxConcurrentAssumption == MaxConcurrent \in Nat \ {0}

Branches == 1..NumBranches
Parent   == 0                \* the dict that workflow_vars was at the fork
Contexts == {Parent} \cup Branches

\* The value of a variable is the branch that wrote it; 0 is its value at the
\* fork.
VARIABLES
    current,   \* the context that self.workflow_vars refers to
    saved,     \* [Branches -> the local variable "saved"]
    pc,        \* [Branches -> "waiting" | "running" | "ended"]
    local,     \* [Contexts -> [Keys -> value]], BranchVars._local
    writes,    \* [Branches -> [Keys -> value]], BranchVars._writes, 0 if absent
    wrote,     \* [Branches -> keys the branch has assigned]
    join,      \* "open", "merged" or "raised"
    shared,    \* history: branches that ran beside another one
    crossed,   \* history: a branch ended before one that started after it
    stack      \* history: the running branches as they started, until crossed

historyVars  == <<shared, crossed, stack>>
branchesVars == <<current, saved, pc, local, writes, wrote, join, historyVars>>

\* The fork: one BranchVars per branch, each a copy of the parent.
BranchesInit ==
    /\ current = Parent
    /\ saved = [b \in Branches |-> Parent]
    /\ pc = [b \in Branches |-> "waiting"]
    /\ local = [c \in Contexts |-> [k \in Keys |-> 0]]
    /\ writes = [b \in Branches |-> [k \in Keys |-> 0]]
    /\ wrote = [b \in Branches |-> {}]
    /\ join = "open"
    /\ shared = {}
    /\ crossed = FALSE
    /\ stack = <<>>

Running == {b \in Branches : pc[b] = "running"}

\* What the history records when branch b starts, and when it ends.
Started(b) ==
    /\ shared' = IF Running = {} THEN shared ELSE shared \cup Running \cup {b}
    /\ stack' = IF crossed THEN stack ELSE Append(stack, b)
    /\ UNCHANGED crossed

Top == IF stack = <<>> THEN Parent ELSE stack[Len(stack)]

Ended(b) ==
    /\ crossed' = (crossed \/ Top # b)
    /\ stack' = IF crossed' THEN stack ELSE SubSeq(stack, 1, Len(stack) - 1)
    /\ UNCHANGED shared

\* async with semaphore; saved = self.workflow_vars; self.workflow_vars = bvars
Enter(b) ==
    /\ pc[b] = "waiting"
    /\ Cardinality(Running) < MaxConcurrent
    /\ pc' = [pc EXCEPT ![b] = "running"]
    /\ saved' = [saved EXCEPT ![b] = current]
    /\ current' = b
    /\ Started(b)
    /\ UNCHANGED <<local, writes, wrote, join>>

\* Fault: the branches are forked as references to one dict, not as copies.
AssignToAll(b, k) ==
    /\ pc[b] = "running"
    /\ k \notin wrote[b]
    /\ local' = [c \in Contexts |-> [local[c] EXCEPT ![k] = b]]
    /\ writes' = IF current = Parent THEN writes
                 ELSE [writes EXCEPT ![current][k] = b]
    /\ wrote' = [wrote EXCEPT ![b] = @ \cup {k}]
    /\ UNCHANGED <<current, saved, pc, join, historyVars>>

\* Fault: the executor updates _local of the context but not _writes.
AssignUntracked(b, k) ==
    /\ pc[b] = "running"
    /\ k \notin wrote[b]
    /\ local' = [local EXCEPT ![current][k] = b]
    /\ wrote' = [wrote EXCEPT ![b] = @ \cup {k}]
    /\ UNCHANGED <<current, saved, pc, writes, join, historyVars>>

\* A node of branch b stores its output: self.workflow_vars[k] = value, after
\* an await.  Each branch assigns a key at most once.
Assign(b, k) ==
    /\ pc[b] = "running"
    /\ k \notin wrote[b]
    /\ local' = [local EXCEPT ![current][k] = b]
    /\ writes' = IF current = Parent THEN writes
                 ELSE [writes EXCEPT ![current][k] = b]
    /\ wrote' = [wrote EXCEPT ![b] = @ \cup {k}]
    /\ UNCHANGED <<current, saved, pc, join, historyVars>>

\* Fault: the branch ends without restoring self.workflow_vars.
LeaveWithoutRestore(b) ==
    /\ pc[b] = "running"
    /\ pc' = [pc EXCEPT ![b] = "ended"]
    /\ Ended(b)
    /\ UNCHANGED <<current, saved, local, writes, wrote, join>>

\* _execute_node returns True or False; finally: self.workflow_vars = saved
Leave(b) ==
    /\ pc[b] = "running"
    /\ pc' = [pc EXCEPT ![b] = "ended"]
    /\ current' = saved[b]
    /\ Ended(b)
    /\ UNCHANGED <<saved, local, writes, wrote, join>>

\* An exception leaves the branch: asyncio.gather raises it at once and the
\* parent never merges, while the other branches keep running.
RaiseOut(b) ==
    /\ pc[b] = "running"
    /\ pc' = [pc EXCEPT ![b] = "ended"]
    /\ current' = saved[b]
    /\ Ended(b)
    /\ join' = IF join = "open" THEN "raised" ELSE join
    /\ UNCHANGED <<saved, local, writes, wrote>>

\* merge_branch_results(self.workflow_vars, branch_vars_list): the writes of
\* the branches in order, into whatever self.workflow_vars now refers to.
LastWrite(k) ==
    LET B == {b \in Branches : writes[b][k] # 0}
    IN  IF B = {} THEN local[current][k] ELSE writes[Max(B)][k]

Merge ==
    /\ join = "open"
    /\ \A b \in Branches : pc[b] = "ended"
    /\ local' = [local EXCEPT ![current] = [k \in Keys |-> LastWrite(k)]]
    /\ join' = "merged"
    /\ UNCHANGED <<current, saved, pc, writes, wrote, historyVars>>

BranchStep(b) ==
    \/ Enter(b)
    \/ \E k \in Keys : Assign(b, k)
    \/ Leave(b)
    \/ RaiseOut(b)

BranchesNext == Merge \/ \E b \in Branches : BranchStep(b)

BranchesSpec == BranchesInit /\ [][BranchesNext]_branchesVars

------------------------------------------------------------------------------
\* Every variable keeps its type.
BranchesTypeOK ==
    /\ current \in Contexts
    /\ saved \in [Branches -> Contexts]
    /\ pc \in [Branches -> {"waiting", "running", "ended"}]
    /\ local \in [Contexts -> [Keys -> Contexts]]
    /\ writes \in [Branches -> [Keys -> Contexts]]
    /\ wrote \in [Branches -> SUBSET Keys]
    /\ join \in {"open", "merged", "raised"}
    /\ shared \subseteq Branches
    /\ crossed \in BOOLEAN
    /\ stack \in Seq(Branches)

\* The branches that assigned variable k.
Writers(k) == {b \in Branches : k \in wrote[b]}

\* A branch that never ran beside another one sees its own assignments and the
\* values of the fork, whatever its siblings did among themselves.  The code's
\* comment ("each branch gets an isolated snapshot") promises it of every branch,
\* which only one permit could keep.
LoneBranchesAreIsolated ==
    \A b \in Branches \ shared, k \in Keys : local[b][k] \in {0, b}

\* What the join leaves in a variable: the value of the last branch in order
\* that assigned it ("deterministic last-writer-wins") if none of its writers
\* ran beside another branch; and if they did, as long as branches ended in the
\* reverse order of their starts, at least the value of one of its writers.
JoinKeepsAssignments ==
    join = "merged" =>
        \A k \in Keys :
            /\ Writers(k) \cap shared = {} =>
                  local[current][k] = IF Writers(k) = {} THEN 0 ELSE Max(Writers(k))
            /\ ~crossed /\ Writers(k) # {} => local[current][k] \in Writers(k)

\* Once the branches are through, the executor has its own variables back,
\* however many ran beside each other, unless one ended before another that
\* started after it.
ParentIsRestored == (\A b \in Branches : pc[b] = "ended") /\ ~crossed => current = Parent

------------------------------------------------------------------------------
\* The inductive invariant behind the properties, for any number of permits.

\* No variable has a value that was not assigned to it.  What stands for a key,
\* in a context or among the tracked writes, is its value at the fork or a
\* branch that assigned that key.
ValuesAreAssigned ==
    /\ \A c \in Contexts, k \in Keys : local[c][k] # 0 => k \in wrote[local[c][k]]
    /\ \A b \in Branches, k \in Keys : writes[b][k] # 0 => k \in wrote[writes[b][k]]

\* A lone branch has its own context in place while it runs; afterwards the
\* context is out of reach, for nobody saved it.
LoneContext ==
    /\ \A b \in Running \ shared : current = b /\ Running = {b}
    /\ current \in Running \cup shared \cup {Parent}
    /\ \A b \in Branches : saved[b] \in shared \cup {Parent}

\* The assignments of a lone branch are in its own context and among its own
\* tracked writes, and nowhere else.
LoneWrites ==
    /\ \A b \in Branches, k \in Keys :
          /\ writes[b][k] \in shared \cup {0, b}
          /\ b \notin shared /\ k \in wrote[b] => writes[b][k] = b
    /\ LoneBranchesAreIsolated

\* Until branches cross, they are stacked: the last one to start has its context
\* in place, and each has saved the context of the one below it.
StackIsKept ==
    ~crossed =>
        /\ current = Top
        /\ \A i \in 1..Len(stack) :
              /\ pc[stack[i]] = "running"
              /\ saved[stack[i]] = IF i = 1 THEN Parent ELSE stack[i - 1]
              /\ \A j \in 1..Len(stack) : stack[i] = stack[j] => i = j
        /\ \A b \in Running : \E i \in 1..Len(stack) : stack[i] = b

\* Until branches cross, no assignment goes untracked.
WritesAreTracked ==
    ~crossed => \A b \in Branches : \A k \in wrote[b] : \E c \in Branches : writes[c][k] # 0

MergeIsLast == join = "merged" => \A b \in Branches : pc[b] = "ended"

BranchesIInv ==
    /\ BranchesTypeOK
    /\ ValuesAreAssigned
    /\ LoneContext
    /\ LoneWrites
    /\ StackIsKept
    /\ WritesAreTracked
    /\ MergeIsLast
    /\ JoinKeepsAssignments
=============================================================================
