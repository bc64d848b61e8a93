--------------------------- MODULE DagEngineProofs ---------------------------
(***************************************************************************)
(* Proofs about the DAG engine: CircuitBreaker, for every set of node      *)
(* executions and every failure threshold, and DagBranches, for every      *)
(* number of branches, of permits and of keys.  The two specifications     *)
(* share no variable.                                                      *)
(***************************************************************************)
EXTENDS CircuitBreaker, DagBranches, SequenceTheorems, WellFoundedInduction, TLAPS

------------------------------------------------------------------------------
\* CircuitBreaker

\* The inductive invariant of the breaker holds initially.
LEMMA InitBreakerIInv == Init => BreakerIInv
  BY FailureThresholdAssumption
     DEF Init, BreakerIInv, TypeOK, CountTellsState, ProbeIsAccountable

\* A request is admitted without touching the count; only a breaker that was
\* OPEN changes its state, and its probe is under way.
LEMMA AllowRequestIInv ==
    ASSUME BreakerIInv, NEW n \in Nodes, AllowRequest(n)
    PROVE  BreakerIInv'
  <1> USE DEF BreakerIInv, TypeOK, AllowRequest
  <1>1. TypeOK' /\ CountTellsState'
    BY DEF CountTellsState
  <1>2. ProbeIsAccountable'
    BY DEF ProbeIsAccountable
  <1> QED BY <1>1, <1>2

\* A success closes the breaker only together with a count of zero, and a late
\* one leaves an OPEN breaker and its count alone.
LEMMA RecordSuccessIInv ==
    ASSUME BreakerIInv, NEW n \in Nodes, RecordSuccess(n)
    PROVE  BreakerIInv'
  <1> USE FailureThresholdAssumption DEF BreakerIInv, TypeOK, RecordSuccess
  <1>1. TypeOK' /\ CountTellsState'
    BY DEF CountTellsState
  <1>2. state' # "HALF_OPEN"
    OBVIOUS
  <1> QED BY <1>1, <1>2 DEF ProbeIsAccountable

\* A failure is counted while CLOSED only, and the one that reaches the
\* threshold opens the breaker.
LEMMA RecordFailureIInv ==
    ASSUME BreakerIInv, NEW n \in Nodes, RecordFailure(n)
    PROVE  BreakerIInv'
  <1> USE FailureThresholdAssumption DEF BreakerIInv, TypeOK, CountTellsState, RecordFailure
  <1>1. CASE state = "CLOSED"
    <2>1. failures < FailureThreshold /\ failures' = failures + 1
      BY <1>1
    <2>2. failures' \in 0..FailureThreshold
      BY <2>1
    <2>3. CASE failures' >= FailureThreshold
      <3>1. state' = "OPEN" /\ cooled' \in BOOLEAN
        BY <1>1, <2>3
      <3>2. TypeOK'
        BY <2>2, <3>1
      <3>3. CountTellsState'
        BY <2>2, <2>3, <3>1
      <3> QED BY <3>1, <3>2, <3>3 DEF ProbeIsAccountable
    <2>4. CASE ~(failures' >= FailureThreshold)
      <3>1. state' = "CLOSED" /\ cooled' = cooled
        BY <1>1, <2>4
      <3> QED BY <2>2, <2>4, <3>1 DEF ProbeIsAccountable
    <2> QED BY <2>3, <2>4
  <1>2. CASE state # "CLOSED"
    <2>1. TypeOK' /\ CountTellsState' /\ state' # "HALF_OPEN"
      BY <1>2
    <2> QED BY <2>1 DEF ProbeIsAccountable
  <1> QED BY <1>1, <1>2

\* Only a node of Silent leaves a HALF_OPEN breaker without a result.
LEMMA ReturnSilentlyIInv ==
    ASSUME BreakerIInv, NEW n \in Nodes, ReturnSilently(n)
    PROVE  BreakerIInv'
  BY DEF BreakerIInv, TypeOK, CountTellsState, ProbeIsAccountable, ReturnSilently

\* The invariant is inductive.
LEMMA NextBreakerIInv == BreakerIInv /\ [Next]_vars => BreakerIInv'
  <1> SUFFICES ASSUME BreakerIInv, [Next]_vars PROVE BreakerIInv'
    OBVIOUS
  <1>1. CASE UNCHANGED vars
    BY <1>1 DEF vars, BreakerIInv, TypeOK, CountTellsState, ProbeIsAccountable
  <1>2. CASE Elapse
    BY <1>2 DEF Elapse, BreakerIInv, TypeOK, CountTellsState, ProbeIsAccountable
  <1>3. ASSUME NEW n \in Nodes, NodeStep(n) PROVE BreakerIInv'
    BY <1>3, AllowRequestIInv, RecordSuccessIInv, RecordFailureIInv, ReturnSilentlyIInv
       DEF NodeStep
  <1> QED BY <1>1, <1>2, <1>3 DEF Next

\* The inductive invariant holds in every reachable state.
THEOREM BreakerInvariance == Spec => []BreakerIInv
  BY InitBreakerIInv, NextBreakerIInv, PTL DEF Spec

\* Every variable of the breaker and its executions keeps its type; in
\* particular the count never passes the threshold.
THEOREM BreakerTypeCorrectness == Spec => []TypeOK
  <1>1. BreakerIInv => TypeOK
    BY DEF BreakerIInv
  <1> QED BY <1>1, BreakerInvariance, PTL

\* The breaker is CLOSED exactly while fewer failures than the threshold are
\* counted, whatever results arrive late and whatever executions never report.
THEOREM ClosedBelowThreshold == Spec => []CountTellsState
  <1>1. BreakerIInv => CountTellsState
    BY DEF BreakerIInv
  <1> QED BY <1>1, BreakerInvariance, PTL

\* A HALF_OPEN breaker, which refuses everybody, waits for an execution that is
\* still running and will report, or it admitted a probe that may end without a
\* word: nothing else can make its refusals last.
THEOREM RefusalHasACause == Spec => []ProbeIsAccountable
  <1>1. BreakerIInv => ProbeIsAccountable
    BY DEF BreakerIInv
  <1> QED BY <1>1, BreakerInvariance, PTL

------------------------------------------------------------------------------
\* DagBranches: for every number of permits

\* The last of some branches is one of them.
LEMMA LastBranch ==
    ASSUME NEW B \in SUBSET Branches, B # {}
    PROVE  Max(B) \in B
  <1> DEFINE before(b) == NumBranches - b
             T == {before(b) : b \in B}
  <1>1. T \in SUBSET Nat /\ T # {}
    <2>1. \A b \in B : before(b) \in Nat
      BY NumBranchesAssumption DEF Branches
    <2> QED BY <2>1
  <1>2. IsWellFoundedOn(OpToRel(<, Nat), Nat)
    BY NatLessThanWellFounded
  <1>3. \A x, y \in Nat : y < x => <<y, x>> \in OpToRel(<, Nat)
    BY DEF OpToRel
  <1>4. PICK R : IsWellFoundedOn(R, Nat) /\ \A x, y \in Nat : y < x => <<y, x>> \in R
    BY <1>2, <1>3, Zenon
  <1> HIDE DEF T
  <1>5. PICK t \in T : \A y \in T : <<y, t>> \notin R
    BY <1>1, <1>4, WFMin
  <1>6. \A y \in T : ~(y < t)
    BY <1>1, <1>4, <1>5, Zenon
  <1>7. PICK b \in B : t = before(b)
    BY <1>5 DEF T
  <1>8. \A c \in B : ~(before(c) < before(b))
    BY <1>6, <1>7 DEF T
  <1>9. \A c \in B : b >= c
    BY <1>8, NumBranchesAssumption DEF Branches
  <1> QED BY <1>9 DEF Max

\* What the merge finds for a key: what is there already, when no branch has a
\* tracked write of it, or the tracked write of the last branch that has one.
LEMMA LastWriteSource ==
    ASSUME NEW k \in Keys,
           NEW B \in SUBSET Branches, B = {b \in Branches : writes[b][k] # 0}
    PROVE  /\ B = {} => LastWrite(k) = local[current][k]
           /\ B # {} => Max(B) \in B /\ LastWrite(k) = writes[Max(B)][k]
  BY LastBranch DEF LastWrite

\* What the merge leaves for a key has a value's type, and a branch that has
\* assigned the key if it is not the value at the fork.
LEMMA LastWriteIsAssigned ==
    ASSUME BranchesTypeOK, ValuesAreAssigned, NEW k \in Keys
    PROVE  LastWrite(k) \in Contexts /\ (LastWrite(k) # 0 => k \in wrote[LastWrite(k)])
  <1> DEFINE B == {b \in Branches : writes[b][k] # 0}
  <1>1. CASE B = {}
    <2>1. LastWrite(k) = local[current][k] /\ current \in Contexts
      BY <1>1, LastWriteSource DEF BranchesTypeOK
    <2> QED BY <2>1 DEF BranchesTypeOK, ValuesAreAssigned
  <1>2. CASE B # {}
    <2>1. PICK b \in Branches : LastWrite(k) = writes[b][k]
      BY <1>2, LastWriteSource
    <2> QED BY <2>1 DEF BranchesTypeOK, ValuesAreAssigned
  <1> QED BY <1>1, <1>2

\* A branch is not the parent.
LEMMA BranchIsNoParent == \A b \in Branches : b \in Contexts /\ b # 0 /\ b # Parent
  BY NumBranchesAssumption DEF Branches, Contexts, Parent

\* A branch that ends on top of the stack leaves the branches below it.
LEMMA PoppedStack ==
    ASSUME stack \in Seq(Branches), stack # <<>>
    PROVE  LET below == SubSeq(stack, 1, Len(stack) - 1)
           IN  /\ below \in Seq(Branches)
               /\ Len(below) = Len(stack) - 1
               /\ \A i \in 1..Len(stack) - 1 : below[i] = stack[i]
  <1> DEFINE m == Len(stack) - 1
  <1>1. m \in Nat /\ Len(stack) = m + 1
    OBVIOUS
  <1>2. 1 \in 1..(Len(stack) + 1) /\ m \in (1 - 1)..Len(stack)
    BY <1>1
  <1>3. /\ SubSeq(stack, 1, m) \in Seq(Branches)
        /\ Len(SubSeq(stack, 1, m)) = IF 1 <= m THEN m - 1 + 1 ELSE 0
        /\ \A i \in 1..(m - 1 + 1) : SubSeq(stack, 1, m)[i] = stack[1 + i - 1]
    BY <1>2, SubSeqProperties
  <1> QED BY <1>1, <1>3

\* The history keeps its type when a branch starts and when it ends.
LEMMA HistoryTypes ==
    ASSUME BranchesTypeOK, NEW b \in Branches, Started(b) \/ Ended(b)
    PROVE  shared' \in SUBSET Branches /\ crossed' \in BOOLEAN /\ stack' \in Seq(Branches)
  <1>1. CASE Started(b)
    BY <1>1 DEF Started, Running, BranchesTypeOK
  <1>2. CASE Ended(b)
    <2>1. CASE stack = <<>>
      <3>1. crossed' = TRUE
        BY <1>2, <2>1, BranchIsNoParent DEF Ended, Top, BranchesTypeOK
      <3> QED BY <1>2, <3>1 DEF Ended, BranchesTypeOK
    <2>2. CASE stack # <<>>
      BY <1>2, <2>2, PoppedStack DEF Ended, BranchesTypeOK
    <2> QED BY <2>1, <2>2
  <1> QED BY <1>1, <1>2

\* Every variable of the executor and the branches keeps its type at a step.
LEMMA BranchesNextTypeOK ==
    BranchesTypeOK /\ ValuesAreAssigned /\ [BranchesNext]_branchesVars => BranchesTypeOK'
  <1> SUFFICES ASSUME BranchesTypeOK, ValuesAreAssigned, [BranchesNext]_branchesVars
               PROVE  BranchesTypeOK'
    OBVIOUS
  <1>0. \A b \in Branches : b \in Contexts
    BY DEF Contexts
  <1> USE DEF BranchesTypeOK
  <1>1. CASE UNCHANGED branchesVars
    BY <1>1 DEF branchesVars, historyVars
  <1>2. CASE Merge
    <2>1. \A k \in Keys : LastWrite(k) \in Contexts
      BY LastWriteIsAssigned
    <2>2. [k \in Keys |-> LastWrite(k)] \in [Keys -> Contexts]
      BY <2>1
    <2> HIDE DEF LastWrite
    <2>3. local' \in [Contexts -> [Keys -> Contexts]]
      BY <1>2, <2>2 DEF Merge
    <2> QED BY <1>2, <2>3 DEF Merge, historyVars
  <1>3. ASSUME NEW b \in Branches, BranchStep(b) PROVE BranchesTypeOK'
    <2>1. CASE Enter(b)
      BY <1>0, <2>1, HistoryTypes DEF Enter
    <2>2. ASSUME NEW k \in Keys, Assign(b, k) PROVE BranchesTypeOK'
      <3>1. local' \in [Contexts -> [Keys -> Contexts]]
        BY <1>0, <2>2 DEF Assign
      <3>2. writes' \in [Branches -> [Keys -> Contexts]]
        BY <1>0, <2>2 DEF Assign
      <3>3. wrote' \in [Branches -> SUBSET Keys]
        BY <2>2 DEF Assign
      <3> QED BY <2>2, <3>1, <3>2, <3>3 DEF Assign, historyVars
    <2>3. CASE Leave(b)
      BY <2>3, HistoryTypes DEF Leave
    <2>4. CASE RaiseOut(b)
      BY <2>4, HistoryTypes DEF RaiseOut
    <2> QED BY <1>3, <2>1, <2>2, <2>3, <2>4 DEF BranchStep
  <1> QED BY <1>1, <1>2, <1>3 DEF BranchesNext

\* No step leaves a value that was not assigned: a node assigns what its branch
\* is recorded to have assigned, and the merge only copies.
LEMMA NextValuesAreAssigned ==
    BranchesTypeOK /\ ValuesAreAssigned /\ [BranchesNext]_branchesVars => ValuesAreAssigned'
  <1> SUFFICES ASSUME BranchesTypeOK, ValuesAreAssigned, [BranchesNext]_branchesVars
               PROVE  ValuesAreAssigned'
    OBVIOUS
  <1>1. CASE UNCHANGED <<local, writes, wrote>>
    BY <1>1 DEF ValuesAreAssigned
  <1>2. CASE Merge
    <2>1. \A k \in Keys : LastWrite(k) # 0 => k \in wrote[LastWrite(k)]
      BY LastWriteIsAssigned
    <2>2. \A c \in Contexts, k \in Keys :
            local'[c][k] = IF c = current THEN LastWrite(k) ELSE local[c][k]
      BY <1>2 DEF Merge, BranchesTypeOK
    <2>3. UNCHANGED <<writes, wrote>>
      BY <1>2 DEF Merge
    <2> QED BY <2>1, <2>2, <2>3 DEF ValuesAreAssigned
  <1>3. ASSUME NEW b \in Branches, NEW k \in Keys, Assign(b, k) PROVE ValuesAreAssigned'
    <2>1. \A c \in Contexts, j \in Keys :
            local'[c][j] = IF c = current /\ j = k THEN b ELSE local[c][j]
      BY <1>3 DEF Assign, BranchesTypeOK
    <2>2. \A c \in Branches, j \in Keys :
            writes'[c][j] = IF c = current /\ j = k THEN b ELSE writes[c][j]
      <3>1. CASE current = Parent
        <4>1. \A c \in Branches : c # current
          BY <3>1, NumBranchesAssumption DEF Branches, Parent
        <4> QED BY <1>3, <3>1, <4>1 DEF Assign
      <3>2. CASE current # Parent
        BY <1>3, <3>2 DEF Assign, BranchesTypeOK
      <3> QED BY <3>1, <3>2
    <2>3. \A c \in Branches : wrote'[c] = IF c = b THEN wrote[c] \cup {k} ELSE wrote[c]
      BY <1>3 DEF Assign, BranchesTypeOK
    <2>4. \A c \in Contexts, j \in Keys : local[c][j] # 0 => local[c][j] \in Branches
      BY DEF BranchesTypeOK, Contexts, Parent
    <2>5. \A c \in Branches, j \in Keys : writes[c][j] # 0 => writes[c][j] \in Branches
      BY DEF BranchesTypeOK, Contexts, Parent
    <2>6. k \in wrote'[b] /\ \A c \in Branches, j \in Keys : j \in wrote[c] => j \in wrote'[c]
      BY <2>3
    <2> HIDE DEF Branches
    <2>7. \A c \in Contexts, j \in Keys : local'[c][j] # 0 => j \in wrote'[local'[c][j]]
      <3> SUFFICES ASSUME NEW c \in Contexts, NEW j \in Keys, local'[c][j] # 0
                   PROVE  j \in wrote'[local'[c][j]]
        OBVIOUS
      <3>1. CASE c = current /\ j = k
        BY <2>1, <2>6, <3>1, Zenon
      <3>2. CASE ~(c = current /\ j = k)
        <4>1. local'[c][j] = local[c][j]
          BY <2>1, <3>2
        <4>2. local[c][j] \in Branches /\ j \in wrote[local[c][j]]
          BY <2>4, <4>1 DEF ValuesAreAssigned
        <4> QED BY <2>6, <4>1, <4>2
      <3> QED BY <3>1, <3>2
    <2>8. \A c \in Branches, j \in Keys : writes'[c][j] # 0 => j \in wrote'[writes'[c][j]]
      <3> SUFFICES ASSUME NEW c \in Branches, NEW j \in Keys, writes'[c][j] # 0
                   PROVE  j \in wrote'[writes'[c][j]]
        OBVIOUS
      <3>1. CASE c = current /\ j = k
        BY <2>2, <2>6, <3>1, Zenon
      <3>2. CASE ~(c = current /\ j = k)
        <4>1. writes'[c][j] = writes[c][j]
          BY <2>2, <3>2
        <4>2. writes[c][j] \in Branches /\ j \in wrote[writes[c][j]]
          BY <2>5, <4>1 DEF ValuesAreAssigned
        <4> QED BY <2>6, <4>1, <4>2
      <3> QED BY <3>1, <3>2
    <2> QED BY <2>7, <2>8 DEF ValuesAreAssigned
  <1>4. ASSUME NEW b \in Branches, Enter(b) \/ Leave(b) \/ RaiseOut(b)
        PROVE  UNCHANGED <<local, writes, wrote>>
    BY <1>4 DEF Enter, Leave, RaiseOut
  <1>5. UNCHANGED branchesVars => UNCHANGED <<local, writes, wrote>>
    BY DEF branchesVars
  <1> QED BY <1>1, <1>2, <1>3, <1>4, <1>5 DEF BranchesNext, BranchStep

\* Every variable of the executor and the branches keeps its type, and no
\* variable of a workflow has a value that no branch assigned to it, for every
\* number of permits: branches may take each other's values, never invent one.
THEOREM BranchesTypeCorrectness == BranchesSpec => [](BranchesTypeOK /\ ValuesAreAssigned)
  <1>1. BranchesInit => BranchesTypeOK /\ ValuesAreAssigned
    <2>1. BranchesInit => BranchesTypeOK
      <3>1. <<>> \in Seq(Branches)
        OBVIOUS
      <3>2. Parent \in Contexts /\ 0 \in Contexts
        BY DEF Contexts, Parent
      <3>3. BranchesInit => stack \in Seq(Branches) /\ wrote \in [Branches -> SUBSET Keys]
        BY <3>1 DEF BranchesInit
      <3>4. BranchesInit => /\ local \in [Contexts -> [Keys -> Contexts]]
                            /\ writes \in [Branches -> [Keys -> Contexts]]
        BY <3>2 DEF BranchesInit
      <3>5. BranchesInit => current \in Contexts /\ saved \in [Branches -> Contexts]
        BY <3>2 DEF BranchesInit
      <3> QED BY <3>3, <3>4, <3>5 DEF BranchesInit, BranchesTypeOK
    <2>2. BranchesInit => ValuesAreAssigned
      BY DEF BranchesInit, ValuesAreAssigned
    <2> QED BY <2>1, <2>2
  <1> QED BY <1>1, BranchesNextTypeOK, NextValuesAreAssigned, PTL DEF BranchesSpec


------------------------------------------------------------------------------
\* DagBranches: what branches that run beside each other keep

\* The fork satisfies the invariant.
LEMMA InitBranchesIInv == BranchesInit /\ BranchesTypeOK /\ ValuesAreAssigned => BranchesIInv
  <1> SUFFICES ASSUME BranchesInit, BranchesTypeOK, ValuesAreAssigned PROVE BranchesIInv
    OBVIOUS
  <1>1. LoneContext
    BY DEF BranchesInit, LoneContext, Running
  <1>2. LoneWrites
    BY DEF BranchesInit, LoneWrites, LoneBranchesAreIsolated, Contexts
  <1>3. StackIsKept
    BY DEF BranchesInit, StackIsKept, Running, Top
  <1>4. WritesAreTracked /\ MergeIsLast /\ JoinKeepsAssignments
    BY DEF BranchesInit, WritesAreTracked, MergeIsLast, JoinKeepsAssignments
  <1> QED BY <1>1, <1>2, <1>3, <1>4 DEF BranchesIInv

\* Until branches cross, the one whose context is in place runs, and so does
\* every branch while the stack is not empty.
LEMMA TopIsRunning ==
    ASSUME BranchesTypeOK, StackIsKept, ~crossed
    PROVE  /\ stack = <<>> => current = Parent /\ Running = {}
           /\ stack # <<>> => current = stack[Len(stack)] /\ current \in Branches
  <1>1. Len(stack) \in Nat /\ (stack = <<>> <=> Len(stack) = 0)
    BY DEF BranchesTypeOK
  <1>2. CASE stack = <<>>
    BY <1>1, <1>2 DEF StackIsKept, Top, Running
  <1>3. CASE stack # <<>>
    <2>1. Len(stack) \in 1..Len(stack)
      BY <1>1, <1>3
    <2> QED BY <1>3, <2>1 DEF StackIsKept, Top, BranchesTypeOK
  <1> QED BY <1>2, <1>3

\* A branch that starts saves what is in place, the parent's variables if no
\* branch runs and the context of a branch that is no longer alone if one does.
LEMMA EnterIInv ==
    ASSUME BranchesIInv, BranchesTypeOK', ValuesAreAssigned',
           NEW b \in Branches, Enter(b)
    PROVE  BranchesIInv'
  <1>1. /\ pc[b] = "waiting" /\ pc' = [pc EXCEPT ![b] = "running"]
        /\ saved' = [saved EXCEPT ![b] = current] /\ current' = b
        /\ UNCHANGED <<local, writes, wrote, join, crossed>>
        /\ shared' = IF Running = {} THEN shared ELSE shared \cup Running \cup {b}
        /\ stack' = IF crossed THEN stack ELSE Append(stack, b)
    BY DEF Enter, Started
  <1>2. Running' = Running \cup {b} /\ b \notin Running
    BY <1>1 DEF Running, BranchesIInv, BranchesTypeOK
  <1>3. shared \subseteq shared'
    BY <1>1
  <1>4. LoneContext'
    <2>1. saved'[b] = current /\ \A c \in Branches : c # b => saved'[c] = saved[c]
      BY <1>1 DEF BranchesIInv, BranchesTypeOK
    <2>2. CASE Running = {}
      <3>1. Running' = {b} /\ shared' = shared
        BY <1>1, <1>2, <2>2
      <3>2. \A c \in Branches : saved'[c] \in shared \cup {Parent}
        BY <2>1, <2>2 DEF BranchesIInv, LoneContext
      <3> QED BY <1>1, <3>1, <3>2 DEF LoneContext
    <2>3. CASE Running # {}
      <3>1. Running' \subseteq shared' /\ Running \subseteq shared' /\ b \in shared'
        BY <1>1, <1>2, <2>3
      <3>2. \A c \in Branches : saved'[c] \in shared' \cup {Parent}
        BY <1>3, <2>1, <3>1 DEF BranchesIInv, LoneContext
      <3> QED BY <1>1, <3>1, <3>2 DEF LoneContext
    <2> QED BY <2>2, <2>3
  <1>5. LoneWrites'
    BY <1>1, <1>3 DEF BranchesIInv, LoneWrites, LoneBranchesAreIsolated
  <1>6. StackIsKept'
    <2> SUFFICES ASSUME ~crossed PROVE StackIsKept'
      BY <1>1 DEF StackIsKept
    <2> DEFINE n == Len(stack)
    <2>1. n \in Nat /\ stack \in Seq(Branches) /\ stack' = Append(stack, b)
      BY <1>1 DEF BranchesIInv, BranchesTypeOK
    <2>2. /\ Len(stack') = n + 1 /\ stack' # <<>> /\ stack'[n + 1] = b
          /\ \A i \in 1..n : stack'[i] = stack[i] /\ stack[i] \in Branches
      BY <2>1
    <2>3. current = Top /\ (n = 0 <=> stack = <<>>)
      BY <2>1 DEF BranchesIInv, StackIsKept
    <2>4. /\ \A i \in 1..n : /\ pc[stack[i]] = "running" /\ stack[i] # b
                             /\ saved[stack[i]] = IF i = 1 THEN Parent ELSE stack[i - 1]
                             /\ \A j \in 1..n : stack[i] = stack[j] => i = j
          /\ \A c \in Running : \E i \in 1..n : stack[i] = c
      BY <1>1 DEF BranchesIInv, StackIsKept
    <2>5. /\ pc'[b] = "running" /\ saved'[b] = current
          /\ \A c \in Branches : c # b => pc'[c] = pc[c] /\ saved'[c] = saved[c]
      BY <1>1 DEF BranchesIInv, BranchesTypeOK
    <2> HIDE DEF n
    <2>6. current' = Top'
      BY <1>1, <2>2 DEF Top
    <2>7. ASSUME NEW i \in 1..(n + 1)
          PROVE  /\ pc'[stack'[i]] = "running"
                 /\ saved'[stack'[i]] = IF i = 1 THEN Parent ELSE stack'[i - 1]
                 /\ \A j \in 1..(n + 1) : stack'[i] = stack'[j] => i = j
      <3>1. CASE i = n + 1
        <4>1. saved'[b] = IF i = 1 THEN Parent ELSE stack'[i - 1]
          <5>1. CASE n = 0
            BY <2>1, <2>3, <2>5, <3>1, <5>1 DEF Top
          <5>2. CASE n # 0
            <6>1. n \in 1..n /\ i # 1 /\ i - 1 = n
              BY <2>1, <3>1, <5>2
            <6> QED BY <2>2, <2>3, <2>5, <5>2, <6>1 DEF Top, n
          <5> QED BY <5>1, <5>2
        <4>2. \A j \in 1..(n + 1) : stack'[j] = b => j = n + 1
          <5>1. \A j \in 1..(n + 1) : j \in 1..n \/ j = n + 1
            BY <2>1
          <5> QED BY <2>2, <2>4, <5>1
        <4> QED BY <2>2, <2>5, <3>1, <4>1, <4>2
      <3>2. CASE i \in 1..n
        <4>1. stack'[i] = stack[i] /\ stack[i] \in Branches /\ stack[i] # b
          BY <2>2, <2>4, <3>2
        <4>2. i # 1 => stack'[i - 1] = stack[i - 1]
          BY <2>1, <2>2, <3>2
        <4>3. \A j \in 1..(n + 1) : stack'[i] = stack'[j] => i = j
          <5>1. \A j \in 1..(n + 1) : j \in 1..n \/ j = n + 1
            BY <2>1
          <5> QED BY <2>2, <2>4, <3>2, <4>1, <5>1
        <4> QED BY <2>4, <2>5, <3>2, <4>1, <4>2, <4>3
      <3>3. i = n + 1 \/ i \in 1..n
        BY <2>1
      <3> QED BY <3>1, <3>2, <3>3
    <2>8. \A c \in Running' : \E i \in 1..(n + 1) : stack'[i] = c
      <3>1. n + 1 \in 1..(n + 1) /\ \A i \in 1..n : i \in 1..(n + 1)
        BY <2>1
      <3> QED BY <1>2, <2>2, <2>4, <3>1
    <2> QED BY <2>2, <2>6, <2>7, <2>8 DEF StackIsKept
  <1>7. WritesAreTracked'
    BY <1>1 DEF BranchesIInv, WritesAreTracked
  <1>8. join' # "merged"
    BY <1>1 DEF BranchesIInv, MergeIsLast
  <1> QED BY <1>4, <1>5, <1>6, <1>7, <1>8 DEF BranchesIInv, MergeIsLast, JoinKeepsAssignments

\* A lone branch assigns in its own context; the others assign in the parent's
\* or in one that is shared, and, until branches cross, not in the parent's.
LEMMA AssignIInv ==
    ASSUME BranchesIInv, BranchesTypeOK', ValuesAreAssigned',
           NEW b \in Branches, NEW k \in Keys, Assign(b, k)
    PROVE  BranchesIInv'
  <1>1. pc[b] = "running" /\ UNCHANGED <<current, saved, pc, join, shared, crossed, stack>>
    BY DEF Assign, historyVars
  <1>2. \A c \in Contexts, j \in Keys :
          local'[c][j] = IF c = current /\ j = k THEN b ELSE local[c][j]
    BY DEF Assign, BranchesIInv, BranchesTypeOK
  <1>3. \A c \in Branches, j \in Keys :
          writes'[c][j] = IF c = current /\ j = k THEN b ELSE writes[c][j]
    <2>1. CASE current = Parent
      BY <2>1, BranchIsNoParent DEF Assign
    <2>2. CASE current # Parent
      BY <2>2 DEF Assign, BranchesIInv, BranchesTypeOK
    <2> QED BY <2>1, <2>2
  <1>4. \A c \in Branches : wrote'[c] = IF c = b THEN wrote[c] \cup {k} ELSE wrote[c]
    BY DEF Assign, BranchesIInv, BranchesTypeOK
  <1>5. b \in Running /\ current \in Contexts
    BY <1>1 DEF Running, BranchesIInv, BranchesTypeOK
  <1>6. IF b \in shared THEN current \in shared \cup {Parent} ELSE current = b
    BY <1>5 DEF BranchesIInv, LoneContext
  <1>7. LoneContext' /\ StackIsKept'
    BY <1>1 DEF BranchesIInv, LoneContext, StackIsKept, Running, Top
  <1>8. LoneWrites'
    <2>1. /\ \A c \in Branches, j \in Keys :
                /\ writes[c][j] \in shared \cup {0, c}
                /\ c \notin shared /\ j \in wrote[c] => writes[c][j] = c
          /\ \A c \in Branches \ shared, j \in Keys : local[c][j] \in {0, c}
      BY DEF BranchesIInv, LoneWrites, LoneBranchesAreIsolated
    <2>2. \A c \in Branches, j \in Keys : writes'[c][j] \in shared \cup {0, c}
      BY <1>3, <1>6, <2>1
    <2>3. \A c \in Branches \ shared, j \in Keys : j \in wrote'[c] => writes'[c][j] = c
      <3> SUFFICES ASSUME NEW c \in Branches \ shared, NEW j \in Keys, j \in wrote'[c]
                   PROVE  writes'[c][j] = c
        OBVIOUS
      <3>1. CASE c = current /\ j = k
        BY <1>3, <1>6, <3>1, BranchIsNoParent
      <3>2. CASE ~(c = current /\ j = k)
        <4>1. j \in wrote[c]
          BY <1>4, <1>6, <3>2
        <4> QED BY <1>3, <2>1, <3>2, <4>1
      <3> QED BY <3>1, <3>2
    <2>4. \A c \in Branches \ shared, j \in Keys : local'[c][j] \in {0, c}
      <3> SUFFICES ASSUME NEW c \in Branches \ shared, NEW j \in Keys
                   PROVE  local'[c][j] \in {0, c}
        OBVIOUS
      <3>1. c = current => c = b
        BY <1>6, BranchIsNoParent
      <3> QED BY <1>2, <2>1, <3>1, BranchIsNoParent
    <2> QED BY <1>1, <2>2, <2>3, <2>4 DEF LoneWrites, LoneBranchesAreIsolated
  <1>9. WritesAreTracked'
    <2> SUFFICES ASSUME ~crossed, NEW c \in Branches, NEW j \in wrote'[c]
                 PROVE  \E d \in Branches : writes'[d][j] # 0
      BY <1>1 DEF WritesAreTracked
    <2>1. current \in Branches
      <3>1. Running # {}
        BY <1>5
      <3> QED BY <3>1, TopIsRunning DEF BranchesIInv
    <2>2. j \in Keys
      BY DEF BranchesTypeOK
    <2>3. CASE j = k
      <3>1. writes'[current][j] = b
        BY <1>3, <2>1, <2>2, <2>3
      <3> QED BY <2>1, <3>1, BranchIsNoParent
    <2>4. CASE j # k
      <3>1. j \in wrote[c]
        BY <1>4, <2>4
      <3>2. PICK d \in Branches : writes[d][j] # 0
        BY <3>1 DEF BranchesIInv, WritesAreTracked
      <3> QED BY <1>3, <2>2, <2>4, <3>2
    <2> QED BY <2>3, <2>4
  <1>10. join' # "merged"
    BY <1>1 DEF BranchesIInv, MergeIsLast
  <1> QED BY <1>7, <1>8, <1>9, <1>10 DEF BranchesIInv, MergeIsLast, JoinKeepsAssignments

\* A branch that ends puts back what it had saved: the context of the branch
\* below it on the stack, until branches cross, and in any case the parent's or
\* a shared one.
LEMMA EndIInv ==
    ASSUME BranchesIInv, BranchesTypeOK', ValuesAreAssigned',
           NEW b \in Branches, Leave(b) \/ RaiseOut(b)
    PROVE  BranchesIInv'
  <1>1. /\ pc[b] = "running" /\ pc' = [pc EXCEPT ![b] = "ended"] /\ current' = saved[b]
        /\ UNCHANGED <<saved, local, writes, wrote, shared>>
        /\ crossed' = (crossed \/ Top # b)
        /\ stack' = IF crossed' THEN stack ELSE SubSeq(stack, 1, Len(stack) - 1)
    BY DEF Leave, RaiseOut, Ended
  <1>2. join' # "merged"
    BY <1>1 DEF BranchesIInv, MergeIsLast, Leave, RaiseOut
  <1>3. Running' = Running \ {b} /\ b \in Running
    BY <1>1 DEF Running, BranchesIInv, BranchesTypeOK
  <1>4. LoneContext'
    BY <1>1, <1>3 DEF BranchesIInv, LoneContext
  <1>5. LoneWrites'
    BY <1>1 DEF BranchesIInv, LoneWrites, LoneBranchesAreIsolated
  <1>6. StackIsKept'
    <2> SUFFICES ASSUME ~crossed, Top = b PROVE StackIsKept'
      BY <1>1 DEF StackIsKept
    <2> DEFINE n == Len(stack)
    <2>1. n \in Nat /\ stack # <<>> /\ stack[n] = b /\ n # 0
      <3>1. stack # <<>>
        BY BranchIsNoParent DEF Top
      <3> QED BY <3>1 DEF Top, BranchesIInv, BranchesTypeOK
    <2>2. /\ ~crossed' /\ Len(stack') = n - 1
          /\ \A i \in 1..(n - 1) : stack'[i] = stack[i]
      BY <1>1, <2>1, PoppedStack DEF BranchesIInv, BranchesTypeOK
    <2>3. /\ \A i \in 1..n : /\ pc[stack[i]] = "running"
                             /\ saved[stack[i]] = IF i = 1 THEN Parent ELSE stack[i - 1]
                             /\ \A j \in 1..n : stack[i] = stack[j] => i = j
          /\ \A c \in Running : \E i \in 1..n : stack[i] = c
      BY DEF BranchesIInv, StackIsKept
    <2>4. \A c \in Branches : pc'[c] = IF c = b THEN "ended" ELSE pc[c]
      BY <1>1 DEF BranchesIInv, BranchesTypeOK
    <2>5. \A i \in 1..n : stack[i] \in Branches
      BY DEF BranchesIInv, BranchesTypeOK
    <2>6. stack' \in Seq(Branches) /\ (stack' = <<>> <=> n = 1)
      <3>1. stack' \in Seq(Branches)
        BY DEF BranchesTypeOK
      <3>2. stack' = <<>> <=> Len(stack') = 0
        BY <3>1
      <3> QED BY <2>1, <2>2, <3>1, <3>2
    <2> HIDE DEF n
    <2>7. n \in 1..n /\ \A i \in 1..(n - 1) : i \in 1..n /\ i # n
      BY <2>1
    <2>8. current' = Top'
      <3>1. current' = IF n = 1 THEN Parent ELSE stack[n - 1]
        BY <1>1, <2>1, <2>3, <2>7
      <3>2. n # 1 => n - 1 \in 1..(n - 1)
        BY <2>1
      <3> QED BY <2>2, <2>6, <3>1, <3>2 DEF Top
    <2>9. ASSUME NEW i \in 1..(n - 1)
          PROVE  /\ pc'[stack'[i]] = "running"
                 /\ saved'[stack'[i]] = IF i = 1 THEN Parent ELSE stack'[i - 1]
                 /\ \A j \in 1..(n - 1) : stack'[i] = stack'[j] => i = j
      <3>1. stack'[i] = stack[i] /\ stack[i] # b /\ stack[i] \in Branches
        BY <2>1, <2>2, <2>3, <2>5, <2>7
      <3>2. i # 1 => stack'[i - 1] = stack[i - 1]
        BY <2>1, <2>2
      <3> QED BY <1>1, <2>2, <2>3, <2>4, <2>7, <3>1, <3>2
    <2>10. \A c \in Running' : \E i \in 1..(n - 1) : stack'[i] = c
      <3> SUFFICES ASSUME NEW c \in Running, c # b PROVE \E i \in 1..(n - 1) : stack'[i] = c
        BY <1>3
      <3>1. PICK i \in 1..n : stack[i] = c
        BY <2>3
      <3>2. i # n
        BY <2>1, <3>1
      <3>3. i \in 1..(n - 1)
        BY <2>1, <3>2
      <3> QED BY <2>2, <3>1, <3>3
    <2> QED BY <2>2, <2>8, <2>9, <2>10 DEF StackIsKept
  <1>7. WritesAreTracked'
    BY <1>1 DEF BranchesIInv, WritesAreTracked
  <1> QED BY <1>2, <1>4, <1>5, <1>6, <1>7 DEF BranchesIInv, MergeIsLast, JoinKeepsAssignments

\* The merge goes by the tracked writes.  Those of a key that no shared branch
\* assigned are the key's writers, each with its own value; and until branches
\* cross, a key that was assigned has one.
LEMMA MergeIInv ==
    ASSUME BranchesIInv, BranchesTypeOK', ValuesAreAssigned', Merge
    PROVE  BranchesIInv'
  <1>1. /\ UNCHANGED <<current, saved, pc, writes, wrote, shared, crossed, stack>>
        /\ join' = "merged" /\ \A b \in Branches : pc[b] = "ended"
    BY DEF Merge, historyVars
  <1>2. \A c \in Contexts, k \in Keys :
          local'[c][k] = IF c = current THEN LastWrite(k) ELSE local[c][k]
    BY DEF Merge, BranchesIInv, BranchesTypeOK
  <1>3. \A b \in Branches \ shared : b # current
    BY <1>1, BranchIsNoParent DEF BranchesIInv, LoneContext, Running
  <1>4. LoneContext' /\ StackIsKept' /\ WritesAreTracked' /\ MergeIsLast'
    BY <1>1 DEF BranchesIInv, LoneContext, StackIsKept, WritesAreTracked, MergeIsLast,
                Running, Top
  <1>5. LoneWrites'
    BY <1>1, <1>2, <1>3, BranchIsNoParent DEF BranchesIInv, LoneWrites, LoneBranchesAreIsolated
  <1>6. JoinKeepsAssignments'
    <2>0. \A k \in Keys : local'[current'][k] = LastWrite(k) /\ Writers(k)' = Writers(k)
      BY <1>1, <1>2 DEF Writers, BranchesIInv, BranchesTypeOK
    <2> SUFFICES ASSUME NEW k \in Keys
                 PROVE  /\ Writers(k) \cap shared = {} =>
                              LastWrite(k) = IF Writers(k) = {} THEN 0 ELSE Max(Writers(k))
                        /\ ~crossed /\ Writers(k) # {} => LastWrite(k) \in Writers(k)
      BY <1>1, <2>0 DEF JoinKeepsAssignments
    <2> DEFINE B == {b \in Branches : writes[b][k] # 0}
    <2>1. /\ B = {} => LastWrite(k) = local[current][k]
          /\ B # {} => Max(B) \in B /\ LastWrite(k) = writes[Max(B)][k]
      BY LastWriteSource
    <2>2. LastWrite(k) \in Contexts /\ (LastWrite(k) # 0 => LastWrite(k) \in Writers(k))
      BY LastWriteIsAssigned DEF BranchesIInv, Writers, Contexts, Parent
    <2>3. ASSUME Writers(k) \cap shared = {}
          PROVE  B = Writers(k) /\ \A b \in B : writes[b][k] = b
      <3>1. \A b \in B : writes[b][k] = b /\ b \in Writers(k)
        <4> SUFFICES ASSUME NEW b \in B PROVE writes[b][k] = b /\ b \in Writers(k)
          OBVIOUS
        <4>1. writes[b][k] \in Contexts /\ writes[b][k] # 0 /\ k \in wrote[writes[b][k]]
          BY DEF BranchesIInv, BranchesTypeOK, ValuesAreAssigned
        <4>2. writes[b][k] \in Writers(k)
          BY <4>1 DEF Writers, Contexts, Parent
        <4>3. writes[b][k] \in shared \cup {0, b}
          BY DEF BranchesIInv, LoneWrites
        <4> QED BY <2>3, <4>1, <4>2, <4>3
      <3>2. \A b \in Writers(k) : b \in B
        BY <2>3, BranchIsNoParent DEF BranchesIInv, LoneWrites, Writers
      <3> QED BY <3>1, <3>2
    <2>4. ASSUME Writers(k) \cap shared = {}
          PROVE  LastWrite(k) = IF Writers(k) = {} THEN 0 ELSE Max(Writers(k))
      <3>1. Writers(k) = {} => LastWrite(k) = 0
        BY <2>2
      <3>2. Writers(k) # {} => LastWrite(k) = Max(Writers(k))
        BY <2>1, <2>3, <2>4
      <3> QED BY <3>1, <3>2
    <2>5. ASSUME ~crossed, Writers(k) # {} PROVE LastWrite(k) \in Writers(k)
      <3>1. PICK b \in Branches : k \in wrote[b]
        BY <2>5 DEF Writers
      <3>2. B # {}
        BY <2>5, <3>1 DEF BranchesIInv, WritesAreTracked
      <3>3. LastWrite(k) # 0
        BY <2>1, <3>2
      <3> QED BY <2>2, <3>3
    <2> QED BY <2>4, <2>5
  <1> QED BY <1>4, <1>5, <1>6 DEF BranchesIInv

\* The invariant is inductive, whatever the number of permits.
LEMMA NextBranchesIInv == BranchesIInv /\ [BranchesNext]_branchesVars => BranchesIInv'
  <1> SUFFICES ASSUME BranchesIInv, [BranchesNext]_branchesVars PROVE BranchesIInv'
    OBVIOUS
  <1>1. BranchesTypeOK' /\ ValuesAreAssigned'
    BY BranchesNextTypeOK, NextValuesAreAssigned DEF BranchesIInv
  <1>2. CASE UNCHANGED branchesVars
    <2>1. /\ UNCHANGED <<current, saved, pc, local, writes, wrote, join>>
          /\ UNCHANGED <<shared, crossed, stack>>
      BY <1>2 DEF branchesVars, historyVars
    <2>2. LoneContext' /\ LoneWrites' /\ StackIsKept'
      BY <2>1 DEF BranchesIInv, LoneContext, LoneWrites, LoneBranchesAreIsolated,
                  StackIsKept, Running, Top
    <2>3. WritesAreTracked' /\ MergeIsLast' /\ JoinKeepsAssignments'
      BY <2>1 DEF BranchesIInv, WritesAreTracked, MergeIsLast, JoinKeepsAssignments, Writers
    <2> QED BY <1>1, <2>2, <2>3 DEF BranchesIInv
  <1>3. ASSUME NEW b \in Branches, BranchStep(b) PROVE BranchesIInv'
    BY <1>1, <1>3, EnterIInv, AssignIInv, EndIInv DEF BranchStep
  <1> QED BY <1>1, <1>2, <1>3, MergeIInv DEF BranchesNext

\* The invariant holds in every reachable state, whatever the number of permits.
THEOREM BranchesInvariance == BranchesSpec => []BranchesIInv
  <1>1. BranchesSpec => BranchesTypeOK /\ ValuesAreAssigned
    BY BranchesTypeCorrectness, PTL
  <1>2. BranchesInit /\ BranchesTypeOK /\ ValuesAreAssigned => BranchesIInv
    BY InitBranchesIInv
  <1> QED BY <1>1, <1>2, NextBranchesIInv, PTL DEF BranchesSpec

\* However many branches run at a time, one that never ran beside another sees
\* the values of the fork and its own assignments only: what its siblings did to
\* each other's contexts before or after it never reaches its snapshot.
THEOREM LoneBranchesSeeTheirOwn == BranchesSpec => []LoneBranchesAreIsolated
  <1>1. BranchesIInv => LoneBranchesAreIsolated
    BY DEF BranchesIInv, LoneWrites
  <1> QED BY <1>1, BranchesInvariance, PTL

\* However many branches run at a time, the join leaves in every variable what
\* the last of its writers in order assigned, if all its writers ran alone, and
\* what one of them assigned if branches ended in the reverse order of their
\* starts.
THEOREM JoinLosesNoVariable == BranchesSpec => []JoinKeepsAssignments
  <1>1. BranchesIInv => JoinKeepsAssignments
    BY DEF BranchesIInv
  <1> QED BY <1>1, BranchesInvariance, PTL

\* However many branches run at a time, the executor has its own variables back
\* when all are through, whether they returned or raised, unless a branch ended
\* before one that started after it.
THEOREM ParentComesBack == BranchesSpec => []ParentIsRestored
  <1>1. BranchesIInv => ParentIsRestored
    <2> SUFFICES ASSUME BranchesIInv, ~crossed, \A b \in Branches : pc[b] = "ended"
                 PROVE  current = Parent
      BY DEF ParentIsRestored
    <2>1. stack = <<>>
      <3> SUFFICES ASSUME stack # <<>> PROVE FALSE
        OBVIOUS
      <3>1. current \in Branches /\ Len(stack) \in 1..Len(stack) /\ current = stack[Len(stack)]
        BY TopIsRunning DEF BranchesIInv, BranchesTypeOK
      <3> QED BY <3>1 DEF BranchesIInv, StackIsKept
    <2> QED BY <2>1, TopIsRunning DEF BranchesIInv
  <1> QED BY <1>1, BranchesInvariance, PTL
=============================================================================
