--------------------------- MODULE DelegationProofs ---------------------------
(* Proofs about Delegation, for every number of rows, requests and failures *)
(* and for both tables.                                                     *)
EXTENDS Delegation, TLAPS

\* None is not a row.
LEMMA NoneIsNoRow == None \notin Rows
  BY DEF None, Rows

\* The recursive query returns rows, and with a row each active child of it.
LEMMA SubtreeIsClosed ==
    ASSUME NEW roots
    PROVE  /\ Subtree(roots) \subseteq Rows
           /\ \A r \in Active : parent[r] \in Subtree(roots) => r \in Subtree(roots)
  BY DEF Subtree, Closed, Active

\* The inductive invariant holds initially.
LEMMA InitIInv == Init => IInv
  <1> SUFFICES ASSUME Init PROVE IInv
    OBVIOUS
  <1>1. TypeOK
    BY BoundsAssumption DEF Init, TypeOK
  <1>2. IdleIsEmpty /\ LocksAreApart /\ RevocationsCount
    BY DEF Init, IdleIsEmpty, LocksAreApart, RevocationsCount
  <1>3. SnapshotsAreCommitted /\ CascadeIsClosed /\ NoSurvivingDescendant
    BY DEF Init, SnapshotsAreCommitted, CascadeIsClosed, NoSurvivingDescendant
  <1> QED BY <1>1, <1>2, <1>3 DEF IInv

\* Stuttering preserves the invariant.
LEMMA StutterIInv == IInv /\ UNCHANGED vars => IInv'
  BY DEF IInv, vars, TypeOK, IdleIsEmpty, LocksAreApart, RevocationsCount, SnapshotsAreCommitted,
         Committed, CascadeIsClosed, NoSurvivingDescendant

\* A new row is in nobody's snapshot.
LEMMA CreateIInv ==
    ASSUME IInv, NEW r \in Rows, NEW p \in Rows \cup {None}, Create(r, p)
    PROVE  IInv'
  <1> USE DEF IInv, TypeOK, Create
  <1>1. TypeOK'
    OBVIOUS
  <1>2. IdleIsEmpty' /\ LocksAreApart' /\ RevocationsCount'
    BY DEF IdleIsEmpty, LocksAreApart, RevocationsCount
  <1>3. SnapshotsAreCommitted'
    BY DEF SnapshotsAreCommitted, Committed
  <1>4. CascadeIsClosed'
    BY DEF CascadeIsClosed
  <1>5. NoSurvivingDescendant'
    BY DEF NoSurvivingDescendant
  <1> QED BY <1>1, <1>2, <1>3, <1>4, <1>5

\* A row that becomes active was in no snapshot before, so that no cascade has
\* it to revoke, and none that has ended could have known it.
LEMMA EndCreateIInv ==
    ASSUME IInv, NEW r \in Rows, NEW committed \in BOOLEAN, EndCreate(r, committed)
    PROVE  IInv'
  <1> USE DEF IInv, TypeOK, EndCreate
  <1>1. TypeOK'
    OBVIOUS
  <1>2. IdleIsEmpty' /\ LocksAreApart' /\ RevocationsCount'
    BY DEF IdleIsEmpty, LocksAreApart, RevocationsCount
  <1>3. SnapshotsAreCommitted'
    BY DEF SnapshotsAreCommitted, Committed
  <1>4. r \notin Committed
    BY DEF Committed
  <1>5. CascadeIsClosed'
    BY <1>4 DEF CascadeIsClosed, SnapshotsAreCommitted
  <1>6. NoSurvivingDescendant'
    BY <1>4 DEF NoSurvivingDescendant, SnapshotsAreCommitted
  <1> QED BY <1>1, <1>2, <1>3, <1>5, <1>6

\* The clock writes no row.
LEMMA ExpireIInv ==
    ASSUME IInv, NEW r \in Rows, Expire(r)
    PROVE  IInv'
  BY DEF Expire, IInv, TypeOK, IdleIsEmpty, LocksAreApart, RevocationsCount,
         SnapshotsAreCommitted, Committed, CascadeIsClosed, NoSurvivingDescendant

\* A cascade starts with a closed set of rows to update.
LEMMA BeginUpdateIInv ==
    ASSUME IInv, NEW t \in Txs, NEW roots, BeginUpdate(t, roots)
    PROVE  IInv'
  <1> USE DEF IInv, TypeOK, BeginUpdate
  <1>1. TypeOK'
    BY SubtreeIsClosed DEF Committed
  <1>2. IdleIsEmpty' /\ LocksAreApart' /\ RevocationsCount'
    BY DEF IdleIsEmpty, LocksAreApart, RevocationsCount
  <1>3. SnapshotsAreCommitted'
    BY DEF SnapshotsAreCommitted, Committed
  <1>4. CascadeIsClosed'
    BY SubtreeIsClosed DEF CascadeIsClosed, IdleIsEmpty, Committed, Active
  <1>5. NoSurvivingDescendant'
    BY DEF NoSurvivingDescendant
  <1> QED BY <1>1, <1>2, <1>3, <1>4, <1>5

\* A row moves from the rows ahead to the rows done, or somebody else has
\* revoked it.
LEMMA UpdateRowIInv ==
    ASSUME IInv, NEW t \in Txs, NEW r \in Rows, UpdateRow(t, r)
    PROVE  IInv'
  <1> USE DEF IInv, TypeOK, UpdateRow
  <1>1. TypeOK'
    OBVIOUS
  <1>2. IdleIsEmpty' /\ RevocationsCount'
    BY DEF IdleIsEmpty, RevocationsCount
  <1>3. LocksAreApart'
    BY DEF LocksAreApart, Locked
  <1>4. SnapshotsAreCommitted'
    BY DEF SnapshotsAreCommitted, Committed
  <1>5. CascadeIsClosed'
    BY DEF CascadeIsClosed
  <1>6. NoSurvivingDescendant'
    BY DEF NoSurvivingDescendant
  <1> QED BY <1>1, <1>2, <1>3, <1>4, <1>5, <1>6

\* Waiting writes no row.
LEMMA WaitForRowIInv ==
    ASSUME IInv, NEW t \in Txs, NEW r \in Rows, WaitForRow(t, r)
    PROVE  IInv'
  BY DEF WaitForRow, IInv, TypeOK, IdleIsEmpty, LocksAreApart, RevocationsCount,
         SnapshotsAreCommitted, Committed, CascadeIsClosed, NoSurvivingDescendant

\* At its commit a cascade has done every row it saw under the rows it revokes.
LEMMA CommitIInv ==
    ASSUME IInv, NEW t \in Txs, Commit(t)
    PROVE  IInv'
  <1> USE DEF IInv, TypeOK, Commit, End
  <1>1. TypeOK'
    OBVIOUS
  <1>2. IdleIsEmpty'
    BY DEF IdleIsEmpty
  <1>3. LocksAreApart'
    BY DEF LocksAreApart
  <1>4. RevocationsCount'
    BY DEF RevocationsCount, LocksAreApart
  <1>5. SnapshotsAreCommitted'
    <2>1. \A r \in Rows : r \in Committed => r \in Committed'
      BY DEF Committed
    <2> QED BY <2>1 DEF SnapshotsAreCommitted
  <1>6. CascadeIsClosed'
    BY DEF CascadeIsClosed
  <1>7. NoSurvivingDescendant'
    <2> SUFFICES ASSUME NEW r \in Rows, state'[r] = "active", parent[r] # None,
                        state'[parent[r]] = "revoked"
                 PROVE  r \notin known'[parent[r]]
      BY DEF NoSurvivingDescendant
    <2>1. parent[r] \in Rows /\ state[r] = "active" /\ r \notin did[t]
      OBVIOUS
    <2>2. CASE parent[r] \in did[t]
      <3>1. r \notin snapshot[t]
        BY <2>2 DEF CascadeIsClosed
      <3> QED BY <2>1, <2>2, <3>1
    <2>3. CASE parent[r] \notin did[t]
      BY <2>3 DEF NoSurvivingDescendant
    <2> QED BY <2>2, <2>3
  <1> QED BY <1>1, <1>2, <1>3, <1>4, <1>5, <1>6, <1>7

\* A transaction that is rolled back leaves every row as it was.
LEMMA RollbackIInv ==
    ASSUME IInv, NEW t \in Txs, AbortDeadlocked(t) \/ Fail(t)
    PROVE  IInv'
  <1> USE DEF IInv, TypeOK, AbortDeadlocked, Fail, End
  <1>1. TypeOK'
    BY BoundsAssumption
  <1>2. IdleIsEmpty'
    BY DEF IdleIsEmpty
  <1>3. LocksAreApart' /\ RevocationsCount'
    BY DEF LocksAreApart, RevocationsCount
  <1>4. SnapshotsAreCommitted'
    BY DEF SnapshotsAreCommitted, Committed
  <1>5. CascadeIsClosed' /\ NoSurvivingDescendant'
    BY DEF CascadeIsClosed, NoSurvivingDescendant
  <1> QED BY <1>1, <1>2, <1>3, <1>4, <1>5

\* The invariant is inductive.
LEMMA NextIInv == IInv /\ [Next]_vars => IInv'
  <1> SUFFICES ASSUME IInv, [Next]_vars PROVE IInv'
    OBVIOUS
  <1>1. CASE UNCHANGED vars
    BY <1>1, StutterIInv
  <1>2. ASSUME NEW r \in Rows, NEW p \in Rows \cup {None}, Create(r, p) PROVE IInv'
    BY <1>2, CreateIInv
  <1>3. ASSUME NEW r \in Rows, NEW committed \in BOOLEAN, EndCreate(r, committed) PROVE IInv'
    BY <1>3, EndCreateIInv
  <1>4. ASSUME NEW r \in Rows, NEW t \in Requests, RevokeGrant(t, r) \/ RevokeShare(t, r)
        PROVE  IInv'
    BY <1>4, BeginUpdateIInv DEF RevokeGrant, RevokeShare, Txs
  <1>5. CASE TickGrantReaper
    BY <1>5, BeginUpdateIInv DEF TickGrantReaper, Txs
  <1>6. ASSUME NEW t \in Txs, TxStep(t) PROVE IInv'
    BY <1>6, UpdateRowIInv, WaitForRowIInv, CommitIInv, RollbackIInv DEF TxStep
  <1>7. ASSUME NEW t \in Txs, Fail(t) PROVE IInv'
    BY <1>7, RollbackIInv
  <1> QED BY <1>1, <1>2, <1>3, <1>4, <1>5, <1>6, <1>7, ExpireIInv DEF Next

\* The inductive invariant holds in every reachable state.
THEOREM Invariance == Spec => []IInv
  BY InitIInv, NextIInv, PTL DEF Spec

\* Every variable of the rows and the transactions keeps its type.
THEOREM TypeCorrectness == Spec => []TypeOK
  <1>1. IInv => TypeOK
    BY DEF IInv
  <1> QED BY <1>1, Invariance, PTL

\* A cascade revokes every descendant that existed when its statement started,
\* whatever other cascades, failures and deadlocks cut across it.
THEOREM CascadeIsComplete == Spec => []NoSurvivingDescendant
  <1>1. IInv => NoSurvivingDescendant
    BY DEF IInv
  <1> QED BY <1>1, Invariance, PTL

\* Overlapping cascades revoke a row once.
THEOREM RevocationIsUnique == Spec => []RevokedByOne
  <1>1. IInv => RevokedByOne
    BY DEF IInv, RevocationsCount, RevokedByOne
  <1> QED BY <1>1, Invariance, PTL
=============================================================================
