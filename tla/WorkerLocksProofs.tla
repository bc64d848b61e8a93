-------------------------- MODULE WorkerLocksProofs --------------------------
(***************************************************************************)
(* Proofs about the two kinds of worker lock: PgAdvisoryLocks, for every   *)
(* number of nodes, API processes, request threads and connections and for *)
(* every choice of faults, and DriveLocks, for every number of Colab       *)
(* workers and server threads.  The two specifications share no variable.  *)
(***************************************************************************)
EXTENDS PgAdvisoryLocks, DriveLocks, TLAPS

------------------------------------------------------------------------------
\* PgAdvisoryLocks

\* The inductive invariant holds initially.
LEMMA InitIInv == Init => IInv
  <1> SUFFICES ASSUME Init PROVE IInv
    OBVIOUS
  <1> USE DEF Init
  <1>1. TypeOK /\ RequestHasNode /\ ConnsAreApart /\ RegisterHasLock /\ MapsAgree
    BY DEF TypeOK, RequestHasNode, ConnsAreApart, RegisterHasLock, MapsAgree
  <1>2. NoOrphanLock /\ TrackedIsHeld /\ ReleaseIsAlone /\ MutualExclusion
    BY DEF NoOrphanLock, TrackedIsHeld, ReleaseIsAlone, Releasing, MutualExclusion
  <1> QED BY <1>1, <1>2 DEF IInv

\* Stuttering preserves the invariant.
LEMMA StutterIInv == IInv /\ UNCHANGED vars => IInv'
  BY DEF IInv, vars, TypeOK, RequestHasNode, ConnsAreApart, RegisterHasLock, MapsAgree,
         NoOrphanLock, TrackedIsHeld, ReleaseIsAlone, Releasing, MutualExclusion

\* A request that starts owns nothing yet.
LEMMA BeginAcquireIInv ==
    ASSUME IInv, NEW h \in Handlers, NEW n \in Nodes, BeginAcquire(h, n)
    PROVE  IInv'
  <1> USE NullsAssumption DEF IInv, TypeOK, BeginAcquire
  <1>1. TypeOK'
    OBVIOUS
  <1>2. RequestHasNode' /\ MapsAgree'
    BY DEF RequestHasNode, MapsAgree
  <1>3. ConnsAreApart'
    BY DEF ConnsAreApart
  <1>4. RegisterHasLock'
    BY DEF RegisterHasLock
  <1>5. NoOrphanLock'
    BY DEF NoOrphanLock
  <1>6. TrackedIsHeld'
    BY DEF TrackedIsHeld
  <1>7. ReleaseIsAlone'
    BY DEF ReleaseIsAlone, Releasing
  <1>8. MutualExclusion'
    BY DEF MutualExclusion
  <1> QED BY <1>1, <1>2, <1>3, <1>4, <1>5, <1>6, <1>7, <1>8

\* The lock is taken with a connection that nobody else knows.
LEMMA TryLockIInv ==
    ASSUME IInv, NEW h \in Handlers, NEW c \in Conns, TryLock(h, c)
    PROVE  IInv'
  <1> USE NullsAssumption DEF IInv, TypeOK, TryLock, End, InPool
  <1>1. TypeOK'
    OBVIOUS
  <1>2. RequestHasNode' /\ MapsAgree'
    BY DEF RequestHasNode, MapsAgree
  <1>3. ConnsAreApart'
    BY DEF ConnsAreApart
  <1>4. RegisterHasLock'
    BY DEF RegisterHasLock
  <1>5. NoOrphanLock'
    BY DEF NoOrphanLock
  <1>6. TrackedIsHeld'
    BY DEF TrackedIsHeld
  <1>7. ReleaseIsAlone'
    BY DEF ReleaseIsAlone, Releasing
  <1>8. MutualExclusion'
    BY DEF MutualExclusion
  <1> QED BY <1>1, <1>2, <1>3, <1>4, <1>5, <1>6, <1>7, <1>8

\* The session moves from the request to the map; nobody relied on the lock
\* and no release was under way, for the lock was in the request's hands.
LEMMA RegisterIInv ==
    ASSUME IInv, NEW h \in Handlers, NEW told \in BOOLEAN, Register(h, told)
    PROVE  IInv'
  <1> USE NullsAssumption DEF IInv, TypeOK, Register, End
  <1>1. TypeOK'
    BY DEF RequestHasNode
  <1>2. RequestHasNode' /\ MapsAgree'
    BY DEF RequestHasNode, MapsAgree, RegisterHasLock
  <1>3. ConnsAreApart'
    BY DEF ConnsAreApart
  <1>4. RegisterHasLock'
    BY DEF RegisterHasLock
  <1>5. NoOrphanLock'
    BY DEF NoOrphanLock, RegisterHasLock
  <1>6. TrackedIsHeld'
    BY DEF TrackedIsHeld, RegisterHasLock
  <1>7. ReleaseIsAlone'
    BY DEF ReleaseIsAlone, Releasing, ConnsAreApart, RegisterHasLock
  <1>8. MutualExclusion'
    BY DEF MutualExclusion, TrackedIsHeld, ConnsAreApart, RegisterHasLock
  <1> QED BY <1>1, <1>2, <1>3, <1>4, <1>5, <1>6, <1>7, <1>8

\* A node stops relying on the lock before its release is looked at.
LEMMA BeginReleaseIInv ==
    ASSUME IInv, NEW h \in Handlers, NEW n \in Nodes, BeginRelease(h, n)
    PROVE  IInv'
  <1> USE NullsAssumption DEF IInv, TypeOK, BeginRelease
  <1>1. TypeOK'
    OBVIOUS
  <1>2. RequestHasNode' /\ MapsAgree'
    BY DEF RequestHasNode, MapsAgree
  <1>3. ConnsAreApart'
    BY DEF ConnsAreApart
  <1>4. RegisterHasLock'
    BY DEF RegisterHasLock
  <1>5. NoOrphanLock'
    BY DEF NoOrphanLock
  <1>6. TrackedIsHeld'
    BY DEF TrackedIsHeld
  <1>7. ReleaseIsAlone'
    <2>1. SUFFICES ASSUME undisturbed' PROVE ReleaseIsAlone'
      BY DEF ReleaseIsAlone
    <2>2. undisturbed /\ n \in holds
      BY <2>1
    <2>3. \A g \in Handlers : ~Releasing(g)
      BY <2>2 DEF ReleaseIsAlone
    <2>4. holds' = {} /\ pg # NoConn /\ \E p \in Procs : active[p] = pg
      BY <2>2 DEF MutualExclusion, TrackedIsHeld
    <2> QED BY <2>3, <2>4 DEF ReleaseIsAlone, Releasing
  <1>8. MutualExclusion'
    BY DEF MutualExclusion
  <1> QED BY <1>1, <1>2, <1>3, <1>4, <1>5, <1>6, <1>7, <1>8

\* Only the process whose map names the node goes on with the release.
LEMMA CheckHolderIInv ==
    ASSUME IInv, NEW h \in Handlers, CheckHolder(h)
    PROVE  IInv'
  <1> USE NullsAssumption DEF IInv, TypeOK, CheckHolder, End
  <1>1. TypeOK'
    OBVIOUS
  <1>2. RequestHasNode' /\ MapsAgree'
    BY DEF RequestHasNode, MapsAgree
  <1>3. ConnsAreApart'
    BY DEF ConnsAreApart
  <1>4. RegisterHasLock'
    BY DEF RegisterHasLock
  <1>5. NoOrphanLock'
    BY DEF NoOrphanLock
  <1>6. TrackedIsHeld'
    BY DEF TrackedIsHeld
  <1>7. ReleaseIsAlone'
    BY DEF TrackedIsHeld, ReleaseIsAlone, Releasing, MapsAgree, RequestHasNode
  <1>8. MutualExclusion'
    BY DEF MutualExclusion
  <1> QED BY <1>1, <1>2, <1>3, <1>4, <1>5, <1>6, <1>7, <1>8

\* The session moves from the map to the request.
LEMMA PopSessionIInv ==
    ASSUME IInv, NEW h \in Handlers, PopSession(h)
    PROVE  IInv'
  <1> USE NullsAssumption DEF IInv, TypeOK, PopSession
  <1>1. TypeOK'
    OBVIOUS
  <1>2. RequestHasNode' /\ MapsAgree'
    BY DEF RequestHasNode, MapsAgree
  <1>3. ConnsAreApart'
    BY DEF ConnsAreApart
  <1>4. RegisterHasLock'
    BY DEF RegisterHasLock
  <1>5. NoOrphanLock'
    BY DEF NoOrphanLock
  <1>6. TrackedIsHeld'
    BY DEF TrackedIsHeld, ReleaseIsAlone, Releasing
  <1>7. ReleaseIsAlone'
    BY DEF ReleaseIsAlone, Releasing
  <1>8. MutualExclusion'
    BY DEF MutualExclusion
  <1> QED BY <1>1, <1>2, <1>3, <1>4, <1>5, <1>6, <1>7, <1>8

\* The lock is free when nobody relies on it.
LEMMA UnlockIInv ==
    ASSUME IInv, NEW h \in Handlers, Unlock(h)
    PROVE  IInv'
  <1> USE NullsAssumption DEF IInv, TypeOK, Unlock, End
  <1>1. TypeOK'
    OBVIOUS
  <1>2. RequestHasNode' /\ MapsAgree'
    BY DEF RequestHasNode, MapsAgree
  <1>3. ConnsAreApart'
    BY DEF ConnsAreApart
  <1>4. RegisterHasLock'
    BY DEF ConnsAreApart, RegisterHasLock
  <1>5. NoOrphanLock'
    BY DEF NoOrphanLock
  <1>6. TrackedIsHeld'
    BY DEF TrackedIsHeld, ConnsAreApart
  <1>7. ReleaseIsAlone'
    BY DEF ReleaseIsAlone, Releasing
  <1>8. MutualExclusion'
    BY DEF MutualExclusion
  <1> QED BY <1>1, <1>2, <1>3, <1>4, <1>5, <1>6, <1>7, <1>8

\* A dropped connection frees the lock and ends the undisturbed time.
LEMMA DropConnIInv ==
    ASSUME IInv, NEW p \in Procs, DropConn(p)
    PROVE  IInv'
  <1> USE NullsAssumption DEF IInv, TypeOK, DropConn, handlerVars
  <1>1. TypeOK'
    OBVIOUS
  <1>2. RequestHasNode' /\ MapsAgree'
    BY DEF RequestHasNode, MapsAgree
  <1>3. ConnsAreApart'
    BY DEF ConnsAreApart
  <1>4. RegisterHasLock'
    BY DEF ConnsAreApart, RegisterHasLock
  <1>5. NoOrphanLock'
    BY DEF NoOrphanLock
  <1>6. TrackedIsHeld'
    BY DEF TrackedIsHeld
  <1>7. ReleaseIsAlone'
    BY DEF ReleaseIsAlone
  <1>8. MutualExclusion'
    BY DEF MutualExclusion
  <1> QED BY <1>1, <1>2, <1>3, <1>4, <1>5, <1>6, <1>7, <1>8

\* A restart frees what the process and its requests held.
LEMMA RestartIInv ==
    ASSUME IInv, NEW p \in Procs, Restart(p)
    PROVE  IInv'
  <1> USE NullsAssumption DEF IInv, TypeOK, Restart
  <1>1. TypeOK'
    OBVIOUS
  <1>2. RequestHasNode' /\ MapsAgree'
    BY DEF RequestHasNode, MapsAgree
  <1>3. ConnsAreApart'
    BY DEF ConnsAreApart
  <1>4. RegisterHasLock'
    BY DEF ConnsAreApart, RegisterHasLock
  <1>5. NoOrphanLock'
    BY DEF NoOrphanLock
  <1>6. TrackedIsHeld'
    BY DEF TrackedIsHeld
  <1>7. ReleaseIsAlone'
    BY DEF ReleaseIsAlone
  <1>8. MutualExclusion'
    BY DEF MutualExclusion
  <1> QED BY <1>1, <1>2, <1>3, <1>4, <1>5, <1>6, <1>7, <1>8

\* A dead node relies on nothing.
LEMMA NodeCrashIInv ==
    ASSUME IInv, NEW n \in Nodes, NodeCrash(n)
    PROVE  IInv'
  <1> USE NullsAssumption DEF IInv, TypeOK, NodeCrash, handlerVars
  <1>1. TypeOK'
    OBVIOUS
  <1>2. RequestHasNode' /\ MapsAgree'
    BY DEF RequestHasNode, MapsAgree
  <1>3. ConnsAreApart'
    BY DEF ConnsAreApart
  <1>4. RegisterHasLock'
    BY DEF RegisterHasLock
  <1>5. NoOrphanLock'
    BY DEF NoOrphanLock
  <1>6. TrackedIsHeld'
    BY DEF TrackedIsHeld
  <1>7. ReleaseIsAlone'
    BY DEF ReleaseIsAlone, Releasing
  <1>8. MutualExclusion'
    BY DEF MutualExclusion
  <1> QED BY <1>1, <1>2, <1>3, <1>4, <1>5, <1>6, <1>7, <1>8

\* The invariant is inductive.
LEMMA NextIInv == IInv /\ [Next]_vars => IInv'
  <1> SUFFICES ASSUME IInv, [Next]_vars PROVE IInv'
    OBVIOUS
  <1>1. CASE UNCHANGED vars
    BY <1>1, StutterIInv
  <1>2. ASSUME NEW h \in Handlers, Serve(h) PROVE IInv'
    BY <1>2, TryLockIInv, RegisterIInv, CheckHolderIInv, PopSessionIInv, UnlockIInv DEF Serve
  <1>3. ASSUME NEW h \in Handlers, NEW n \in Nodes, BeginAcquire(h, n) \/ BeginRelease(h, n)
        PROVE  IInv'
    BY <1>3, BeginAcquireIInv, BeginReleaseIInv
  <1>4. ASSUME NEW p \in Procs, DropConn(p) \/ Restart(p) PROVE IInv'
    BY <1>4, DropConnIInv, RestartIInv
  <1>5. ASSUME NEW n \in Nodes, NodeCrash(n) PROVE IInv'
    BY <1>5, NodeCrashIInv
  <1> QED BY <1>1, <1>2, <1>3, <1>4, <1>5 DEF Next

\* The inductive invariant holds in every reachable state.
THEOREM Invariance == Spec => []IInv
  BY InitIInv, NextIInv, PTL DEF Spec

\* Every variable of the processes, requests and nodes keeps its type.
THEOREM TypeCorrectness == Spec => []TypeOK
  <1>1. IInv => TypeOK
    BY DEF IInv
  <1> QED BY <1>1, Invariance, PTL

\* Whatever restarts, drops and repeats, PostgreSQL's lock is always held by a
\* connection that some map or some request still knows.
THEOREM LockIsNeverOrphaned == Spec => []NoOrphanLock
  <1>1. IInv => NoOrphanLock
    BY DEF IInv
  <1> QED BY <1>1, Invariance, PTL

\* Until a connection is lost under a holder or a release is repeated, at most
\* one node relies on the lock.
THEOREM LockIsExclusive == Spec => []MutualExclusion
  <1>1. IInv => MutualExclusion
    BY DEF IInv
  <1> QED BY <1>1, Invariance, PTL

------------------------------------------------------------------------------
\* The refinement of LockService by PgAdvisoryLocks.

\* The refinement mapping.
Registering == \E h \in Handlers : step[h] = "register"
PgLock == IF pg = NoConn THEN "free" ELSE IF Registering THEN "granted" ELSE "answered"

\* A step of the lock service, or none.
PgServiceStep ==
    \/ Service!Grant \/ Service!Answer \/ Service!GrantAndAnswer \/ Service!Free \/ Service!Break
    \/ \E n \in Nodes : Service!Quit(n)
    \/ UNCHANGED <<PgLock, holds, undisturbed>>

\* After a disturbance nothing is promised.
LEMMA DisturbedRefines ==
    ASSUME TypeOK', undisturbed' = FALSE
    PROVE  PgServiceStep
  BY DEF TypeOK, PgServiceStep, Service!Break

\* A step that leaves alone the advisory lock, the nodes that rely on it and the
\* grants that are not answered is none of the service.
LEMMA QuietStep ==
    ASSUME UNCHANGED <<pg, holds, undisturbed>>, Registering' <=> Registering
    PROVE  PgServiceStep
  BY DEF PgServiceStep, PgLock

\* A request that has the advisory lock and did not enter it in the map is the
\* only one; nobody relies on the lock then.
LEMMA RegisterIsAlone ==
    ASSUME IInv, NEW h \in Handlers, step[h] = "register"
    PROVE  /\ pg # NoConn
           /\ \A g \in Handlers : step[g] = "register" => g = h
           /\ undisturbed => holds = {}
  <1>1. hconn[h] = pg /\ pg # NoConn
    BY DEF IInv, RegisterHasLock
  <1>2. \A g \in Handlers : step[g] = "register" => hconn[g] = pg
    BY DEF IInv, RegisterHasLock
  <1>3. \A g \in Handlers : step[g] = "register" => g = h
    BY <1>1, <1>2 DEF IInv, ConnsAreApart
  <1>4. \A p \in Procs : active[p] # pg
    BY <1>1 DEF IInv, ConnsAreApart
  <1>5. undisturbed => holds = {}
    BY <1>4 DEF IInv, TypeOK, TrackedIsHeld
  <1> QED BY <1>1, <1>3, <1>5

\* An acquire request: the lock is granted by pg_try_advisory_lock and answered
\* when the session is in the map.
LEMMA AcquireRefines ==
    ASSUME IInv, NEW h \in Handlers,
           \/ \E n \in Nodes : BeginAcquire(h, n)
           \/ \E c \in Conns : TryLock(h, c)
           \/ \E told \in BOOLEAN : Register(h, told)
    PROVE  PgServiceStep
  <1>0. /\ step \in [Handlers -> {"idle", "try", "register", "holder", "pop", "unlock"}]
        /\ hnode \in [Handlers -> Nodes \cup {NoNode}]
    BY DEF IInv, TypeOK
  <1>1. ASSUME NEW n \in Nodes, BeginAcquire(h, n) PROVE PgServiceStep
    <2>1. UNCHANGED <<pg, holds, undisturbed>> /\ (Registering' <=> Registering)
      BY <1>0, <1>1 DEF BeginAcquire, Registering
    <2> QED BY <2>1, QuietStep
  <1>2. ASSUME NEW c \in Conns, TryLock(h, c) PROVE PgServiceStep
    <2>1. CASE pg = NoConn
      <3>1. pg' # NoConn /\ step' = [step EXCEPT ![h] = "register"]
            /\ UNCHANGED <<holds, undisturbed>>
        BY <1>2, <2>1, NullsAssumption DEF TryLock
      <3>2. Registering'
        BY <1>0, <3>1 DEF Registering
      <3>3. Service!Grant
        BY <2>1, <3>1, <3>2 DEF Service!Grant, Registering
      <3> QED BY <3>3 DEF PgServiceStep
    <2>2. CASE pg # NoConn
      <3>1. UNCHANGED <<pg, holds, undisturbed>> /\ step[h] = "try"
            /\ step' = [step EXCEPT ![h] = "idle"]
        BY <1>2, <2>2 DEF TryLock, End
      <3>2. Registering' <=> Registering
        BY <1>0, <3>1 DEF Registering
      <3> QED BY <3>1, <3>2, QuietStep
    <2> QED BY <2>1, <2>2
  <1>3. ASSUME NEW told \in BOOLEAN, Register(h, told), undisturbed PROVE PgServiceStep
    <2>1. /\ pg # NoConn /\ holds = {} /\ step[h] = "register"
          /\ \A g \in Handlers : step[g] = "register" => g = h
      BY <1>3, RegisterIsAlone DEF Register
    <2>2. step' = [step EXCEPT ![h] = "idle"] /\ UNCHANGED <<pg, undisturbed>>
      BY <1>3 DEF Register, End
    <2>3. Registering /\ ~Registering'
      BY <1>0, <2>1, <2>2 DEF Registering
    <2>4. hnode[h] \in Nodes
      BY <2>1 DEF IInv, RequestHasNode
    <2>5. holds' = holds \/ holds' = {hnode[h]}
      BY <1>3, <2>1 DEF Register
    <2>6. holds' \in {holds} \cup {{n} : n \in Nodes}
      BY <2>4, <2>5
    <2>7. Service!Answer
      BY <2>1, <2>2, <2>3, <2>6 DEF Service!Answer, Registering
    <2> QED BY <2>7 DEF PgServiceStep
  <1>4. ASSUME NEW told \in BOOLEAN, Register(h, told), ~undisturbed PROVE PgServiceStep
    <2>1. undisturbed' = FALSE
      BY <1>4 DEF Register, IInv, TypeOK
    <2>2. TypeOK'
      BY <1>4, RegisterIInv DEF IInv
    <2> QED BY <2>1, <2>2, DisturbedRefines
  <1> QED BY <1>1, <1>2, <1>3, <1>4

\* A release request: the node quits first, and the lock is free when the
\* session that the request took out of the map is unlocked.
LEMMA ReleaseRefines ==
    ASSUME IInv, NEW h \in Handlers,
           \/ \E n \in Nodes : BeginRelease(h, n)
           \/ CheckHolder(h) \/ PopSession(h) \/ Unlock(h)
    PROVE  PgServiceStep
  <1>0. /\ step \in [Handlers -> {"idle", "try", "register", "holder", "pop", "unlock"}]
        /\ undisturbed \in BOOLEAN
    BY DEF IInv, TypeOK
  <1>1. ASSUME NEW n \in Nodes, BeginRelease(h, n), undisturbed /\ n \in holds PROVE PgServiceStep
    <2>1. UNCHANGED pg /\ holds' = holds \ {n} /\ undisturbed' = undisturbed
      BY <1>0, <1>1 DEF BeginRelease
    <2>2. Registering' <=> Registering
      BY <1>0, <1>1 DEF BeginRelease, Registering
    <2>3. Service!Quit(n)
      BY <1>1, <2>1, <2>2 DEF Service!Quit, Registering
    <2> QED BY <2>3 DEF PgServiceStep
  <1>2. ASSUME NEW n \in Nodes, BeginRelease(h, n), ~(undisturbed /\ n \in holds)
        PROVE  PgServiceStep
    <2>1. undisturbed' = FALSE
      BY <1>0, <1>2 DEF BeginRelease
    <2>2. TypeOK'
      BY <1>2, BeginReleaseIInv DEF IInv
    <2> QED BY <2>1, <2>2, DisturbedRefines
  <1>3. CASE CheckHolder(h) \/ PopSession(h)
    <2>1. UNCHANGED <<pg, holds, undisturbed>> /\ (Registering' <=> Registering)
      BY <1>0, <1>3 DEF CheckHolder, PopSession, End, Registering
    <2> QED BY <2>1, QuietStep
  <1>4. CASE Unlock(h) /\ undisturbed
    <2>1. step[h] = "unlock" /\ step' = [step EXCEPT ![h] = "idle"]
          /\ UNCHANGED <<holds, undisturbed>>
      BY <1>4 DEF Unlock, End
    <2>2. holds = {} /\ pg # NoConn /\ pg = hconn[h]
      BY <1>4, <2>1 DEF IInv, ReleaseIsAlone, Releasing
    <2>3. pg' = NoConn
      BY <1>4, <2>2 DEF Unlock
    <2>4. ~Registering
      BY <2>1, <2>2 DEF IInv, RegisterHasLock, ConnsAreApart, Registering
    <2>5. Service!Free
      BY <2>1, <2>2, <2>3, <2>4 DEF Service!Free, Registering
    <2> QED BY <2>5 DEF PgServiceStep
  <1>5. CASE Unlock(h) /\ ~undisturbed
    <2>1. undisturbed' = FALSE
      BY <1>0, <1>5 DEF Unlock
    <2>2. TypeOK'
      BY <1>5, UnlockIInv DEF IInv
    <2> QED BY <2>1, <2>2, DisturbedRefines
  <1> QED BY <1>1, <1>2, <1>3, <1>4, <1>5

\* Every step of the processes, the nodes and the faults is a step of the lock
\* service or leaves it alone.
LEMMA PgNextRefines ==
    ASSUME IInv, [Next]_vars
    PROVE  [Service!Next]_(Service!vars)
  <1>1. ASSUME NEW p \in Procs, DropConn(p) \/ Restart(p) PROVE PgServiceStep
    <2>1. undisturbed' = FALSE
      BY <1>1 DEF DropConn, Restart
    <2>2. TypeOK'
      BY <1>1, DropConnIInv, RestartIInv DEF IInv
    <2> QED BY <2>1, <2>2, DisturbedRefines
  <1>2. ASSUME NEW n \in Nodes, NodeCrash(n) PROVE PgServiceStep
    <2>1. UNCHANGED <<pg, undisturbed>> /\ (Registering' <=> Registering) /\ holds' = holds \ {n}
      BY <1>2 DEF NodeCrash, handlerVars, Registering
    <2>2. CASE n \in holds
      <3>1. Service!Quit(n)
        BY <2>1, <2>2 DEF Service!Quit, Registering
      <3> QED BY <3>1 DEF PgServiceStep
    <2>3. CASE n \notin holds
      <3>1. holds' = holds
        BY <2>1, <2>3
      <3> QED BY <2>1, <3>1, QuietStep
    <2> QED BY <2>2, <2>3
  <1>3. ASSUME UNCHANGED vars PROVE PgServiceStep
    <2>1. UNCHANGED <<pg, holds, undisturbed>> /\ (Registering' <=> Registering)
      BY <1>3 DEF vars, Registering
    <2> QED BY <2>1, QuietStep
  <1>4. PgServiceStep
    BY <1>1, <1>2, <1>3, AcquireRefines, ReleaseRefines DEF Next, Serve
  <1>5. UNCHANGED <<PgLock, holds, undisturbed>> => UNCHANGED Service!vars
    BY DEF PgLock, Registering, Service!vars
  <1> QED BY <1>4, <1>5 DEF PgServiceStep, Service!Next

\* API processes, maps, connections and request threads implement one lock
\* service for the nodes: until a connection is lost or a release repeated, a
\* lock is granted only while it is free, one node learns of a grant, and
\* the lock is free again only when nobody relies on it.
THEOREM PgRefinement == Spec => ImplementsLockService
  <1>1. Init => Service!Init
    BY DEF Init, Service!Init
  <1>2. IInv /\ [Next]_vars => [Service!Next]_(Service!vars)
    BY PgNextRefines
  <1> QED BY <1>1, <1>2, Invariance, PTL DEF Spec, ImplementsLockService, Service!Spec

------------------------------------------------------------------------------
\* DriveLocks

\* The inductive invariant holds initially.
LEMMA DriveInitIInv == DriveInit => DriveIInv
  BY DEF DriveInit, DriveIInv, DriveTypeOK, ModeFits, AskerIsKnown, HolderIsRecorded,
         InsideByRedis, Holding, ReleaseIsWith, StagedIsOwn

\* While there is no key, nobody relies on one and no release is on its way,
\* until a lapse.
LEMMA NoKeyNobody ==
    ASSUME DriveIInv, "lapse" \notin mishaps, entry = NoWorker
    PROVE  \A n \in Workers : ~InsideByRedis(n) /\ \A h \in Threads : ~ReleaseIsWith(n, h)
  BY NoWorkerAssumption DEF DriveIInv, HolderIsRecorded

\* A step that leaves the key alone, lets nobody in and sends no release keeps
\* the holder recorded.
LEMMA NothingGained ==
    ASSUME DriveIInv, entry' = entry, mishaps \subseteq mishaps',
           \A n \in Workers : InsideByRedis(n)' => InsideByRedis(n),
           \A n \in Workers, h \in Threads : ReleaseIsWith(n, h)' => ReleaseIsWith(n, h)
    PROVE  HolderIsRecorded'
  BY DEF DriveIInv, HolderIsRecorded

\* A request that arrives at a thread changes that thread only.
LEMMA ArrivesAtOne ==
    ASSUME DriveIInv, NEW n \in Workers, NEW h \in Threads,
           NEW c \in {"set", "get", "del"}, Arrives(h, n, c)
    PROVE  /\ stage[h] = "idle"
           /\ stage' \in [Threads -> {"idle", "set", "get", "del"}]
           /\ asker' \in [Threads -> Workers \cup {NoWorker}]
           /\ \A g \in Threads : stage'[g] = IF g = h THEN c ELSE stage[g]
           /\ \A g \in Threads : asker'[g] = IF g = h THEN n ELSE asker[g]
           /\ AskerIsKnown'
  BY DEF DriveIInv, DriveTypeOK, AskerIsKnown, Arrives

\* A thread that is through with its request is idle; the others go on.
LEMMA ServedAtOne ==
    ASSUME DriveIInv, NEW h \in Threads, Served(h)
    PROVE  /\ stage' \in [Threads -> {"idle", "set", "get", "del"}]
           /\ asker' \in [Threads -> Workers \cup {NoWorker}]
           /\ \A g \in Threads : stage'[g] = IF g = h THEN "idle" ELSE stage[g]
           /\ \A g \in Threads : asker'[g] = IF g = h THEN NoWorker ELSE asker[g]
           /\ AskerIsKnown'
  BY DEF DriveIInv, DriveTypeOK, AskerIsKnown, Served

\* Waiting for the server's lock: whoever is granted it finds no key, and so
\* neither a holder nor a release on its way.
LEMMA WaitingIInv ==
    ASSUME DriveIInv, NEW n \in Workers,
           BeginPut(n) \/ RedisAcquire(n) \/ FallBack(n) \/ GiveUp(n)
    PROVE  DriveIInv'
  <1> USE NoWorkerAssumption
          DEF BeginPut, RedisAcquire, FallBack, TurnToFile, GiveUp, Goto, lockVars, serverVars
  <1>1. DriveTypeOK' /\ AskerIsKnown'
    BY DEF DriveIInv, DriveTypeOK, AskerIsKnown
  <1>2. ModeFits'
    BY DEF DriveIInv, DriveTypeOK, ModeFits
  <1>3. HolderIsRecorded'
    <2>1. /\ \A m \in Workers, h \in Threads : ReleaseIsWith(m, h)' <=> ReleaseIsWith(m, h)
          /\ \A m \in Workers \ {n} : InsideByRedis(m)' <=> InsideByRedis(m)
          /\ ~InsideByRedis(n) /\ mishaps \subseteq mishaps'
          /\ "lapse" \in mishaps' => "lapse" \in mishaps
      BY DEF DriveIInv, DriveTypeOK, ReleaseIsWith, InsideByRedis, Holding
    <2>2. CASE RedisAcquire(n)
      BY <2>1, <2>2, NoKeyNobody DEF HolderIsRecorded, DriveIInv, DriveTypeOK
    <2>3. CASE ~RedisAcquire(n)
      <3>1. ~InsideByRedis(n)'
        BY <2>3 DEF DriveIInv, DriveTypeOK, InsideByRedis, Holding
      <3>2. CASE entry' = entry
        BY <2>1, <3>1, <3>2, NothingGained
      <3>3. CASE entry' # entry
        <4>1. entry = NoWorker
          BY <2>3, <3>3
        <4> QED BY <2>1, <3>1, <4>1, NoKeyNobody DEF HolderIsRecorded
      <3> QED BY <3>2, <3>3
    <2> QED BY <2>2, <2>3
  <1>4. StagedIsOwn'
    BY DEF DriveIInv, DriveTypeOK, StagedIsOwn
  <1> QED BY <1>1, <1>2, <1>3, <1>4 DEF DriveIInv

\* A client that falls back while the server still has its request leaves a SET
\* behind.
LEMMA FallBackTooEarlyIInv ==
    ASSUME DriveIInv, NEW n \in Workers, NEW h \in Threads, FallBackTooEarly(n, h)
    PROVE  DriveIInv'
  <1> USE DEF FallBackTooEarly, TurnToFile, Goto, lockVars
  <1>1. DriveTypeOK' /\ AskerIsKnown'
    BY ArrivesAtOne DEF DriveIInv, DriveTypeOK
  <1>2. ModeFits'
    BY DEF DriveIInv, DriveTypeOK, ModeFits
  <1>3. HolderIsRecorded'
    <2>1. \A m \in Workers : InsideByRedis(m)' => InsideByRedis(m)
      BY DEF DriveIInv, DriveTypeOK, InsideByRedis, Holding
    <2>2. \A m \in Workers, g \in Threads : ReleaseIsWith(m, g)' => ReleaseIsWith(m, g)
      BY ArrivesAtOne DEF ReleaseIsWith
    <2> QED BY <2>1, <2>2, NothingGained
  <1>4. StagedIsOwn'
    BY DEF DriveIInv, DriveTypeOK, StagedIsOwn
  <1> QED BY <1>1, <1>2, <1>3, <1>4 DEF DriveIInv

\* The lock file is the business of workers that fell back.
LEMMA LockFileIInv ==
    ASSUME DriveIInv, NEW n \in Workers,
           \/ FsFindStale(n) \/ FsUnlink(n) \/ FsCreate(n) \/ FsDump(n)
           \/ FsReadOwner(n) \/ FsRemove(n)
    PROVE  DriveIInv'
  <1> USE DEF FsFindStale, FsUnlink, FsCreate, FsDump, FsReadOwner, FsRemove, Goto, lockVars,
              serverVars
  <1>1. DriveTypeOK' /\ AskerIsKnown'
    BY DEF DriveIInv, DriveTypeOK, AskerIsKnown
  <1>2. ModeFits'
    BY DEF DriveIInv, DriveTypeOK, ModeFits
  <1>3. HolderIsRecorded'
    <2>1. \A m \in Workers : InsideByRedis(m)' => InsideByRedis(m)
      BY DEF DriveIInv, DriveTypeOK, InsideByRedis, Holding, ModeFits
    <2>2. \A m \in Workers, h \in Threads : ReleaseIsWith(m, h)' => ReleaseIsWith(m, h)
      BY DEF ReleaseIsWith
    <2> QED BY <2>1, <2>2, NothingGained
  <1>4. StagedIsOwn'
    BY DEF DriveIInv, DriveTypeOK, StagedIsOwn
  <1> QED BY <1>1, <1>2, <1>3, <1>4 DEF DriveIInv

\* Inside the lock: until a mishap everyone inside holds the server's lock, so
\* only one worker stages and renames at a time.
LEMMA InsideIInv ==
    ASSUME DriveIInv, NEW n \in Workers,
           WriteTmp(n) \/ Rename(n) \/ SkipIdentical(n) \/ LoseRelease(n)
    PROVE  DriveIInv'
  <1> USE NoWorkerAssumption
          DEF WriteTmp, Rename, SkipIdentical, LoseRelease, Goto, lockVars, serverVars
  <1>1. DriveTypeOK' /\ AskerIsKnown'
    BY DEF DriveIInv, DriveTypeOK, AskerIsKnown
  <1>2. ModeFits'
    BY DEF DriveIInv, DriveTypeOK, ModeFits
  <1>3. HolderIsRecorded'
    <2>1. \A m \in Workers : InsideByRedis(m)' => InsideByRedis(m)
      BY DEF DriveIInv, DriveTypeOK, InsideByRedis, Holding
    <2>2. \A m \in Workers, h \in Threads : ReleaseIsWith(m, h)' => ReleaseIsWith(m, h)
      BY DEF ReleaseIsWith
    <2> QED BY <2>1, <2>2, NothingGained
  <1>4. StagedIsOwn'
    <2> SUFFICES ASSUME mishaps = {}, NEW m \in Workers, pc'[m] = "rename" PROVE tmp' = m
      BY DEF StagedIsOwn
    <2>1. CASE m = n
      BY <2>1 DEF DriveIInv, DriveTypeOK
    <2>2. CASE m # n
      <3>1. pc[m] = "rename" /\ InsideByRedis(m) /\ InsideByRedis(n)
        BY <2>2 DEF DriveIInv, DriveTypeOK, ModeFits, InsideByRedis, Holding
      <3>2. entry = m /\ entry = n
        BY <3>1 DEF DriveIInv, HolderIsRecorded
      <3> QED BY <2>2, <3>2
    <2> QED BY <2>1, <2>2
  <1> QED BY <1>1, <1>2, <1>3, <1>4 DEF DriveIInv

\* A worker relies on the key until it sends its release, which is then the only
\* one there.
LEMMA SendReleaseIInv ==
    ASSUME DriveIInv, NEW n \in Workers, NEW h \in Threads, SendRelease(n, h)
    PROVE  DriveIInv'
  <1> USE DEF SendRelease, Goto, lockVars
  <1>1. DriveTypeOK' /\ AskerIsKnown'
    BY ArrivesAtOne DEF DriveIInv, DriveTypeOK
  <1>2. ModeFits'
    BY DEF DriveIInv, DriveTypeOK, ModeFits
  <1>3. HolderIsRecorded'
    <2> SUFFICES ASSUME "lapse" \notin mishaps PROVE HolderIsRecorded'
      BY DEF HolderIsRecorded
    <2>1. InsideByRedis(n) /\ entry = n /\ \A g \in Threads : ~ReleaseIsWith(n, g)
      BY DEF DriveIInv, HolderIsRecorded, InsideByRedis, Holding
    <2>2. /\ \A m \in Workers : InsideByRedis(m)' => InsideByRedis(m)
          /\ ~InsideByRedis(n)'
      BY DEF DriveIInv, DriveTypeOK, InsideByRedis, Holding
    <2>3. \A m \in Workers, g \in Threads :
            ReleaseIsWith(m, g)' => ReleaseIsWith(m, g) \/ (m = n /\ g = h)
      BY ArrivesAtOne DEF ReleaseIsWith
    <2>4. \A m \in Workers : InsideByRedis(m)' => entry' = m
      BY <2>2 DEF DriveIInv, HolderIsRecorded
    <2>5. ASSUME NEW m \in Workers, NEW g \in Threads, ReleaseIsWith(m, g)'
          PROVE  m = n /\ g = h
      BY <2>1, <2>3, <2>5 DEF DriveIInv, HolderIsRecorded
    <2> QED BY <2>1, <2>2, <2>4, <2>5 DEF HolderIsRecorded
  <1>4. StagedIsOwn'
    BY DEF DriveIInv, DriveTypeOK, StagedIsOwn
  <1> QED BY <1>1, <1>2, <1>3, <1>4 DEF DriveIInv

\* The server: a late SET finds no key or changes nothing, and until a lapse a
\* DEL, however late, removes the key of the worker that sent the release.
LEMMA ServerIInv ==
    ASSUME DriveIInv, NEW h \in Threads, ServerStep(h)
    PROVE  DriveIInv'
  <1> USE DEF ServerStep, lockVars
  <1>1. UNCHANGED <<pc, mode, tmp, mishaps>> /\ UNCHANGED <<owner, body, dest>>
    BY DEF ServeSet, ServeGet, ServeDel, RequestFails
  <1>2. /\ stage' \in [Threads -> {"idle", "set", "get", "del"}]
        /\ asker' \in [Threads -> Workers \cup {NoWorker}]
        /\ AskerIsKnown'
        /\ \A m \in Workers, g \in Threads : ReleaseIsWith(m, g)' => ReleaseIsWith(m, g)
        /\ Served(h) => \A m \in Workers : ~ReleaseIsWith(m, h)'
    <2>1. CASE Served(h)
      BY <2>1, ServedAtOne DEF ReleaseIsWith
    <2>2. CASE /\ ServeGet(h) /\ stage' = [stage EXCEPT ![h] = "del"] /\ UNCHANGED asker
               /\ ~Served(h)
      BY <2>2 DEF ServeGet, ReleaseIsWith, DriveIInv, DriveTypeOK, AskerIsKnown
    <2> QED BY <2>1, <2>2 DEF ServeSet, ServeGet, ServeDel, RequestFails
  <1>3. entry' \in Workers \cup {NoWorker}
    BY DEF ServeSet, ServeGet, ServeDel, RequestFails, DriveIInv, DriveTypeOK
  <1>4. DriveTypeOK' /\ ModeFits' /\ StagedIsOwn'
    BY <1>1, <1>2, <1>3 DEF DriveIInv, DriveTypeOK, ModeFits, StagedIsOwn
  <1>5. HolderIsRecorded'
    <2>1. \A m \in Workers : InsideByRedis(m)' <=> InsideByRedis(m)
      BY <1>1 DEF InsideByRedis, Holding
    <2>2. CASE entry' = entry
      BY <1>1, <1>2, <2>1, <2>2, NothingGained
    <2>3. CASE ServeSet(h) /\ entry' # entry
      BY <1>1, <1>2, <2>1, <2>3, NoKeyNobody DEF ServeSet, HolderIsRecorded
    <2>4. CASE ServeDel(h)
      <3> SUFFICES ASSUME "lapse" \notin mishaps PROVE HolderIsRecorded'
        BY <1>1 DEF HolderIsRecorded
      <3>1. PICK n \in Workers : ReleaseIsWith(n, h)
        BY <2>4 DEF ServeDel, ReleaseIsWith, DriveIInv, AskerIsKnown
      <3>2. entry = n /\ \A m \in Workers : ~InsideByRedis(m)
        BY <3>1 DEF DriveIInv, HolderIsRecorded
      <3>3. \A m \in Workers, g \in Threads : ReleaseIsWith(m, g) => g = h
        BY <3>1, <3>2 DEF DriveIInv, HolderIsRecorded
      <3>4. \A m \in Workers, g \in Threads : ~ReleaseIsWith(m, g)'
        BY <1>2, <2>4, <3>3 DEF ServeDel
      <3> QED BY <2>1, <3>2, <3>4 DEF HolderIsRecorded
    <2> QED BY <2>2, <2>3, <2>4 DEF ServeGet, RequestFails
  <1> QED BY <1>2, <1>4, <1>5 DEF DriveIInv

\* Time and crashes: a key that expires has neither a holder nor a release on
\* its way, or it is recorded as a lapse.
LEMMA EnvironmentIInv ==
    ASSUME DriveIInv, ExpireEntry \/ AgeFile \/ \E n \in Workers : WorkerCrash(n)
    PROVE  DriveIInv'
  <1> USE DEF ExpireEntry, AgeFile, WorkerCrash, Goto, lockVars, serverVars
  <1>1. DriveTypeOK' /\ AskerIsKnown'
    BY DEF DriveIInv, DriveTypeOK, AskerIsKnown
  <1>2. ModeFits'
    BY DEF DriveIInv, DriveTypeOK, ModeFits
  <1>3. HolderIsRecorded'
    <2>1. /\ \A m \in Workers : InsideByRedis(m)' => InsideByRedis(m)
          /\ \A m \in Workers, h \in Threads : ReleaseIsWith(m, h)' => ReleaseIsWith(m, h)
          /\ mishaps \subseteq mishaps'
      BY DEF DriveIInv, DriveTypeOK, InsideByRedis, Holding, ReleaseIsWith
    <2>2. CASE entry' = entry
      BY <2>1, <2>2, NothingGained
    <2>3. CASE ExpireEntry
      <3>1. CASE Lapses(entry)
        BY <2>3, <3>1 DEF HolderIsRecorded
      <3>2. CASE ~Lapses(entry)
        BY <2>1, <2>3, <3>2 DEF DriveIInv, HolderIsRecorded, Lapses
      <3> QED BY <3>1, <3>2
    <2> QED BY <2>2, <2>3
  <1>4. StagedIsOwn'
    BY DEF DriveIInv, DriveTypeOK, StagedIsOwn
  <1> QED BY <1>1, <1>2, <1>3, <1>4 DEF DriveIInv

\* The invariant is inductive.
LEMMA DriveNextIInv == DriveIInv /\ [DriveNext]_driveVars => DriveIInv'
  <1> SUFFICES ASSUME DriveIInv, [DriveNext]_driveVars PROVE DriveIInv'
    OBVIOUS
  <1>1. CASE UNCHANGED driveVars
    BY <1>1
       DEF driveVars, lockVars, serverVars, DriveIInv, DriveTypeOK, ModeFits, AskerIsKnown,
           HolderIsRecorded, InsideByRedis, Holding, ReleaseIsWith, StagedIsOwn
  <1>2. ASSUME NEW n \in Workers, WorkerStep(n) PROVE DriveIInv'
    BY <1>2, WaitingIInv, FallBackTooEarlyIInv, LockFileIInv, InsideIInv, SendReleaseIInv
       DEF WorkerStep
  <1> QED BY <1>1, <1>2, ServerIInv, EnvironmentIInv DEF DriveNext

\* The inductive invariant holds in every reachable state.
THEOREM DriveInvariance == DriveSpec => []DriveIInv
  BY DriveInitIInv, DriveNextIInv, PTL DEF DriveSpec

\* Every variable of the lock server, the lock file and the workers keeps its
\* type.
THEOREM DriveTypeCorrectness == DriveSpec => []DriveTypeOK
  <1>1. DriveIInv => DriveTypeOK
    BY DEF DriveIInv
  <1> QED BY <1>1, DriveInvariance, PTL

\* Two workers never hold the server's lock of one file at the same time,
\* though the server goes on with requests whose clients have given up, until a
\* key expires under a worker that relies on it or a release on its way.
THEOREM ServerLockIsExclusive == DriveSpec => []ServerLockExclusion
  <1>1. DriveIInv => ServerLockExclusion
    BY DEF DriveIInv, HolderIsRecorded, ServerLockExclusion
  <1> QED BY <1>1, DriveInvariance, PTL

\* Until a mishap, a worker renames into place what it staged itself, however
\* many workers share the one .xiotmp file.
THEOREM UploadsNeverMix == DriveSpec => RenamesOwnData
  <1>1. DriveIInv /\ [DriveNext]_driveVars
          => [\A n \in Workers : (mishaps = {} /\ pc[n] = "rename" /\ pc'[n] = "release")
                                  => dest' = n]_driveVars
    <2> SUFFICES ASSUME DriveIInv, DriveNext, NEW n \in Workers,
                        mishaps = {}, pc[n] = "rename", pc'[n] = "release"
                 PROVE  dest' = n
      OBVIOUS
    <2>1. tmp = n
      BY DEF DriveIInv, StagedIsOwn
    <2>2. Rename(n)
      <3>1. pc \in [Workers -> {"idle", "redis", "fs", "unlink", "dump", "write", "rename",
                              "release", "remove", "dead"}]
        BY DEF DriveIInv, DriveTypeOK
      <3>2. ASSUME NEW m \in Workers, WorkerStep(m) PROVE Rename(n)
        <4>1. \E l : Goto(m, l)
          BY <3>2 DEF WorkerStep, BeginPut, RedisAcquire, FallBack, FallBackTooEarly,
                 TurnToFile, GiveUp, FsFindStale, FsUnlink, FsCreate, FsDump, WriteTmp, Rename,
                 SkipIdentical, SendRelease, LoseRelease, FsReadOwner, FsRemove
        <4>2. m = n
          BY <3>1, <4>1 DEF Goto
        <4>3. \A h \in Threads : ~FallBackTooEarly(n, h) /\ ~SendRelease(n, h)
          BY DEF FallBackTooEarly, TurnToFile, SendRelease
        <4>4. /\ ~BeginPut(n) /\ ~RedisAcquire(n) /\ ~FallBack(n) /\ ~GiveUp(n)
              /\ ~FsFindStale(n) /\ ~FsUnlink(n) /\ ~FsCreate(n) /\ ~FsDump(n)
              /\ ~WriteTmp(n) /\ ~SkipIdentical(n)
              /\ ~LoseRelease(n) /\ ~FsReadOwner(n) /\ ~FsRemove(n)
          BY DEF BeginPut, RedisAcquire, FallBack, TurnToFile, GiveUp, FsFindStale, FsUnlink,
                 FsCreate, FsDump, WriteTmp, SkipIdentical, LoseRelease, FsReadOwner, FsRemove
        <4> QED BY <3>2, <4>2, <4>3, <4>4 DEF WorkerStep
      <3>3. ASSUME NEW m \in Workers, WorkerCrash(m) PROVE FALSE
        BY <3>3 DEF WorkerCrash, Goto
      <3>4. ~ExpireEntry /\ ~AgeFile /\ \A h \in Threads : ~ServerStep(h)
        BY DEF ExpireEntry, AgeFile, ServerStep, ServeSet, ServeGet, ServeDel, RequestFails
      <3> QED BY <3>2, <3>3, <3>4 DEF DriveNext
    <2> QED BY <2>1, <2>2, NoWorkerAssumption DEF Rename
  <1> QED BY <1>1, DriveInvariance, PTL DEF DriveSpec, RenamesOwnData

------------------------------------------------------------------------------
\* The refinement of LockService by DriveLocks.

\* The refinement mapping.
DriveLock == IF entry = NoWorker THEN "free" ELSE "answered"
Insiders == {n \in Workers : InsideByRedis(n)}
Unlapsed == "lapse" \notin mishaps

\* A step of the lock service, or none.
DriveServiceStep ==
    \/ DriveService!Grant \/ DriveService!Answer \/ DriveService!GrantAndAnswer
    \/ DriveService!Free \/ DriveService!Break
    \/ \E n \in Workers : DriveService!Quit(n)
    \/ UNCHANGED <<DriveLock, Insiders, Unlapsed>>

\* Once a key has expired too early nothing is promised.
LEMMA LapsedRefines ==
    ASSUME "lapse" \in mishaps'
    PROVE  DriveServiceStep
  BY DEF DriveServiceStep, DriveService!Break

\* A worker that does not change its place in the critical section of the Redis
\* lock leaves the service alone, if the key stays.
LEMMA QuietWorker ==
    ASSUME entry' = entry, Insiders' = Insiders, Unlapsed' = Unlapsed
    PROVE  DriveServiceStep
  BY DEF DriveServiceStep, DriveLock

\* Until a lapse the insiders are the worker that the key names, or nobody.
LEMMA InsiderIsRecorded ==
    ASSUME DriveIInv, Unlapsed
    PROVE  /\ Insiders \subseteq {entry}
           /\ entry = NoWorker => Insiders = {}
  BY NoWorkerAssumption DEF DriveIInv, HolderIsRecorded, Insiders, Unlapsed

\* A step of one worker leaves the others where they are.
LEMMA OthersStay ==
    ASSUME DriveIInv, NEW n \in Workers, NEW l, Goto(n, l),
           mode' = mode \/ \E k : mode' = [mode EXCEPT ![n] = k]
    PROVE  /\ \A m \in Workers \ {n} : InsideByRedis(m)' <=> InsideByRedis(m)
           /\ pc'[n] = l
  BY DEF DriveIInv, DriveTypeOK, Goto, InsideByRedis, Holding

\* A worker that turns to the lock file was outside and stays there.
LEMMA TurningIsOutside ==
    ASSUME DriveIInv, NEW n \in Workers, TurnToFile(n)
    PROVE  Insiders' = Insiders
  <1>1. ~InsideByRedis(n)
    BY DEF TurnToFile, InsideByRedis, Holding
  <1>2. (\A m \in Workers \ {n} : InsideByRedis(m)' <=> InsideByRedis(m)) /\ pc'[n] = "fs"
    BY OthersStay DEF TurnToFile
  <1>3. ~InsideByRedis(n)'
    BY <1>2 DEF InsideByRedis, Holding
  <1> QED BY <1>1, <1>2, <1>3 DEF Insiders

\* Outside: the key is taken while it is free, by SET with an answer or, when
\* the answer is lost, for nobody.
LEMMA WaitingRefines ==
    ASSUME DriveIInv, Unlapsed, NEW n \in Workers,
           \/ BeginPut(n) \/ RedisAcquire(n) \/ FallBack(n) \/ GiveUp(n)
           \/ FsFindStale(n) \/ FsUnlink(n) \/ FsCreate(n) \/ FsDump(n)
           \/ FsReadOwner(n) \/ FsRemove(n)
    PROVE  DriveServiceStep
  <1>1. CASE RedisAcquire(n)
    <2>1. entry = NoWorker /\ entry' = n /\ Goto(n, "write") /\ UNCHANGED <<mode, mishaps>>
          /\ pc[n] = "redis"
      BY <1>1 DEF RedisAcquire
    <2>2. Insiders = {}
      BY <2>1, InsiderIsRecorded
    <2>3. mode'[n] = "redis"
      BY <2>1 DEF DriveIInv, ModeFits
    <2>4. Insiders' = {n}
      BY <2>1, <2>2, <2>3, OthersStay DEF Insiders, InsideByRedis, Holding
    <2>5. DriveService!GrantAndAnswer
      BY <2>1, <2>4, NoWorkerAssumption DEF DriveService!GrantAndAnswer, Insiders
    <2> QED BY <2>5 DEF DriveServiceStep
  <1>2. CASE FallBack(n)
    <2>1. TurnToFile(n) /\ (entry' = entry \/ (entry = NoWorker /\ entry' = n))
      BY <1>2 DEF FallBack
    <2>2. Insiders' = Insiders
      BY <2>1, TurningIsOutside
    <2>3. Unlapsed' /\ Unlapsed' = Unlapsed
      BY <2>1 DEF TurnToFile, Unlapsed
    <2>4. CASE entry' = entry
      BY <2>2, <2>3, <2>4, QuietWorker
    <2>5. CASE entry = NoWorker /\ entry' = n
      <3>1. DriveService!GrantAndAnswer
        BY <2>2, <2>3, <2>5, NoWorkerAssumption
           DEF DriveService!GrantAndAnswer, Insiders, Unlapsed
      <3> QED BY <3>1 DEF DriveServiceStep
    <2> QED BY <2>1, <2>4, <2>5
  <1>3. CASE \/ BeginPut(n) \/ GiveUp(n)
             \/ FsFindStale(n) \/ FsUnlink(n) \/ FsCreate(n) \/ FsDump(n)
             \/ FsReadOwner(n) \/ FsRemove(n)
    <2> USE DEF BeginPut, GiveUp, FsFindStale, FsUnlink, FsCreate, FsDump, FsReadOwner, FsRemove
    <2>1. UNCHANGED <<entry, mishaps>>
      BY <1>3 DEF lockVars
    <2>2. PICK l : Goto(n, l) /\ (l \in {"idle", "redis", "fs", "unlink"} \/ mode'[n] = "fs")
      BY <1>3 DEF DriveIInv, ModeFits
    <2>3. mode' = mode \/ \E k : mode' = [mode EXCEPT ![n] = k]
      BY <1>3
    <2>4. ~InsideByRedis(n)
      BY <1>3 DEF InsideByRedis, Holding, DriveIInv, ModeFits
    <2>5. ~InsideByRedis(n)'
      BY <2>2, <2>3, OthersStay DEF InsideByRedis, Holding
    <2>6. Insiders' = Insiders
      BY <2>2, <2>3, <2>4, <2>5, OthersStay DEF Insiders
    <2> QED BY <2>1, <2>6, QuietWorker DEF Unlapsed
  <1> QED BY <1>1, <1>2, <1>3

\* A worker stays inside until its release is sent or lost.
LEMMA InsideRefines ==
    ASSUME DriveIInv, Unlapsed, NEW n \in Workers,
           \/ WriteTmp(n) \/ Rename(n) \/ SkipIdentical(n) \/ LoseRelease(n)
           \/ \E h \in Threads : SendRelease(n, h)
    PROVE  DriveServiceStep
  <1> USE DEF WriteTmp, Rename, SkipIdentical, LoseRelease, SendRelease
  <1>0. Holding(n) /\ UNCHANGED <<entry, mode, mishaps>>
    BY DEF Holding, lockVars
  <1>1. PICK l : Goto(n, l)
    OBVIOUS
  <1>2. \A m \in Workers \ {n} : InsideByRedis(m)' <=> InsideByRedis(m)
    BY <1>0, <1>1, OthersStay
  <1>3. CASE InsideByRedis(n)' <=> InsideByRedis(n)
    <2>1. Insiders' = Insiders
      BY <1>2, <1>3 DEF Insiders
    <2> QED BY <1>0, <2>1, QuietWorker DEF Unlapsed
  <1>4. CASE ~InsideByRedis(n)' /\ InsideByRedis(n)
    <2>1. n \in Insiders /\ Insiders' = Insiders \ {n}
      BY <1>2, <1>4 DEF Insiders
    <2>2. DriveService!Quit(n)
      BY <1>0, <2>1 DEF DriveService!Quit, Insiders
    <2> QED BY <2>2 DEF DriveServiceStep
  <1>5. ~(InsideByRedis(n)' /\ ~InsideByRedis(n))
    BY <1>0 DEF InsideByRedis
  <1> QED BY <1>3, <1>4, <1>5

\* The server: a SET whose client has given up grants a free lock to nobody, and
\* a DEL frees it while nobody relies on it.
LEMMA ServerRefines ==
    ASSUME DriveIInv, Unlapsed, NEW h \in Threads, ServerStep(h)
    PROVE  DriveServiceStep
  <1>1. UNCHANGED <<pc, mode, mishaps>>
    BY DEF ServerStep, ServeSet, ServeGet, ServeDel, RequestFails
  <1>2. Insiders' = Insiders /\ Unlapsed' = Unlapsed
    BY <1>1 DEF Insiders, InsideByRedis, Holding, Unlapsed
  <1>3. CASE entry' = entry
    BY <1>2, <1>3, QuietWorker
  <1>4. CASE ServeSet(h) /\ entry' # entry
    <2>1. entry = NoWorker /\ entry' # NoWorker
      BY <1>4 DEF ServeSet
    <2>2. DriveService!GrantAndAnswer
      BY <1>1, <1>2, <2>1 DEF DriveService!GrantAndAnswer, Insiders
    <2> QED BY <2>2 DEF DriveServiceStep
  <1>5. CASE ServeDel(h)
    <2>1. PICK n \in Workers : ReleaseIsWith(n, h)
      BY <1>5 DEF ServeDel, ReleaseIsWith, DriveIInv, AskerIsKnown
    <2>2. entry = n /\ Insiders = {}
      BY <2>1 DEF DriveIInv, HolderIsRecorded, Insiders, Unlapsed
    <2>3. entry # NoWorker /\ entry' = NoWorker
      BY <1>5, <2>2, NoWorkerAssumption DEF ServeDel
    <2>4. DriveService!Free
      BY <1>1, <1>2, <2>2, <2>3 DEF DriveService!Free, Insiders
    <2> QED BY <2>4 DEF DriveServiceStep
  <1> QED BY <1>3, <1>4, <1>5 DEF ServerStep, ServeGet, RequestFails, lockVars

\* Every step of the lock server, the workers and time is a step of the lock
\* service or leaves it alone.
LEMMA DriveNextRefines ==
    ASSUME DriveIInv, [DriveNext]_driveVars
    PROVE  [DriveService!Next]_(DriveService!vars)
  <1>1. ASSUME "lapse" \in mishaps PROVE DriveServiceStep
    <2>1. mishaps \subseteq mishaps'
      <3>1. ASSUME NEW n \in Workers, WorkerStep(n) \/ WorkerCrash(n)
            PROVE  mishaps \subseteq mishaps'
        BY <3>1 DEF WorkerStep, WorkerCrash, BeginPut, RedisAcquire, FallBack,
               FallBackTooEarly, TurnToFile, GiveUp, FsFindStale, FsUnlink, FsCreate, FsDump,
               WriteTmp, Rename, SkipIdentical, SendRelease, LoseRelease, FsReadOwner, FsRemove
      <3>2. ASSUME NEW h \in Threads, ServerStep(h) PROVE mishaps \subseteq mishaps'
        BY <3>2 DEF ServerStep, ServeSet, ServeGet, ServeDel, RequestFails
      <3>3. ExpireEntry \/ AgeFile \/ UNCHANGED driveVars => mishaps \subseteq mishaps'
        BY DEF ExpireEntry, AgeFile, driveVars
      <3> QED BY <3>1, <3>2, <3>3 DEF DriveNext
    <2>2. "lapse" \in mishaps'
      BY <1>1, <2>1
    <2> QED BY <2>2, LapsedRefines
  <1>2. ASSUME Unlapsed, ExpireEntry PROVE DriveServiceStep
    <2>1. entry # NoWorker /\ entry' = NoWorker /\ UNCHANGED <<pc, mode>>
          /\ mishaps' = mishaps \cup {m \in {"lapse"} : Lapses(entry)}
      BY <1>2 DEF ExpireEntry
    <2>2. Insiders' = Insiders
      BY <2>1 DEF Insiders, InsideByRedis, Holding
    <2>3. CASE Lapses(entry)
      <3>1. "lapse" \in mishaps'
        BY <2>1, <2>3
      <3> QED BY <3>1, LapsedRefines
    <2>4. CASE ~Lapses(entry)
      <3>1. Insiders = {}
        BY <1>2, <2>4, InsiderIsRecorded DEF Insiders, Lapses
      <3>2. mishaps' = mishaps
        BY <2>1, <2>4
      <3>3. DriveService!Free
        BY <2>1, <2>2, <3>1, <3>2 DEF DriveService!Free, Insiders
      <3> QED BY <3>3 DEF DriveServiceStep
    <2> QED BY <2>3, <2>4
  <1>3. ASSUME UNCHANGED <<entry, mishaps, pc, mode>> PROVE DriveServiceStep
    <2>1. Insiders' = Insiders
      BY <1>3 DEF Insiders, InsideByRedis, Holding
    <2> QED BY <1>3, <2>1, QuietWorker DEF Unlapsed
  <1>4. AgeFile \/ UNCHANGED driveVars => UNCHANGED <<entry, mishaps, pc, mode>>
    BY DEF AgeFile, driveVars, lockVars
  <1>5. ASSUME NEW n \in Workers, WorkerCrash(n) PROVE DriveServiceStep
    <2>1. UNCHANGED <<entry, mode, mishaps>> /\ Goto(n, "dead")
      BY <1>5 DEF WorkerCrash, lockVars
    <2>2. Insiders' = Insiders \ {n}
      BY <2>1, OthersStay DEF Insiders, InsideByRedis, Holding
    <2>3. CASE n \in Insiders
      <3>1. DriveService!Quit(n)
        BY <2>1, <2>2, <2>3 DEF DriveService!Quit, Insiders
      <3> QED BY <3>1 DEF DriveServiceStep
    <2>4. CASE n \notin Insiders
      <3>1. Insiders' = Insiders
        BY <2>2, <2>4
      <3> QED BY <2>1, <3>1, QuietWorker DEF Unlapsed
    <2> QED BY <2>3, <2>4
  <1>6. ASSUME Unlapsed, NEW n \in Workers, NEW h \in Threads, FallBackTooEarly(n, h)
        PROVE  DriveServiceStep
    <2>1. TurnToFile(n) /\ entry' = entry
      BY <1>6 DEF FallBackTooEarly, lockVars
    <2>2. Unlapsed' = Unlapsed
      BY <2>1 DEF TurnToFile, Unlapsed
    <2> QED BY <2>1, <2>2, TurningIsOutside, QuietWorker
  <1>7. DriveServiceStep
    <2> SUFFICES ASSUME Unlapsed PROVE DriveServiceStep
      BY <1>1 DEF Unlapsed
    <2>1. ASSUME NEW n \in Workers, WorkerStep(n) PROVE DriveServiceStep
      BY <1>6, <2>1, WaitingRefines, InsideRefines DEF WorkerStep
    <2> QED BY <1>2, <1>3, <1>4, <1>5, <2>1, ServerRefines DEF DriveNext
  <1>8. UNCHANGED <<DriveLock, Insiders, Unlapsed>> => UNCHANGED DriveService!vars
    BY DEF DriveLock, Insiders, Unlapsed, DriveService!vars
  <1> QED BY <1>7, <1>8 DEF DriveServiceStep, DriveService!Next

\* The Redis key is a lock service for the workers, until a key expires too
\* early, though requests are lost or served late: granted only while it is
\* free, to one worker or, when the answer is lost or comes too late, to none,
\* and free again only when nobody relies on it.
THEOREM DriveRefinement == DriveSpec => DriveImplementsLockService
  <1>1. DriveInit => DriveService!Init
    BY DEF DriveInit, DriveService!Init, InsideByRedis, Holding
  <1>2. DriveIInv /\ [DriveNext]_driveVars => [DriveService!Next]_(DriveService!vars)
    BY DriveNextRefines
  <1> QED BY <1>1, <1>2, DriveInvariance, PTL
          DEF DriveSpec, DriveImplementsLockService, DriveService!Spec
=============================================================================
