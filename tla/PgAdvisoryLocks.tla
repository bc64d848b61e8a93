--------------------------- MODULE PgAdvisoryLocks ---------------------------
(***************************************************************************)
(* The PostgreSQL-backed worker lock: xiorun/pg_advisory_lock.py and the   *)
(* /workers/lock/pg endpoints of api/routers/worker_locks.py, for ONE      *)
(* resource key (keys do not interact).  A lock is a session-level         *)
(* advisory lock, held by a connection that an API process keeps open and  *)
(* remembers in its module-level maps.  Several API processes share one    *)
(* database; in each of them requests run in parallel threads.             *)
(***************************************************************************)
EXTENDS Naturals

CONSTANTS
    Nodes,      \* Colab workers
    Procs,      \* API server processes
    Handlers,   \* request threads
    Conns,      \* database connections
    NoConn, NoNode,
    Faults      \* what may go wrong: subset of {"drop", "restart", "resend"}

ASSUME FaultsAssumption == Faults \subseteq {"drop", "restart", "resend"}
ASSUME NullsAssumption == NoConn \notin Conns /\ NoNode \notin Nodes

VARIABLES
    pg,        \* the connection that holds the advisory lock
    active,    \* [Procs -> _ACTIVE_LOCK_SESSIONS[key]]
    meta,      \* [Procs -> _ACTIVE_LOCK_METADATA[key]["node_name"]]
    step,      \* [Handlers -> next step of the request it serves]
    hproc, hnode, hconn,   \* process, requesting node, connection of a handler
    holds,     \* nodes that were told {acquired: true} and rely on it
    dead,      \* nodes that crashed
    undisturbed  \* no connection was lost and no release repeated so far

handlerVars == <<step, hproc, hnode, hconn>>
vars == <<pg, active, meta, step, hproc, hnode, hconn, holds, dead, undisturbed>>

Init ==
    /\ pg = NoConn
    /\ active = [p \in Procs |-> NoConn]
    /\ meta = [p \in Procs |-> NoNode]
    /\ step = [h \in Handlers |-> "idle"]
    /\ hproc \in [Handlers -> Procs]
    /\ hnode = [h \in Handlers |-> NoNode]
    /\ hconn = [h \in Handlers |-> NoConn]
    /\ holds = {}
    /\ dead = {}
    /\ undisturbed = TRUE

\* A connection that the pool can hand out.
InPool(c) == (\A p \in Procs : active[p] # c) /\ (\A h \in Handlers : hconn[h] # c)

End(h) ==
    /\ step' = [step EXCEPT ![h] = "idle"]
    /\ hnode' = [hnode EXCEPT ![h] = NoNode]
    /\ hconn' = [hconn EXCEPT ![h] = NoConn]
    /\ UNCHANGED hproc

------------------------------------------------------------------------------
\* try_acquire_lock

\* Under the mutex: a key that this process tracks is refused at once.
BeginAcquire(h, n) ==
    /\ step[h] = "idle"
    /\ n \notin holds \cup dead
    /\ active[hproc[h]] = NoConn
    /\ step' = [step EXCEPT ![h] = "try"]
    /\ hnode' = [hnode EXCEPT ![h] = n]
    /\ UNCHANGED <<pg, active, meta, hproc, hconn, holds, dead, undisturbed>>

\* Fault: the process trusts its own map and does not ask PostgreSQL.
TryLockLocally(h, c) ==
    /\ step[h] = "try"
    /\ InPool(c)
    /\ pg' = c
    /\ hconn' = [hconn EXCEPT ![h] = c]
    /\ step' = [step EXCEPT ![h] = "register"]
    /\ UNCHANGED <<active, meta, hproc, hnode, holds, dead, undisturbed>>

\* Fault: the lock is one of the transaction (pg_try_advisory_xact_lock), which
\* ends with the statement.
TryLockForTransaction(h, c) ==
    /\ step[h] = "try"
    /\ InPool(c)
    /\ \/ /\ pg = NoConn
          /\ hconn' = [hconn EXCEPT ![h] = c]
          /\ step' = [step EXCEPT ![h] = "register"]
          /\ UNCHANGED <<hproc, hnode>>
       \/ pg # NoConn /\ End(h)
    /\ UNCHANGED <<pg, active, meta, holds, dead, undisturbed>>

\* pg_try_advisory_lock on a new session; a refused one is closed.
TryLock(h, c) ==
    /\ step[h] = "try"
    /\ InPool(c)
    /\ \/ /\ pg = NoConn
          /\ pg' = c
          /\ hconn' = [hconn EXCEPT ![h] = c]
          /\ step' = [step EXCEPT ![h] = "register"]
          /\ UNCHANGED <<hproc, hnode>>
       \/ pg # NoConn /\ End(h) /\ UNCHANGED pg
    /\ UNCHANGED <<active, meta, holds, dead, undisturbed>>

\* Under the mutex: remember the session, and answer.  The answer may not
\* reach the node, or reach a node that has died.
Register(h, told) ==
    /\ step[h] = "register"
    /\ active' = [active EXCEPT ![hproc[h]] = hconn[h]]
    /\ meta' = [meta EXCEPT ![hproc[h]] = hnode[h]]
    /\ holds' = IF told /\ hnode[h] \notin dead THEN holds \cup {hnode[h]} ELSE holds
    /\ End(h)
    /\ UNCHANGED <<pg, dead, undisturbed>>

------------------------------------------------------------------------------
\* pg_release_lock_endpoint and release_lock

\* A node gives the lock back, or ("resend") repeats a release because it got
\* no answer.  is_locked: without a lock the request ends with lock_not_found.
BeginRelease(h, n) ==
    /\ step[h] = "idle"
    /\ n \notin dead
    /\ n \in holds \/ "resend" \in Faults
    /\ holds' = holds \ {n}
    /\ undisturbed' = (undisturbed /\ n \in holds)
    /\ \/ /\ pg # NoConn
          /\ step' = [step EXCEPT ![h] = "holder"]
          /\ hnode' = [hnode EXCEPT ![h] = n]
       \/ pg = NoConn /\ UNCHANGED <<step, hnode>>
    /\ UNCHANGED <<pg, active, meta, hproc, hconn, dead>>

\* get_lock_holder: this process's record, else the name of the backend, which
\* is never a node's name; None when the lock is gone by now.
CheckHolder(h) ==
    /\ step[h] = "holder"
    /\ \/ /\ \/ meta[hproc[h]] = hnode[h]
             \/ meta[hproc[h]] = NoNode /\ pg = NoConn
          /\ step' = [step EXCEPT ![h] = "pop"]
          /\ UNCHANGED <<hproc, hnode, hconn>>
       \/ /\ meta[hproc[h]] # hnode[h]
          /\ ~(meta[hproc[h]] = NoNode /\ pg = NoConn)
          /\ End(h)
    /\ UNCHANGED <<pg, active, meta, holds, dead, undisturbed>>

\* Under the mutex: whatever session the map holds for the key is taken out.
PopSession(h) ==
    /\ step[h] = "pop"
    /\ hconn' = [hconn EXCEPT ![h] = active[hproc[h]]]
    /\ active' = [active EXCEPT ![hproc[h]] = NoConn]
    /\ meta' = [meta EXCEPT ![hproc[h]] = NoNode]
    /\ step' = [step EXCEPT ![h] = "unlock"]
    /\ UNCHANGED <<pg, hproc, hnode, holds, dead, undisturbed>>

\* Fault: the session is closed, and so returned to the pool, without unlock.
CloseWithoutUnlock(h) ==
    /\ step[h] = "unlock"
    /\ End(h)
    /\ UNCHANGED <<pg, active, meta, holds, dead, undisturbed>>

\* pg_advisory_unlock on that session; on a dropped connection, or on the
\* scoped session used when nothing was tracked, it releases nothing.
Unlock(h) ==
    /\ step[h] = "unlock"
    /\ pg' = IF pg = hconn[h] THEN NoConn ELSE pg
    /\ End(h)
    /\ UNCHANGED <<active, meta, holds, dead, undisturbed>>

------------------------------------------------------------------------------
\* The environment.

\* A connection that waits in the map is dropped: PostgreSQL frees the lock.
DropConn(p) ==
    /\ "drop" \in Faults
    /\ active[p] # NoConn /\ pg = active[p]
    /\ pg' = NoConn
    /\ undisturbed' = FALSE
    /\ UNCHANGED <<active, meta, handlerVars, holds, dead>>

\* An API process restarts: its maps are empty, its connections are gone and
\* its requests end without an answer.
Restart(p) ==
    LET mine == {h \in Handlers : hproc[h] = p} IN
    /\ "restart" \in Faults
    /\ undisturbed' = FALSE
    /\ active' = [active EXCEPT ![p] = NoConn]
    /\ meta' = [meta EXCEPT ![p] = NoNode]
    /\ pg' = IF pg # NoConn /\ (pg = active[p] \/ \E h \in mine : pg = hconn[h])
             THEN NoConn ELSE pg
    /\ step' = [h \in Handlers |-> IF h \in mine THEN "idle" ELSE step[h]]
    /\ hnode' = [h \in Handlers |-> IF h \in mine THEN NoNode ELSE hnode[h]]
    /\ hconn' = [h \in Handlers |-> IF h \in mine THEN NoConn ELSE hconn[h]]
    /\ UNCHANGED <<hproc, holds, dead>>

NodeCrash(n) ==
    /\ n \notin dead
    /\ dead' = dead \cup {n}
    /\ holds' = holds \ {n}
    /\ UNCHANGED <<pg, active, meta, handlerVars, undisturbed>>

Serve(h) ==
    \/ \E c \in Conns : TryLock(h, c)
    \/ \E told \in BOOLEAN : Register(h, told)
    \/ CheckHolder(h)
    \/ PopSession(h)
    \/ Unlock(h)

Next ==
    \/ \E h \in Handlers : Serve(h) \/ \E n \in Nodes : BeginAcquire(h, n) \/ BeginRelease(h, n)
    \/ \E p \in Procs : DropConn(p) \/ Restart(p)
    \/ \E n \in Nodes : NodeCrash(n)

Spec == Init /\ [][Next]_vars

------------------------------------------------------------------------------
\* Every variable keeps its type.
TypeOK ==
    /\ pg \in Conns \cup {NoConn}
    /\ active \in [Procs -> Conns \cup {NoConn}]
    /\ meta \in [Procs -> Nodes \cup {NoNode}]
    /\ step \in [Handlers -> {"idle", "try", "register", "holder", "pop", "unlock"}]
    /\ hproc \in [Handlers -> Procs]
    /\ hnode \in [Handlers -> Nodes \cup {NoNode}]
    /\ hconn \in [Handlers -> Conns \cup {NoConn}]
    /\ holds \subseteq Nodes
    /\ dead \subseteq Nodes
    /\ undisturbed \in BOOLEAN

\* The lock is never held by a connection that no one can unlock any more: it
\* is in the map of a process or in the hands of a request, in spite of
\* restarts, dropped connections and repeated releases.
NoOrphanLock ==
    pg # NoConn =>
        \/ \E p \in Procs : active[p] = pg
        \/ \E h \in Handlers : hconn[h] = pg /\ step[h] \in {"register", "unlock"}

\* Two nodes never both rely on the lock, whichever processes served them and
\* whoever died, until a connection is lost under a holder or a release is
\* repeated.
MutualExclusion == undisturbed => \A m, n \in holds : m = n

\* Until the lock is disturbed, the processes, their maps and the connections
\* are one lock service for the nodes: a grant in the hands of a request is not
\* answered yet, and the lock is free again only after its holder gave it back.
Service == INSTANCE LockService WITH
    Clients <- Nodes,
    lock    <- IF pg = NoConn THEN "free"
               ELSE IF \E h \in Handlers : step[h] = "register" THEN "granted" ELSE "answered",
    relying <- holds,
    sound   <- undisturbed
ImplementsLockService == Service!Spec

------------------------------------------------------------------------------
\* The inductive invariant behind the safety properties.

\* A request in progress knows its node.
RequestHasNode == \A h \in Handlers : step[h] # "idle" => hnode[h] \in Nodes

\* A connection is in one place: the map of one process or the hands of one
\* request, and a request has one only while it registers or unlocks it.
ConnsAreApart ==
    /\ \A h \in Handlers : hconn[h] # NoConn =>
        /\ step[h] \in {"register", "unlock"}
        /\ \A g \in Handlers : hconn[g] = hconn[h] => g = h
        /\ \A p \in Procs : active[p] # hconn[h]
    /\ \A p, q \in Procs : active[p] # NoConn /\ active[p] = active[q] => p = q

\* Between pg_try_advisory_lock and the entry in the map nobody can take the
\* lock away.
RegisterHasLock ==
    \A h \in Handlers : step[h] = "register" => hconn[h] = pg /\ pg # NoConn

\* The two maps of a process have entries for the same keys.
MapsAgree == \A p \in Procs : meta[p] # NoNode => active[p] # NoConn

\* While nothing disturbed the lock, a session in a map is the one that holds
\* it, and a node relies on the lock only while it is in a map.
TrackedIsHeld ==
    undisturbed =>
        /\ \A p \in Procs : active[p] # NoConn => active[p] = pg
        /\ \A n \in holds : pg # NoConn /\ \E p \in Procs : active[p] = pg

\* While nothing disturbed the lock, there is at most one release under way;
\* nobody relies on the lock by then, and nobody else can get it before the
\* session is unlocked.
Releasing(h) == step[h] \in {"holder", "pop", "unlock"}
ReleaseIsAlone ==
    undisturbed =>
        \A h \in Handlers : Releasing(h) =>
            /\ holds = {}
            /\ \A g \in Handlers : Releasing(g) => g = h
            /\ pg # NoConn
            /\ step[h] = "holder" => \E p \in Procs : active[p] = pg
            /\ step[h] = "pop" => active[hproc[h]] = pg
            /\ step[h] = "unlock" => hconn[h] = pg

IInv ==
    /\ TypeOK
    /\ RequestHasNode
    /\ ConnsAreApart
    /\ RegisterHasLock
    /\ MapsAgree
    /\ NoOrphanLock
    /\ TrackedIsHeld
    /\ ReleaseIsAlone
    /\ MutualExclusion
=============================================================================
