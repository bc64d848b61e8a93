----------------------------- MODULE Delegation -----------------------------
(***************************************************************************)
(* Delegated rows and their cascading revocation: create_grant and         *)
(* revoke_grant of services/authorization.py, create_share and             *)
(* revoke_share of services/sharing.py, worker/grant_reaper.py.  Grants    *)
(* and shares have the same shape: a row names a parent and is active or   *)
(* revoked.  Every request and every tick is one READ COMMITTED            *)
(* transaction; the cascade is one statement, which sees the rows that     *)
(* are committed when it starts and then updates them one after another.   *)
(* The rows are those of one organization.                                 *)
(***************************************************************************)
EXTENDS Naturals, FiniteSets

CONSTANTS
    MaxRows,      \* bound: rows, numbered in the order of their creation
    MaxRequests,  \* bound: calls of revoke_grant and revoke_share, numbered as
                  \*   they arrive
    Expiring,     \* rows that are created with an expires_at
    MaxFailures,  \* bound: transactions that fail for no reason of their own
    Tables        \* the tables modelled: a subset of {"grants", "shares"}

ASSUME BoundsAssumption == MaxRows \in Nat /\ MaxRequests \in Nat /\ MaxFailures \in Nat
ASSUME ExpiringAssumption == Expiring \subseteq 1 .. MaxRows
ASSUME TablesAssumption == Tables \subseteq {"grants", "shares"} /\ Tables # {}

Rows == 1 .. MaxRows
None == 0
Requests == 1 .. MaxRequests
Reaper == 0  \* the grant reaper's loop
Txs == Requests \cup {Reaper}

VARIABLES
    table,     \* the table the rows are in; never changes
    state,     \* [Rows -> state of the row that is committed]
    parent,    \* [Rows -> parent_grant_id, parent_share_id]
    expired,   \* rows whose expires_at has passed
    tx,        \* [Txs -> where the transaction stands]
    todo,      \* [Txs -> rows its UPDATE has still to come to]
    did,       \* [Txs -> rows it has updated and locked]
    waits,     \* [Txs -> the row whose lock it waits for]
    snapshot,  \* [Txs -> rows that were committed when its statement started]
    failures,  \* bounded failures so far
    known,     \* history: [Rows -> the snapshot of the statement that revoked it]
    times      \* history: [Rows -> transactions that revoked it]

vars == <<table, state, parent, expired, tx, todo, did, waits, snapshot,
          failures, known, times>>

Init ==
    /\ table \in Tables
    /\ state = [r \in Rows |-> "none"]
    /\ parent = [r \in Rows |-> None]
    /\ expired = {}
    /\ tx = [t \in Txs |-> "idle"]
    /\ todo = [t \in Txs |-> {}]
    /\ did = [t \in Txs |-> {}]
    /\ waits = [t \in Txs |-> None]
    /\ snapshot = [t \in Txs |-> {}]
    /\ failures = 0
    /\ known = [r \in Rows |-> {}]
    /\ times = [r \in Rows |-> 0]

Committed == {r \in Rows : state[r] \in {"active", "revoked"}}
Active == {r \in Rows : state[r] = "active"}

------------------------------------------------------------------------------
\* create_grant, create_share

\* The row is inserted.  Its parent only has to exist: the foreign key's lock
\* does not meet the lock of an UPDATE that leaves the key alone.
Create(r, p) ==
    /\ state[r] = "none" /\ \A q \in Rows : q < r => state[q] # "none"
    /\ p \in Committed \cup {None}
    /\ state' = [state EXCEPT ![r] = "inserted"]
    /\ parent' = [parent EXCEPT ![r] = p]
    /\ UNCHANGED <<table, expired, tx, todo, did, waits, snapshot, failures, known, times>>

\* The request ends: the session commits, or rolls back on an exception.
EndCreate(r, committed) ==
    /\ state[r] = "inserted"
    /\ state' = [state EXCEPT ![r] = IF committed THEN "active" ELSE "none"]
    /\ parent' = [parent EXCEPT ![r] = IF committed THEN @ ELSE None]
    /\ UNCHANGED <<table, expired, tx, todo, did, waits, snapshot, failures, known, times>>

\* The clock passes expires_at.  A share's is looked at by its readers only.
Expire(r) ==
    /\ table = "grants" /\ r \in Expiring \ expired /\ state[r] = "active"
    /\ expired' = expired \cup {r}
    /\ UNCHANGED <<table, state, parent, tx, todo, did, waits, snapshot, failures,
                   known, times>>

------------------------------------------------------------------------------
\* The cascade

\* Fault: the CTE is not recursive, so that it finds children only.
ChildrenOnly(roots) == roots \cup {r \in Active : parent[r] \in roots}

\* With a row its active children: where the recursion comes to an end.
Closed(S) == \A r \in Active : parent[r] \in S => r \in S

\* WITH RECURSIVE: the least set of rows with the roots in it that the join with
\* the active rows adds nothing to.
Subtree(roots) ==
    {r \in Rows : \A S \in SUBSET Rows : roots \subseteq S /\ Closed(S) => r \in S}

\* The statement starts: the rows to update are those it finds now.  One that
\* finds none changes nothing (a request for a share then answers 422).
BeginUpdate(t, roots) ==
    /\ tx[t] = "idle" /\ roots # {}
    /\ tx' = [tx EXCEPT ![t] = "updating"]
    /\ todo' = [todo EXCEPT ![t] = Subtree(roots)]
    /\ snapshot' = [snapshot EXCEPT ![t] = Committed]
    /\ UNCHANGED <<table, state, parent, expired, did, waits, failures, known, times>>

NextRequest(t) == \A q \in Requests : q < t => tx[q] # "idle"

RevokeGrant(t, root) ==
    table = "grants" /\ NextRequest(t) /\ BeginUpdate(t, {root} \cap Active)

RevokeShare(t, root) ==
    table = "shares" /\ NextRequest(t) /\ BeginUpdate(t, {root} \cap Active)

TickGrantReaper ==
    table = "grants" /\ BeginUpdate(Reaper, Active \cap expired)

Locked(t, r) == \E u \in Txs \ {t} : r \in did[u]

\* Fault: the UPDATE does not ask for state = 'active'.
UpdateAgain(t, r) ==
    /\ r \in todo[t] /\ ~Locked(t, r) /\ waits[t] \in {None, r}
    /\ todo' = [todo EXCEPT ![t] = @ \ {r}]
    /\ waits' = [waits EXCEPT ![t] = None]
    /\ did' = [did EXCEPT ![t] = @ \cup {r}]
    /\ UNCHANGED <<table, state, parent, expired, tx, snapshot, failures, known, times>>

\* The next row is updated.  A row that another transaction has revoked since
\* the statement started no longer meets state = 'active' and is passed over.
UpdateRow(t, r) ==
    /\ r \in todo[t] /\ ~Locked(t, r) /\ waits[t] \in {None, r}
    /\ todo' = [todo EXCEPT ![t] = @ \ {r}]
    /\ waits' = [waits EXCEPT ![t] = None]
    /\ did' = [did EXCEPT ![t] = IF state[r] = "active" THEN @ \cup {r} ELSE @]
    /\ UNCHANGED <<table, state, parent, expired, tx, snapshot, failures, known, times>>

\* The next row is locked by another transaction.
WaitForRow(t, r) ==
    /\ r \in todo[t] /\ Locked(t, r) /\ waits[t] = None
    /\ waits' = [waits EXCEPT ![t] = r]
    /\ UNCHANGED <<table, state, parent, expired, tx, todo, did, snapshot, failures,
                   known, times>>

\* A request is over with its transaction, the reaper's loop comes back.
End(t) ==
    /\ tx' = [tx EXCEPT ![t] = IF t = Reaper THEN "idle" ELSE "ended"]
    /\ todo' = [todo EXCEPT ![t] = {}]
    /\ did' = [did EXCEPT ![t] = {}]
    /\ waits' = [waits EXCEPT ![t] = None]
    /\ snapshot' = [snapshot EXCEPT ![t] = {}]

\* Fault: the loop closes its session without a commit.
EndWithoutCommit(t) ==
    /\ tx[t] = "updating" /\ todo[t] = {}
    /\ state' = [r \in Rows |-> IF t # Reaper /\ r \in did[t] THEN "revoked" ELSE state[r]]
    /\ End(t)
    /\ UNCHANGED <<table, parent, expired, failures, known, times>>

Commit(t) ==
    /\ tx[t] = "updating" /\ todo[t] = {}
    /\ state' = [r \in Rows |-> IF r \in did[t] THEN "revoked" ELSE state[r]]
    /\ known' = [r \in Rows |-> IF r \in did[t] THEN snapshot[t] ELSE known[r]]
    /\ times' = [r \in Rows |-> IF r \in did[t] THEN times[r] + 1 ELSE times[r]]
    /\ End(t)
    /\ UNCHANGED <<table, parent, expired, failures>>

\* PostgreSQL ends a transaction that is part of a cycle of waits.
Deadlocked(t) ==
    \E cycle \in SUBSET Txs :
        /\ t \in cycle
        /\ \A u \in cycle : \E v \in cycle \ {u} : waits[u] \in did[v]

AbortDeadlocked(t) ==
    /\ Deadlocked(t)
    /\ End(t)
    /\ UNCHANGED <<table, state, parent, expired, failures, known, times>>

\* The process or its connection is lost.
Fail(t) ==
    /\ tx[t] = "updating"
    /\ failures < MaxFailures
    /\ failures' = failures + 1
    /\ End(t)
    /\ UNCHANGED <<table, state, parent, expired, known, times>>

------------------------------------------------------------------------------
TxStep(t) ==
    \/ \E r \in Rows : UpdateRow(t, r) \/ WaitForRow(t, r)
    \/ Commit(t) \/ AbortDeadlocked(t)

Next ==
    \/ \E r \in Rows :
          \/ \E p \in Rows \cup {None} : Create(r, p)
          \/ \E committed \in BOOLEAN : EndCreate(r, committed)
          \/ Expire(r)
          \/ \E t \in Requests : RevokeGrant(t, r) \/ RevokeShare(t, r)
    \/ TickGrantReaper
    \/ \E t \in Txs : TxStep(t) \/ Fail(t)

\* The database goes on with every statement and grants a row lock to those who
\* wait for it in turn; the reaper's loop comes back after every tick.
Spec ==
    /\ Init /\ [][Next]_vars
    /\ WF_vars(TickGrantReaper)
    /\ \A t \in Txs : WF_vars(TxStep(t))
    /\ \A t \in Requests : SF_vars(\E r \in Rows : UpdateRow(t, r))

------------------------------------------------------------------------------
TypeOK ==
    /\ table \in Tables
    /\ state \in [Rows -> {"none", "inserted", "active", "revoked"}]
    /\ parent \in [Rows -> Rows \cup {None}]
    /\ expired \subseteq Expiring
    /\ tx \in [Txs -> {"idle", "updating", "ended"}]
    /\ todo \in [Txs -> SUBSET Rows] /\ did \in [Txs -> SUBSET Rows]
    /\ waits \in [Txs -> Rows \cup {None}]
    /\ snapshot \in [Txs -> SUBSET Rows]
    /\ failures \in 0 .. MaxFailures
    /\ known \in [Rows -> SUBSET Rows] /\ times \in [Rows -> Nat]

\* "Revoke a grant and all its delegation descendants": an active row under a
\* revoked one was not there yet when the statement that revoked its parent
\* started, whatever other cascades ran, waited, failed or were chosen as the
\* victim of a deadlock at the same time.
NoSurvivingDescendant ==
    \A r \in Rows : state[r] = "active" /\ parent[r] # None =>
        (state[parent[r]] = "revoked" => r \notin known[parent[r]])

\* Cascades that overlap revoke a row once: revoked_at is not overwritten, and no row
\* is among the RETURNING ids of two statements.  (revoke_share then answers with the root's record all the same when
\* only a later descendant was among its ids.)
RevokedByOne == \A r \in Rows : times[r] <= 1

\* A grant that has expired is revoked in the end.
ExpiredIsRevoked ==
    \A r \in Expiring :
        (table = "grants" /\ state[r] = "active" /\ r \in expired) ~> state[r] = "revoked"

------------------------------------------------------------------------------
\* The inductive invariant behind the safety properties.

\* A transaction that has not started its UPDATE has touched nothing.
IdleIsEmpty == \A t \in Txs : tx[t] = "idle" => todo[t] = {} /\ did[t] = {}

\* A row that a transaction has updated is locked: it stays active to all others,
\* and no other transaction updates it too.
LocksAreApart ==
    \A t \in Txs : \A r \in did[t] :
        state[r] = "active" /\ \A u \in Txs : r \in did[u] => u = t

\* Only revoked rows have been revoked, and once.
RevocationsCount ==
    \A r \in Rows : times[r] <= 1 /\ (state[r] # "revoked" => times[r] = 0)

\* What a statement saw was committed, and stays so.
SnapshotsAreCommitted ==
    /\ \A t \in Txs : snapshot[t] \subseteq Committed
    /\ \A r \in Rows : known[r] \subseteq Committed

\* A cascade that has a row ahead of it or behind it has its children, too: those
\* it saw and that nobody else has revoked since.
CascadeIsClosed ==
    \A t \in Txs : \A r \in snapshot[t] :
        state[r] = "active" /\ parent[r] \in todo[t] \cup did[t] => r \in todo[t] \cup did[t]

IInv ==
    /\ TypeOK
    /\ IdleIsEmpty
    /\ LocksAreApart
    /\ RevocationsCount
    /\ SnapshotsAreCommitted
    /\ CascadeIsClosed
    /\ NoSurvivingDescendant
=============================================================================
