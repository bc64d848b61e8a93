--------------------------- MODULE WebhookDelivery ---------------------------
(***************************************************************************)
(* Outbound webhooks: xiosync/worker/webhook_dispatcher.py and the         *)
(* operators' dead-letter requests (xiosync/api/routers/dlq.py).  A        *)
(* delivery intent is a webhook.dispatch row of the append-only events     *)
(* table, its outcomes are webhook.delivered and webhook.failed rows.  A   *)
(* dispatcher selects a batch, POSTs its members one after the other and   *)
(* commits all outcomes at the end: what the subscriber has seen and what  *)
(* the table says differ in between.                                       *)
(***************************************************************************)
EXTENDS Naturals, FiniteSets, FiniteSetsExt

CONSTANTS
    NumEvents,    \* webhook.dispatch rows; their numbers are their age
    Blank,        \* rows without target_url
    Broken,       \* rows whose POST raises outside (URLError, OSError)
    Dispatchers,  \* processes that run the dispatcher loop
    MaxAttempts,  \* MAX_DELIVERY_ATTEMPTS (5)
    Limit,        \* LIMIT of the SELECT (50)
    MaxRollbacks  \* bound of the crashes and unexpected exceptions

Events == 1..NumEvents

ASSUME BoundsAssumption == {NumEvents, MaxAttempts, Limit} \subseteq Nat \ {0}
ASSUME KindsAssumption == Blank \subseteq Events /\ Broken \subseteq Events
ASSUME DispatchersAssumption == IsFiniteSet(Dispatchers)
ASSUME MaxRollbacksAssumption == MaxRollbacks \in Nat

VARIABLES
    rows,        \* committed webhook.dispatch rows
    delivered,   \* rows with a committed webhook.delivered row
    failed,      \* [Events -> committed webhook.failed rows]
    posts,       \* [Events -> delivery attempts]
    acked,       \* [Events -> POSTs that the subscriber accepted]
    dpc,         \* [Dispatchers -> "idle" | "posting" | "down"]
    queue,       \* [Dispatchers -> selected rows not handled yet]
    good, bad,   \* [Dispatchers -> rows with an uncommitted outcome]
    unheard,     \* history: [Events -> POSTs accepted, but recorded as failed]
    rollbacks    \* batches lost to a crash or an unexpected exception

stageVars == <<dpc, queue, good, bad>>
vars == <<rows, delivered, failed, posts, acked, unheard, stageVars, rollbacks>>

\* Above every value that the properties allow; counters stop there.
Cap == MaxAttempts + Cardinality(Dispatchers) + MaxRollbacks + 1

Bump(n) == IF n < Cap THEN n + 1 ELSE n

\* What becomes of a POST: accepted and answered, accepted without an answer in
\* time, or not accepted.
Results == {"answered", "unheard", "refused"}

Init ==
    /\ rows = {}
    /\ delivered = {}
    /\ failed = [e \in Events |-> 0]
    /\ posts = [e \in Events |-> 0]
    /\ acked = [e \in Events |-> 0]
    /\ unheard = [e \in Events |-> 0]
    /\ dpc = [d \in Dispatchers |-> "idle"]
    /\ queue = [d \in Dispatchers |-> {}]
    /\ good = [d \in Dispatchers |-> {}]
    /\ bad = [d \in Dispatchers |-> {}]
    /\ rollbacks = 0

\* EventService.append finds a matching subscription; rows appear in order.
AppendDispatch(e) ==
    /\ e \notin rows
    /\ 1..(e - 1) \subseteq rows
    /\ rows' = rows \cup {e}
    /\ UNCHANGED <<delivered, failed, posts, acked, unheard, stageVars, rollbacks>>

\* Fault: the count is compared with <=.
PendingOneMore == {e \in rows : e \notin delivered /\ failed[e] <= MaxAttempts}

\* Fault: delivered rows are not excluded.
PendingDelivered == {e \in rows : failed[e] < MaxAttempts}

\* The WHERE clause of the SELECT.
Pending == {e \in rows : e \notin delivered /\ failed[e] < MaxAttempts}

\* Fault: the batch is one row short of its LIMIT.
OldestButOne(S) == {e \in S : Cardinality({f \in S : f < e}) < Limit - 1}

\* ORDER BY created_at ASC LIMIT :lim
Oldest(S) == {e \in S : Cardinality({f \in S : f < e}) < Limit}

SelectBatch(d) ==
    /\ dpc[d] = "idle"
    /\ Pending # {}
    /\ dpc' = [dpc EXCEPT ![d] = "posting"]
    /\ queue' = [queue EXCEPT ![d] = Oldest(Pending)]
    /\ UNCHANGED <<rows, delivered, failed, posts, acked, unheard, good, bad, rollbacks>>

\* A row without target_url is logged and passed over.
SkipBlank(d) ==
    /\ queue[d] # {}
    /\ Min(queue[d]) \in Blank
    /\ queue' = [queue EXCEPT ![d] = @ \ {Min(@)}]
    /\ UNCHANGED <<rows, delivered, failed, posts, acked, unheard, dpc, good, bad, rollbacks>>

\* The POST is answered with success, or fails with URLError, HTTPError or
\* OSError: the subscriber did not accept it, or it did and its answer was lost or
\* came after DELIVERY_TIMEOUT.
Post(d, result) ==
    LET e == Min(queue[d]) IN
    /\ queue[d] # {}
    /\ e \notin Blank
    /\ queue' = [queue EXCEPT ![d] = @ \ {e}]
    /\ posts' = [posts EXCEPT ![e] = Bump(@)]
    /\ acked' = IF result = "refused" THEN acked ELSE [acked EXCEPT ![e] = Bump(@)]
    /\ unheard' = IF result = "unheard" THEN [unheard EXCEPT ![e] = Bump(@)] ELSE unheard
    /\ good' = IF result = "answered" THEN [good EXCEPT ![d] = @ \cup {e}] ELSE good
    /\ bad' = IF result = "answered" THEN bad ELSE [bad EXCEPT ![d] = @ \cup {e}]
    /\ UNCHANGED <<rows, delivered, failed, dpc, rollbacks>>

\* The session is closed: staged outcomes are gone.
Forget(d) ==
    /\ queue' = [queue EXCEPT ![d] = {}]
    /\ good' = [good EXCEPT ![d] = {}]
    /\ bad' = [bad EXCEPT ![d] = {}]

\* ... before they were committed.
RollBack(d) ==
    /\ rollbacks < MaxRollbacks
    /\ rollbacks' = rollbacks + 1
    /\ Forget(d)

\* The POST raises something else (a malformed URL, or a malformed status line
\* from a subscriber that may have accepted it): the exception leaves the function
\* and the session is rolled back.
PostRaises(d, accepted) ==
    LET e == Min(queue[d]) IN
    /\ queue[d] # {}
    /\ e \in Broken \ Blank
    /\ posts' = [posts EXCEPT ![e] = Bump(@)]
    /\ acked' = IF accepted THEN [acked EXCEPT ![e] = Bump(@)] ELSE acked
    /\ dpc' = [dpc EXCEPT ![d] = "idle"]
    /\ RollBack(d)
    /\ UNCHANGED <<rows, delivered, failed, unheard>>

\* session.commit() after the last member of the batch.
CommitBatch(d) ==
    /\ dpc[d] = "posting"
    /\ queue[d] = {}
    /\ delivered' = delivered \cup good[d]
    /\ failed' = [e \in Events |-> IF e \in bad[d] THEN Bump(failed[e]) ELSE failed[e]]
    /\ dpc' = [dpc EXCEPT ![d] = "idle"]
    /\ Forget(d)
    /\ UNCHANGED <<rows, posts, acked, unheard, rollbacks>>

DispatcherCrash(d) ==
    /\ dpc[d] = "posting"
    /\ dpc' = [dpc EXCEPT ![d] = "down"]
    /\ RollBack(d)
    /\ UNCHANGED <<rows, delivered, failed, posts, acked, unheard>>

Recover(d) ==
    /\ dpc[d] = "down"
    /\ dpc' = [dpc EXCEPT ![d] = "idle"]
    /\ UNCHANGED <<rows, delivered, failed, posts, acked, unheard, queue, good, bad, rollbacks>>

\* resolve_dlq_webhook inserts a webhook.delivered row for the given id.
ResolveDlqWebhook(e) ==
    /\ e \in rows
    /\ delivered' = delivered \cup {e}
    /\ UNCHANGED <<rows, failed, posts, acked, unheard, stageVars, rollbacks>>

DispatcherStep(d) ==
    \/ SelectBatch(d)
    \/ SkipBlank(d)
    \/ \E result \in Results : Post(d, result)
    \/ \E accepted \in BOOLEAN : PostRaises(d, accepted)
    \/ CommitBatch(d)
    \/ Recover(d)

Next ==
    \/ \E e \in Events : AppendDispatch(e) \/ ResolveDlqWebhook(e)
    \/ \E d \in Dispatchers : DispatcherStep(d) \/ DispatcherCrash(d)

Spec == Init /\ [][Next]_vars

\* The loop ticks for ever.
FairSpec == Spec /\ \A d \in Dispatchers : WF_vars(DispatcherStep(d))

------------------------------------------------------------------------------
\* Every variable keeps its type.
TypeOK ==
    /\ rows \subseteq Events
    /\ delivered \subseteq rows
    /\ failed \in [Events -> 0..Cap]
    /\ posts \in [Events -> 0..Cap]
    /\ acked \in [Events -> 0..Cap]
    /\ unheard \in [Events -> 0..Cap]
    /\ dpc \in [Dispatchers -> {"idle", "posting", "down"}]
    /\ {queue, good, bad} \subseteq [Dispatchers -> SUBSET rows]
    /\ rollbacks \in 0..MaxRollbacks

\* The attempts for a row stay bounded however batches, failures and operators'
\* decisions interleave: MAX_DELIVERY_ATTEMPTS, one more for each further
\* dispatcher that had selected the row, one more for each batch rolled back.
AttemptsBounded ==
    \A e \in Events : posts[e] <= MaxAttempts + (Cardinality(Dispatchers) - 1) + rollbacks

\* A subscriber that accepted an event gets it again only from another dispatcher
\* that had selected it, after a batch was rolled back, or because its answer was
\* lost or late; a retry that nobody needed comes from nowhere else.
RepeatsHaveACause ==
    \A e \in Events : acked[e] <= Cardinality(Dispatchers) + rollbacks + unheard[e]

\* A row that has failed MaxAttempts times.
GivenUp(e) == failed[e] >= MaxAttempts

\* A row that is given up and selected by nobody.
LeftAlone(e) == GivenUp(e) /\ \A d \in Dispatchers : e \notin queue[d]

\* Such a row is never selected or attempted again, although crashes and
\* unexpected exceptions roll back outcomes of the batches it was in.
GivenUpIsFinal ==
    [][\A e \in Events : LeftAlone(e) => LeftAlone(e)' /\ posts'[e] = posts[e]]_vars

\* Every row with a usable URL is delivered, resolved or given up, even when
\* older rows have no URL and batches are lost with their outcomes uncommitted.
EveryDispatchSettles ==
    \A e \in Events \ Blank : e \in rows ~> (e \in delivered \/ GivenUp(e))

------------------------------------------------------------------------------
\* The inductive invariant

\* Dispatchers that will still post row e, that have it in their batch, and
\* that may still commit it as delivered.
Waiting(e) == {d \in Dispatchers : e \in queue[d]}
Having(e)  == {d \in Dispatchers : e \in queue[d] \cup good[d] \cup bad[d]}
Winning(e) == {d \in Dispatchers : e \in queue[d] \cup good[d]}

\* Only a dispatcher inside a batch has rows.
ClosedHasNothing ==
    \A d \in Dispatchers :
        dpc[d] # "posting" => queue[d] = {} /\ good[d] = {} /\ bad[d] = {}

\* As long as a row can be selected, each attempt made or to come belongs to a
\* committed failure, to a batch that holds the row, or to a lost batch.  Then
\* the attempts that are left are those of the batches that have selected it.
AttemptsPaid(e) ==
    /\ e \notin delivered /\ failed[e] < MaxAttempts =>
          posts[e] + Cardinality(Waiting(e)) <= failed[e] + Cardinality(Having(e)) + rollbacks
    /\ posts[e] + Cardinality(Waiting(e))
          <= MaxAttempts + (Cardinality(Dispatchers) - 1) + rollbacks

\* The same for the attempts that the subscriber accepts: as long as the row is
\* not delivered, none of those that were answered is committed.
AcksPaid(e) ==
    /\ e \notin delivered =>
          acked[e] + Cardinality(Waiting(e)) <= Cardinality(Winning(e)) + rollbacks + unheard[e]
    /\ acked[e] + Cardinality(Waiting(e)) <= Cardinality(Dispatchers) + rollbacks + unheard[e]

IInv ==
    /\ TypeOK
    /\ ClosedHasNothing
    /\ \A e \in Events : AttemptsPaid(e) /\ AcksPaid(e)
=============================================================================
