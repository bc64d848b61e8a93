----------------------------- MODULE XioflowRuns -----------------------------
(***************************************************************************)
(* The lifecycle of XIOFLOW workflow runs: the three PostgreSQL tables     *)
(* xioflow_runs, xioflow_tasks and xioflow_dead_letters, and everything    *)
(* that writes them concurrently:                                          *)
(*   - the run dispatcher (xiosync/worker/run_dispatcher.py), which claims,*)
(*     executes and finishes a script run inside ONE database transaction; *)
(*   - the Colab workers, which claim a DAG run over HTTP, execute it      *)
(*     remotely and report the result in a later request;                  *)
(*   - the lease reaper (xiosync/worker/reaper.py);                        *)
(*   - the operators' requests (cancel, pause, resume, dead-letter retry), *)
(*     which read the run and then update it.                              *)
(* Isolation is READ COMMITTED: the variables hold the COMMITTED rows, an  *)
(* open dispatcher transaction is private to its dispatcher (dpc, drun,    *)
(* dtask) and holds the row lock of its run.  The script itself is a       *)
(* process of its own (start_new_session): it may outlive the transaction  *)
(* and the dispatcher that started it.                                     *)
(***************************************************************************)
EXTENDS Naturals, FiniteSets

CONSTANTS
    Runs,          \* primary keys of xioflow_runs
    Tasks,         \* primary keys of xioflow_tasks
    Dispatchers,   \* worker processes that run the dispatcher loop
    Clients,       \* concurrent API request handlers
    Reapers,       \* worker processes that run the reaper loop
    MaxRetries,    \* [Tasks -> max_retries], 3 unless the row says otherwise
    KindsOf,       \* bound: [Runs -> kinds of template it may be dispatched with]
    MaxSevered,    \* bound: severed scripts that run at the same time
    SchemaGaps,    \* columns on which the SQL text and the schema disagree
    NoRun, NoTask

\* "runs.priority": the claim statements ORDER BY xioflow_runs.priority, a
\* column that no migration creates.  "organization_id": NOT NULL in
\* xioflow_tasks and xioflow_dead_letters since f1a2b3c4d5e6, absent from the
\* INSERTs of run_dispatcher.py and reaper.py.  A statement that meets a gap
\* raises and its transaction is rolled back.
Gaps == {"runs.priority", "organization_id"}

ASSUME MaxRetriesAssumption == MaxRetries \in [Tasks -> Nat]
ASSUME MaxSeveredAssumption == MaxSevered \in Nat
ASSUME SchemaGapsAssumption == SchemaGaps \subseteq Gaps
ASSUME NullsAssumption == NoRun \notin Runs /\ NoTask \notin Tasks

VARIABLES
    rstate,    \* [Runs -> state column], "ABSENT" before the INSERT
    rkind,     \* [Runs -> kind of template], fixed by the INSERT
    rfin,      \* [Runs -> finished_at IS NOT NULL]
    tstate,    \* [Tasks -> state column], "ABSENT" before the INSERT
    trun,      \* [Tasks -> run_id]
    tretry,    \* [Tasks -> retry_count]
    dlq,       \* rows of xioflow_dead_letters
    quiet,     \* history: runs failed by a report that writes no dead letter
    dpc,       \* [Dispatchers -> progress of the current iteration]
    drun,      \* [Dispatchers -> run it claimed]
    dtask,     \* [Dispatchers -> task row it created]
    cut,       \* [Dispatchers -> run whose script it still waits for, although
               \*  the connection of its transaction was lost]
    orphans,   \* runs with a script that runs on after its dispatcher died
    job,       \* [Tasks -> execution of the task by a Colab worker]
    rsel,      \* [Reapers -> stale rows selected, not yet updated]
    areq,      \* [Clients -> request that has read its run, not yet written]
    arun       \* [Clients -> the run of that request]

runVars  == <<rstate, rkind, rfin>>
taskVars == <<tstate, trun, tretry>>
scriptVars == <<cut, orphans>>
dispVars == <<dpc, drun, dtask, scriptVars>>
letterVars == <<dlq, quiet>>
apiVars  == <<areq, arun>>
vars     == <<rstate, rkind, rfin, tstate, trun, tretry, dlq, quiet,
              dpc, drun, dtask, cut, orphans, job, rsel, areq, arun>>

------------------------------------------------------------------------------
\* The database: what its constraints and triggers accept.

\* CHECK ck_xfr_state on xioflow_runs.state.
RunStates == {"PENDING", "RUNNING", "SUCCESS", "FAILED", "CANCELLED"}

\* CHECK ck_xft_state on xioflow_tasks.state, the states the code writes.
TaskStates == {"PENDING", "CLAIMED", "SUCCESS", "FAILED"}

Terminal == {"SUCCESS", "FAILED", "CANCELLED"}

\* Fault: the guard forgets that terminal states are final.
GuardAllowsReopening(old, new) ==
    /\ old = "PENDING"  => new \in {"RUNNING", "CANCELLED"}
    /\ old = "RUNNING"  => new \in {"SUCCESS", "FAILED", "CANCELLED"}

\* Trigger xioflow_runs_state_guard, BEFORE UPDATE OF state.  It also fires
\* when the new state equals the old one.
GuardAllows(old, new) ==
    /\ old \in Terminal => new = old
    /\ old = "PENDING"  => new \in {"RUNNING", "CANCELLED"}
    /\ old = "RUNNING"  => new \in {"SUCCESS", "FAILED", "CANCELLED"}

\* An UPDATE of the state column commits iff CHECK and guard both accept it.
Accepts(old, new) == new \in RunStates /\ GuardAllows(old, new)

\* Rows of xioflow_dead_letters, and the row that writer "by" inserts.
Letters == [run : Runs, task : Tasks, by : {"dispatcher", "reaper", "trigger"},
            status : {"open", "resolved"}]
Letter(r, t, by) == [run |-> r, task |-> t, by |-> by, status |-> "open"]

\* Trigger xioflow_tasks_dlq_insert, AFTER UPDATE OF state: the dead letters
\* that updating task t of run r from state old to new inserts.
TriggerLetters(r, t, old, new, retries) ==
    {l \in {Letter(r, t, "trigger")} :
        new = "FAILED" /\ old # "FAILED" /\ retries >= MaxRetries[t]}

\* Kinds of run: a script template, a script dispatched with trace = true, an
\* xioflow_dag template, and a run without a usable template.
Kinds == {"script", "traced", "dag", "untyped"}

ASSUME KindsOfAssumption == KindsOf \in [Runs -> SUBSET Kinds]

------------------------------------------------------------------------------
\* Dispatcher transactions.

\* The dispatcher's transaction is open: none of its writes is visible.
InTx(d) == dpc[d] \in {"exec", "success", "failed", "deferred"}

\* The script that dispatcher d waits for, if any: a subprocess in a session
\* of its own.  A run without a usable template has none.
Script(d) == {r \in Runs : cut[d] = r \/ (dpc[d] = "exec" /\ drun[d] = r /\ rkind[r] # "untyped")}

\* Fault: the claim takes no row lock.
NeverLocked(r) == FALSE

\* Row lock on run r: FOR UPDATE and the uncommitted UPDATE of the claim.
Locked(r) == \E d \in Dispatchers : InTx(d) /\ drun[d] = r

\* A primary key that new_id() may still return.
FreshTask(t) == tstate[t] = "ABSENT" /\ \A d \in Dispatchers : dtask[d] # t

Idle(d) ==
    /\ dpc' = [dpc EXCEPT ![d] = "idle"]
    /\ drun' = [drun EXCEPT ![d] = NoRun]
    /\ dtask' = [dtask EXCEPT ![d] = NoTask]

\* The bound leaves room for one more script without its transaction.
RoomToSever ==
    Cardinality({d \in Dispatchers : cut[d] # NoRun}) + Cardinality(orphans) < MaxSevered

------------------------------------------------------------------------------
Init ==
    /\ rstate = [r \in Runs |-> "ABSENT"]
    /\ rkind  = [r \in Runs |-> "untyped"]
    /\ rfin   = [r \in Runs |-> FALSE]
    /\ tstate = [t \in Tasks |-> "ABSENT"]
    /\ trun   = [t \in Tasks |-> NoRun]
    /\ tretry = [t \in Tasks |-> 0]
    /\ dlq    = {}
    /\ quiet  = {}
    /\ dpc    = [d \in Dispatchers |-> "idle"]
    /\ drun   = [d \in Dispatchers |-> NoRun]
    /\ dtask  = [d \in Dispatchers |-> NoTask]
    /\ cut    = [d \in Dispatchers |-> NoRun]
    /\ orphans = {}
    /\ job    = [t \in Tasks |-> "none"]
    /\ rsel   = [p \in Reapers |-> {}]
    /\ areq   = [c \in Clients |-> "none"]
    /\ arun   = [c \in Clients |-> NoRun]

\* POST /runs: INSERT a PENDING run.
DispatchRun(r, k) ==
    /\ rstate[r] = "ABSENT"
    /\ rstate' = [rstate EXCEPT ![r] = "PENDING"]
    /\ rkind' = [rkind EXCEPT ![r] = k]
    /\ UNCHANGED <<rfin, taskVars, letterVars, dispVars, job, rsel, apiVars>>

------------------------------------------------------------------------------
\* run_dispatcher.py

\* Fault: the claim commits at once, so a crash leaves the run RUNNING.
ClaimNextPendingCommitting(d, r, t) ==
    /\ dpc[d] = "idle"
    /\ rstate[r] = "PENDING"
    /\ rkind[r] # "dag"
    /\ FreshTask(t)
    /\ rstate' = [rstate EXCEPT ![r] = "RUNNING"]
    /\ dpc' = [dpc EXCEPT ![d] = "exec"]
    /\ drun' = [drun EXCEPT ![d] = r]
    /\ dtask' = [dtask EXCEPT ![d] = t]
    /\ UNCHANGED <<rkind, rfin, taskVars, letterVars, scriptVars, job, rsel, apiVars>>

\* _claim_next_pending followed by _create_task, both in the transaction that
\* stays open.  SKIP LOCKED passes over a run that another transaction holds.
ClaimNextPending(d, r, t) ==
    /\ dpc[d] = "idle" /\ cut[d] = NoRun
    /\ SchemaGaps = {}
    /\ rstate[r] = "PENDING"
    /\ rkind[r] # "dag"
    /\ ~Locked(r)
    /\ FreshTask(t)
    /\ dpc' = [dpc EXCEPT ![d] = "exec"]
    /\ drun' = [drun EXCEPT ![d] = r]
    /\ dtask' = [dtask EXCEPT ![d] = t]
    /\ UNCHANGED <<runVars, taskVars, letterVars, scriptVars, job, rsel, apiVars>>

\* What _execute_script returns.  "deferred" is a failure too: a script that
\* prints {"status": "deferred"} and exits with a non-zero code.
Results == {"success", "failed", "deferred"}

\* _execute_script returns; a run without a usable template always fails.
Execute(d, result) ==
    /\ dpc[d] = "exec"
    /\ rkind[drun[d]] = "untyped" => result = "failed"
    /\ dpc' = [dpc EXCEPT ![d] = result]
    /\ UNCHANGED <<runVars, taskVars, letterVars, drun, dtask, scriptVars, job, rsel, apiVars>>

\* _schedule_trace_deploy: MemoryGraph.save_new_action commits the session it
\* shares with the dispatcher, and the claim with it.  Deployment is best
\* effort, so a traced run may also reach Finalise without this step.
ScheduleTraceDeploy(d) ==
    /\ dpc[d] = "success"
    /\ rkind[drun[d]] = "traced"
    /\ rstate' = [rstate EXCEPT ![drun[d]] = "RUNNING"]
    /\ tstate' = [tstate EXCEPT ![dtask[d]] = "CLAIMED"]
    /\ trun' = [trun EXCEPT ![dtask[d]] = drun[d]]
    /\ dpc' = [dpc EXCEPT ![d] = "partial"]
    /\ UNCHANGED <<rkind, rfin, tretry, letterVars, drun, dtask, scriptVars, job, rsel, apiVars>>

Outcome(d) == IF dpc[d] \in {"failed", "deferred"} THEN "FAILED" ELSE "SUCCESS"

\* The rows as the dispatcher's own session sees them.
OwnRunState(d)  == IF InTx(d) THEN "RUNNING" ELSE rstate[drun[d]]
OwnTaskState(d) == IF InTx(d) THEN "CLAIMED" ELSE tstate[dtask[d]]

\* Fault: a failed run gets no dead letter of its own.
FinaliseWithoutLetter(d) ==
    /\ dpc[d] \in Results \cup {"partial"}
    /\ Accepts(OwnRunState(d), Outcome(d))
    /\ rstate' = [rstate EXCEPT ![drun[d]] = Outcome(d)]
    /\ rfin' = [rfin EXCEPT ![drun[d]] = TRUE]
    /\ tstate' = [tstate EXCEPT ![dtask[d]] = Outcome(d)]
    /\ trun' = [trun EXCEPT ![dtask[d]] = drun[d]]
    /\ Idle(d)
    /\ UNCHANGED <<rkind, tretry, letterVars, scriptVars, job, rsel, apiVars>>

\* The run joins the quiet failures, unless the trigger writes the letter.
Quieted(r, t) == {q \in {r} : tretry[t] < MaxRetries[t]}

\* _finalise and session.commit(): task, run and dead letter in one commit.  A
\* deferred failure gets no dead letter from _finalise.
Finalise(d) ==
    /\ dpc[d] \in Results \cup {"partial"}
    /\ Accepts(OwnRunState(d), Outcome(d))
    /\ LET r == drun[d]
           t == dtask[d]
           explicit == {l \in {Letter(r, t, "dispatcher")} : dpc[d] = "failed"}
       IN  /\ rstate' = [rstate EXCEPT ![r] = Outcome(d)]
           /\ rfin' = [rfin EXCEPT ![r] = TRUE]
           /\ tstate' = [tstate EXCEPT ![t] = Outcome(d)]
           /\ trun' = [trun EXCEPT ![t] = r]
           /\ dlq' = dlq \cup explicit
                         \cup TriggerLetters(r, t, OwnTaskState(d), Outcome(d), tretry[t])
           /\ quiet' = IF dpc[d] = "deferred" THEN quiet \cup Quieted(r, t) ELSE quiet
    /\ Idle(d)
    /\ UNCHANGED <<rkind, tretry, scriptVars, job, rsel, apiVars>>

\* The guard rejects _finalise (the run was cancelled after the trace commit):
\* the loop logs the exception and the session rolls back.
FinaliseRejected(d) ==
    /\ dpc[d] = "partial"
    /\ ~Accepts(OwnRunState(d), Outcome(d))
    /\ Idle(d)
    /\ UNCHANGED <<runVars, taskVars, letterVars, scriptVars, job, rsel, apiVars>>

\* The process dies: PostgreSQL rolls back whatever was not committed.  The
\* script it was waiting for may die with it, or run on with nobody to stop it.
\* A connection that drops when no script is running ends the iteration alike.
DispatcherCrash(d) ==
    /\ dpc[d] # "idle" \/ cut[d] # NoRun
    /\ Idle(d)
    /\ cut' = [cut EXCEPT ![d] = NoRun]
    /\ \/ UNCHANGED orphans
       \/ RoomToSever /\ orphans' = orphans \cup Script(d)
    /\ UNCHANGED <<runVars, taskVars, letterVars, job, rsel, apiVars>>

\* The connection drops while the script runs: the claim is rolled back and the
\* row lock is gone, but the dispatcher waits for the script and knows nothing.
LoseConnection(d) ==
    /\ dpc[d] = "exec"
    /\ Script(d) # {} /\ RoomToSever
    /\ cut' = [cut EXCEPT ![d] = drun[d]]
    /\ Idle(d)
    /\ UNCHANGED <<runVars, taskVars, letterVars, orphans, job, rsel, apiVars>>

\* The script ends, or is killed after 180 seconds.  The next statement meets
\* the lost connection and raises; its result is recorded nowhere.
CutScriptEnds(d) ==
    /\ cut[d] # NoRun
    /\ cut' = [cut EXCEPT ![d] = NoRun]
    /\ UNCHANGED <<runVars, taskVars, letterVars, dpc, drun, dtask, orphans, job, rsel, apiVars>>

\* An orphaned script ends by itself, if ever.
OrphanEnds(r) ==
    /\ r \in orphans
    /\ orphans' = orphans \ {r}
    /\ UNCHANGED <<runVars, taskVars, letterVars, dpc, drun, dtask, cut, job, rsel, apiVars>>

------------------------------------------------------------------------------
\* Colab workers: claim_pending_dag_run(_internal) and complete_run(_internal)

\* One committed transaction; the response reaches the worker ("exec") or is
\* lost on the way ("over").
ClaimPendingDagRun(r, t, delivered) ==
    /\ "runs.priority" \notin SchemaGaps
    /\ rstate[r] = "PENDING"
    /\ rkind[r] = "dag"
    /\ ~Locked(r)
    /\ FreshTask(t)
    /\ rstate' = [rstate EXCEPT ![r] = "RUNNING"]
    /\ tstate' = [tstate EXCEPT ![t] = "CLAIMED"]
    /\ trun' = [trun EXCEPT ![t] = r]
    /\ job' = [job EXCEPT ![t] = delivered]
    /\ UNCHANGED <<rkind, rfin, tretry, letterVars, dispVars, rsel, apiVars>>

\* _execute_dag_run posts its only report, which may stay in flight.
ReportResult(t, result) ==
    /\ job[t] = "exec"
    /\ job' = [job EXCEPT ![t] = result]
    /\ UNCHANGED <<runVars, taskVars, letterVars, dispVars, rsel, apiVars>>

\* The worker dies, or the report does not arrive: nothing is sent again.
LoseJob(t) ==
    /\ job[t] \in {"exec", "success", "failed"}
    /\ job' = [job EXCEPT ![t] = "over"]
    /\ UNCHANGED <<runVars, taskVars, letterVars, dispVars, rsel, apiVars>>

\* Fault: the task is updated in a transaction of its own, which commits
\* even when the run's UPDATE is rejected.
CompleteRunTaskFirst(t) ==
    /\ job[t] \in {"success", "failed"}
    /\ job' = [job EXCEPT ![t] = "over"]
    /\ LET out == IF job[t] = "success" THEN "SUCCESS" ELSE "FAILED"
       IN  /\ tstate' = [tstate EXCEPT ![t] = out]
           /\ rstate' = [rstate EXCEPT ![trun[t]] = IF Accepts(@, out) THEN out ELSE @]
    /\ UNCHANGED <<rfin, letterVars, rkind, trun, tretry, dispVars, rsel, apiVars>>

\* Fault: the status of the report is stored as it came.
CompleteRunVerbatim(t) ==
    /\ job[t] \in {"success", "failed"}
    /\ job' = [job EXCEPT ![t] = "over"]
    /\ tstate' = [tstate EXCEPT ![t] = job[t]]
    /\ UNCHANGED <<runVars, letterVars, trun, tretry, dispVars, rsel, apiVars>>

\* The report is handled: task and run are updated in one transaction, which
\* the guard may reject as a whole.  The handler writes no dead letter.
CompleteRun(t) ==
    /\ job[t] \in {"success", "failed"}
    /\ ~Locked(trun[t])
    /\ job' = [job EXCEPT ![t] = "over"]
    /\ LET out == IF job[t] = "success" THEN "SUCCESS" ELSE "FAILED"
           r   == trun[t]
       IN  IF Accepts(rstate[r], out)
             THEN /\ tstate' = [tstate EXCEPT ![t] = out]
                  /\ rstate' = [rstate EXCEPT ![r] = out]
                  /\ rfin' = [rfin EXCEPT ![r] = TRUE]
                  /\ dlq' = dlq \cup TriggerLetters(r, t, tstate[t], out, tretry[t])
                  /\ quiet' = IF out = "FAILED" THEN quiet \cup Quieted(r, t) ELSE quiet
             ELSE UNCHANGED <<tstate, rstate, rfin, letterVars>>
    /\ UNCHANGED <<rkind, trun, tretry, dispVars, rsel, apiVars>>

------------------------------------------------------------------------------
\* reaper.py

\* The SELECT of stale rows.  Age is not modelled: any set of CLAIMED tasks
\* may have been claimed more than ten minutes ago.
SelectStale(p, S) ==
    /\ rsel[p] = {}
    /\ S # {}
    /\ \A t \in S : tstate[t] = "CLAIMED"
    /\ rsel' = [rsel EXCEPT ![p] = {<<t, tretry[t]>> : t \in S}]
    /\ UNCHANGED <<runVars, taskVars, letterVars, dispVars, job, apiVars>>

Retried(p) == {x[1] : x \in {y \in rsel[p] : y[2] < MaxRetries[y[1]]}}
Exhausted(p) == {x[1] : x \in {y \in rsel[p] : y[2] >= MaxRetries[y[1]]}}

\* Fault: the dead-letter path leaves the parent run alone.
NoRunsToFail(p) == {}

\* Parent runs that the dead-letter path moves to FAILED.
RunsToFail(p) == {r \in Runs : rstate[r] \notin Terminal
                                /\ \E t \in Exhausted(p) : trun[t] = r}

\* The UPDATEs by primary key and the commit.  Nothing re-checks the state
\* that the SELECT saw.
ReapExpiredLeases(p) ==
    /\ rsel[p] # {}
    /\ Exhausted(p) # {} => "organization_id" \notin SchemaGaps
    /\ \A r \in RunsToFail(p) : ~Locked(r) /\ Accepts(rstate[r], "FAILED")
    /\ tstate' = [t \in Tasks |-> IF t \in Retried(p) THEN "PENDING"
                                  ELSE IF t \in Exhausted(p) THEN "FAILED"
                                  ELSE tstate[t]]
    /\ tretry' = [t \in Tasks |-> IF t \in Retried(p)
                                  THEN (CHOOSE x \in rsel[p] : x[1] = t)[2] + 1
                                  ELSE tretry[t]]
    /\ dlq' = dlq \cup {Letter(trun[t], t, "reaper") : t \in Exhausted(p)}
                  \cup UNION {TriggerLetters(trun[t], t, tstate[t], "FAILED", tretry[t])
                                : t \in Exhausted(p)}
    /\ rstate' = [r \in Runs |-> IF r \in RunsToFail(p) THEN "FAILED" ELSE rstate[r]]
    /\ rfin' = [r \in Runs |-> IF r \in RunsToFail(p) THEN TRUE ELSE rfin[r]]
    /\ rsel' = [rsel EXCEPT ![p] = {}]
    /\ UNCHANGED <<rkind, trun, quiet, dispVars, job, apiVars>>

\* The process dies between SELECT and commit, or a statement raises.
ReaperAbort(p) ==
    /\ rsel[p] # {}
    /\ rsel' = [rsel EXCEPT ![p] = {}]
    /\ UNCHANGED <<runVars, taskVars, letterVars, dispVars, job, apiVars>>

------------------------------------------------------------------------------
\* Operators' requests.  Each handler reads the run, checks what it read, and
\* then updates the row by primary key.

Requests == {"cancel", "pause", "resume", "retry_dlq", "hitl_pause"}

\* The early returns (404, 409) of the handler, on the state it reads.
Admits(q, r) ==
    CASE q = "cancel"     -> rstate[r] \notin Terminal
      [] q = "pause"      -> rstate[r] \in {"RUNNING", "PENDING"}
      [] q = "resume"     -> rstate[r] = "PAUSED"
      [] q = "retry_dlq"  -> \E l \in dlq : l.run = r
      [] q = "hitl_pause" -> TRUE

\* The state that the handler's UPDATE writes.
Target(q) ==
    CASE q = "cancel" -> "CANCELLED"
      [] q \in {"pause", "hitl_pause"} -> "PAUSED"
      [] q \in {"resume", "retry_dlq"} -> "PENDING"

ReadRun(c, r, q) ==
    /\ areq[c] = "none"
    /\ rstate[r] # "ABSENT"
    /\ Admits(q, r)
    /\ areq' = [areq EXCEPT ![c] = q]
    /\ arun' = [arun EXCEPT ![c] = r]
    /\ UNCHANGED <<runVars, taskVars, letterVars, dispVars, job, rsel>>

\* The columns other than state: finished_at is set by cancel and cleared by
\* resume and retry_dlq; retry_dlq also resets every task of the run and
\* resolves the dead letter it was called for.
FinishedAfter(q, r) ==
    CASE q = "cancel" -> TRUE
      [] q \in {"resume", "retry_dlq"} -> FALSE
      [] OTHER -> rfin[r]

ResetTasks(q, r) ==
    [t \in Tasks |-> IF q = "retry_dlq" /\ tstate[t] # "ABSENT" /\ trun[t] = r
                     THEN "PENDING" ELSE tstate[t]]

ResolveLetter(q, r) ==
    IF q # "retry_dlq" THEN {dlq}
    ELSE {(dlq \ {l}) \cup {[l EXCEPT !.status = "resolved"]} : l \in {m \in dlq : m.run = r}}

\* Fault: the update does not wait for the lock.
WriteRunUnlocked(c) ==
    /\ areq[c] = "cancel"
    /\ areq' = [areq EXCEPT ![c] = "none"]
    /\ arun' = [arun EXCEPT ![c] = NoRun]
    /\ rstate' = [rstate EXCEPT ![arun[c]] = IF Accepts(@, "CANCELLED") THEN "CANCELLED" ELSE @]
    /\ UNCHANGED <<rkind, rfin, taskVars, letterVars, dispVars, job, rsel>>

\* The UPDATE waits for the row lock; when CHECK or guard rejects it the
\* request fails and the transaction leaves nothing behind.
WriteRun(c) ==
    /\ areq[c] # "none"
    /\ ~Locked(arun[c])
    /\ areq' = [areq EXCEPT ![c] = "none"]
    /\ arun' = [arun EXCEPT ![c] = NoRun]
    /\ LET r == arun[c]
           q == areq[c]
       IN  IF Accepts(rstate[r], Target(q))
             THEN /\ rstate' = [rstate EXCEPT ![r] = Target(q)]
                  /\ rfin' = [rfin EXCEPT ![r] = FinishedAfter(q, r)]
                  /\ tstate' = ResetTasks(q, r)
                  /\ dlq' \in ResolveLetter(q, r)
             ELSE UNCHANGED <<rstate, rfin, tstate, dlq>>
    /\ UNCHANGED <<rkind, trun, tretry, quiet, dispVars, job, rsel>>

------------------------------------------------------------------------------
DispatcherStep(d) ==
    \/ \E r \in Runs, t \in Tasks : ClaimNextPending(d, r, t)
    \/ \E result \in Results : Execute(d, result)
    \/ ScheduleTraceDeploy(d)
    \/ Finalise(d)
    \/ FinaliseRejected(d)
    \/ DispatcherCrash(d)
    \/ LoseConnection(d)
    \/ CutScriptEnds(d)

WorkerStep(t) ==
    \/ \E r \in Runs, delivered \in {"exec", "over"} : ClaimPendingDagRun(r, t, delivered)
    \/ \E result \in {"success", "failed"} : ReportResult(t, result)
    \/ LoseJob(t)
    \/ CompleteRun(t)

ReaperStep(p) ==
    \/ \E S \in SUBSET Tasks : SelectStale(p, S)
    \/ ReapExpiredLeases(p)
    \/ ReaperAbort(p)

ClientStep(c) ==
    \/ \E r \in Runs, q \in Requests : ReadRun(c, r, q)
    \/ WriteRun(c)

Next ==
    \/ \E r \in Runs : \E k \in KindsOf[r] : DispatchRun(r, k)
    \/ \E d \in Dispatchers : DispatcherStep(d)
    \/ \E r \in Runs : OrphanEnds(r)
    \/ \E t \in Tasks : WorkerStep(t)
    \/ \E p \in Reapers : ReaperStep(p)
    \/ \E c \in Clients : ClientStep(c)

Spec == Init /\ [][Next]_vars

\* Scheduling the code provides: every worker loop ticks again after an error
\* (worker/main.py, _run_loop), a script that its dispatcher waits for is killed
\* after 180 seconds, the server handles the requests it received, and crashes
\* and lost connections are not timed to hit every single execution (strong
\* fairness).  Nothing is assumed of operators, of the delivery of reports, or
\* of orphaned scripts.
DispatcherFairness ==
    \A d \in Dispatchers :
        /\ WF_vars(\E r \in Runs, t \in Tasks : ClaimNextPending(d, r, t))
        /\ SF_vars(\E result \in Results : Execute(d, result))
        /\ SF_vars(Finalise(d))
        /\ WF_vars(FinaliseRejected(d))
        /\ WF_vars(CutScriptEnds(d))

Fairness ==
    /\ DispatcherFairness
    /\ \A t \in Tasks : WF_vars(CompleteRun(t))
    /\ \A p \in Reapers : WF_vars(\E S \in SUBSET Tasks : SelectStale(p, S))
                          /\ SF_vars(ReapExpiredLeases(p))
    /\ \A c \in Clients : WF_vars(WriteRun(c))

DispatcherSpec == Spec /\ DispatcherFairness
FairSpec == Spec /\ Fairness

------------------------------------------------------------------------------
\* Every variable keeps its type.
TypeOK ==
    /\ rstate \in [Runs -> RunStates \cup {"ABSENT"}]
    /\ rkind \in [Runs -> Kinds]
    /\ rfin \in [Runs -> BOOLEAN]
    /\ tstate \in [Tasks -> TaskStates \cup {"ABSENT"}]
    /\ trun \in [Tasks -> Runs \cup {NoRun}]
    /\ tretry \in [Tasks -> Nat]
    /\ dlq \subseteq Letters
    /\ quiet \subseteq Runs
    /\ dpc \in [Dispatchers -> Results \cup {"idle", "exec", "partial"}]
    /\ drun \in [Dispatchers -> Runs \cup {NoRun}]
    /\ dtask \in [Dispatchers -> Tasks \cup {NoTask}]
    /\ cut \in [Dispatchers -> Runs \cup {NoRun}]
    /\ orphans \subseteq Runs
    /\ job \in [Tasks -> {"none", "exec", "success", "failed", "over"}]
    /\ rsel \in [Reapers -> SUBSET (Tasks \X Nat)]
    /\ areq \in [Clients -> Requests \cup {"none"}]
    /\ arun \in [Clients -> Runs \cup {NoRun}]

\* No committed step moves a run out of SUCCESS, FAILED or CANCELLED, whatever
\* late completion, stale cancel, dead-letter retry or finishing dispatcher
\* writes it.
TerminalImmutable ==
    [][\A r \in Runs : rstate[r] \in Terminal => rstate'[r] = rstate[r]]_vars

\* A run is handed out at most once: it never gets a second task row, although
\* crashed dispatchers, reaped tasks and dead-letter retries all try to put
\* work back.
AtMostOneTask ==
    \A t, u \in Tasks :
        (tstate[t] # "ABSENT" /\ tstate[u] # "ABSENT" /\ trun[t] = trun[u]) => t = u

\* Whoever is executing run r: dispatchers, worker jobs, and the scripts that
\* were severed from the transaction that claimed their run.
Severed(r) == {<<"cut", d>> : d \in {e \in Dispatchers : cut[e] = r}}
         \cup {<<"orphan", s>> : s \in orphans \cap {r}}
Executors(r) == {<<"dispatcher", d>> : d \in {e \in Dispatchers : dpc[e] # "idle" /\ drun[e] = r}}
           \cup {<<"job", t>> : t \in {u \in Tasks : job[u] = "exec" /\ trun[u] = r}}
           \cup Severed(r)

\* When a run is executed twice at the same time (which the code allows: a
\* severed script runs on while its run, rolled back to PENDING, is claimed
\* again), at most one of the executors still has the claim and can record an
\* outcome; the others are scripts whose transaction is already rolled back.
OnlySeveredDuplicates == \A r \in Runs : \A x, y \in Executors(r) \ Severed(r) : x = y

\* While a dispatcher's transaction on a run is open, the committed row stays
\* PENDING: no cancel, reap or completion slips in to be overwritten when the
\* dispatcher commits.
NoLostUpdate == \A d \in Dispatchers : InTx(d) => rstate[drun[d]] = "PENDING"

\* A task that ended and its run tell the same story: a rejected completion
\* report leaves neither half of its two UPDATEs behind.  Only the reaper's
\* dead-letter path, which is blind, may disagree.
OutcomeAgrees ==
    \A t \in Tasks :
        (tstate[t] \in {"SUCCESS", "FAILED"} /\ rstate[trun[t]] # tstate[t])
            => tstate[t] = "FAILED" /\ \E l \in dlq : l.task = t /\ l.by = "reaper"

\* A run that FAILED has a dead letter, whoever failed it (dispatcher, reaper,
\* or a report whose task had no retries left), unless the report that failed it
\* writes none: a deferred script, or the failure of a Colab worker's DAG.
FailureIsDeadLettered ==
    \A r \in Runs : (rstate[r] = "FAILED" /\ r \notin quiet) => \E l \in dlq : l.run = r

\* A dead letter never names a run that can still make progress: the writers of
\* dead letters (dispatcher, reaper, trigger) all end the run with it.
DeadLetterIsFinal == \A l \in dlq : rstate[l.run] \in Terminal

\* A run that the dispatcher executes without tracing ends, even though every
\* crash rolls it back to PENDING.
UntracedRunEnds ==
    \A r \in Runs :
        (rstate[r] = "PENDING" /\ rkind[r] \in {"script", "untyped"}) ~> rstate[r] \in Terminal

\* Whoever watches the runs sees the lifecycle of RunLifecycle: a start by a
\* dispatcher is provisional, and is pinned when a commit makes it visible.
Lifecycle == INSTANCE RunLifecycle WITH
    phase  <- [r \in Runs |-> IF Locked(r) THEN "RUNNING" ELSE rstate[r]],
    pinned <- {r \in Runs : rstate[r] \notin {"ABSENT", "PENDING"}}
ImplementsLifecycle == Lifecycle!Spec

------------------------------------------------------------------------------
\* The inductive invariant behind the safety properties.

\* An idle dispatcher holds nothing; a busy one holds a run and a task key.
DispatcherShape ==
    \A d \in Dispatchers :
        /\ dpc[d] = "idle" => dtask[d] = NoTask
        /\ dpc[d] # "idle" => /\ drun[d] \in Runs
                              /\ dtask[d] \in Tasks
                              /\ rkind[drun[d]] # "dag"

\* Busy dispatchers never share a run or a task key.
DispatchersDisjoint ==
    \A d, e \in Dispatchers :
        (d # e /\ dpc[d] # "idle" /\ dpc[e] # "idle")
            => drun[d] # drun[e] /\ dtask[d] # dtask[e]

\* The task row of an open transaction is not visible; after the trace commit
\* it is, and belongs to the dispatcher's run.
DispatcherTask ==
    \A d \in Dispatchers :
        /\ InTx(d) => tstate[dtask[d]] = "ABSENT"
        /\ dpc[d] = "partial" => /\ tstate[dtask[d]] # "ABSENT"
                                 /\ trun[dtask[d]] = drun[d]

\* A visible task belongs to a run that has left the queue.
TaskHasRun ==
    \A t \in Tasks : tstate[t] # "ABSENT" =>
        trun[t] \in Runs /\ rstate[trun[t]] \notin {"ABSENT", "PENDING"}

\* Only visible tasks of DAG runs are executed by Colab workers.
JobHasTask ==
    \A t \in Tasks : job[t] # "none" => tstate[t] # "ABSENT" /\ rkind[trun[t]] = "dag"

\* The reaper selected visible tasks, one version of each.
SelectionIsVisible ==
    \A p \in Reapers :
        /\ \A x \in rsel[p] : tstate[x[1]] # "ABSENT"
        /\ \A x, y \in rsel[p] : x[1] = y[1] => x = y

\* A request in progress names a run that exists.
RequestHasRun ==
    \A c \in Clients : areq[c] # "none" => arun[c] \in Runs /\ rstate[arun[c]] # "ABSENT"

IInv ==
    /\ TypeOK
    /\ DispatcherShape
    /\ DispatchersDisjoint
    /\ DispatcherTask
    /\ NoLostUpdate
    /\ TaskHasRun
    /\ AtMostOneTask
    /\ JobHasTask
    /\ SelectionIsVisible
    /\ RequestHasRun

------------------------------------------------------------------------------
\* reaper.py says of itself that it "retries stale xioflow_tasks": a requeued
\* task does not stay PENDING.  TLC refutes it, for no code claims a PENDING task.
RequeuedTaskIsRetried == \A t \in Tasks : tstate[t] = "PENDING" ~> tstate[t] # "PENDING"
=============================================================================
