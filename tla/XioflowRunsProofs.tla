-------------------------- MODULE XioflowRunsProofs --------------------------
(* Proofs about XioflowRuns, for every number of runs, tasks, dispatchers,  *)
(* workers, clients and reapers.                                            *)
EXTENDS XioflowRuns, TLAPS

\* What CHECK and guard leave of a transition: a run never goes back to
\* PENDING, never leaves a terminal state, and never becomes PAUSED.
LEMMA AcceptedTransitions ==
    ASSUME NEW old \in RunStates, NEW new, Accepts(old, new)
    PROVE  /\ new \in RunStates \ {"PENDING"}
           /\ old \in Terminal => new = old
           /\ old = "PENDING" => new \in {"RUNNING", "CANCELLED"}
  BY DEF Accepts, GuardAllows, RunStates, Terminal

\* Every dead letter the code inserts is well formed.
LEMMA LetterType ==
    ASSUME NEW r \in Runs, NEW t \in Tasks, NEW by \in {"dispatcher", "reaper", "trigger"}
    PROVE  Letter(r, t, by) \in Letters
  BY DEF Letter, Letters

LEMMA TriggerLettersType ==
    ASSUME NEW r \in Runs, NEW t \in Tasks, NEW old, NEW new, NEW n
    PROVE  TriggerLetters(r, t, old, new, n) \subseteq Letters
  BY LetterType DEF TriggerLetters

\* The inductive invariant holds initially.
LEMMA InitIInv == Init => IInv
  <1> SUFFICES ASSUME Init PROVE IInv
    OBVIOUS
  <1> USE DEF Init
  <1>1. TypeOK
    BY DEF TypeOK, Kinds
  <1>2. DispatcherShape /\ DispatchersDisjoint /\ DispatcherTask /\ NoLostUpdate
    BY DEF DispatcherShape, DispatchersDisjoint, DispatcherTask, NoLostUpdate, InTx
  <1>3. TaskHasRun /\ AtMostOneTask /\ JobHasTask
    BY DEF TaskHasRun, AtMostOneTask, JobHasTask
  <1>4. SelectionIsVisible /\ RequestHasRun
    BY DEF SelectionIsVisible, RequestHasRun
  <1> QED BY <1>1, <1>2, <1>3, <1>4 DEF IInv

\* Stuttering preserves the invariant.
LEMMA StutterIInv == IInv /\ UNCHANGED vars => IInv'
  BY DEF IInv, vars, TypeOK, DispatcherShape, DispatchersDisjoint, DispatcherTask, NoLostUpdate,
         InTx, TaskHasRun, AtMostOneTask, JobHasTask, SelectionIsVisible, RequestHasRun

\* A new run: nothing refers to its key yet.
LEMMA DispatchRunIInv ==
    ASSUME IInv, NEW r \in Runs, NEW k \in Kinds, DispatchRun(r, k)
    PROVE  IInv'
  <1> USE DEF DispatchRun, taskVars, letterVars, dispVars, scriptVars, apiVars
  <1>1. TypeOK'
    BY DEF IInv, TypeOK, RunStates
  <1>2. (DispatcherShape /\ DispatchersDisjoint /\ DispatcherTask /\ NoLostUpdate)'
    BY DEF IInv, TypeOK, DispatcherShape, DispatchersDisjoint, DispatcherTask, NoLostUpdate,
           TaskHasRun, InTx, Results
  <1>3. (TaskHasRun /\ AtMostOneTask /\ JobHasTask /\ SelectionIsVisible /\ RequestHasRun)'
    BY DEF IInv, TaskHasRun, AtMostOneTask, JobHasTask, SelectionIsVisible, RequestHasRun
  <1> QED BY <1>1, <1>2, <1>3 DEF IInv

\* The row lock keeps the claims of busy dispatchers apart.
LEMMA ClaimNextPendingIInv ==
    ASSUME IInv, NEW d \in Dispatchers, NEW r \in Runs, NEW t \in Tasks, ClaimNextPending(d, r, t)
    PROVE  IInv'
  <1> USE DEF ClaimNextPending, runVars, taskVars, letterVars, dispVars, scriptVars, apiVars
  <1>1. TypeOK'
    BY DEF IInv, TypeOK
  <1>2. DispatcherShape' /\ DispatchersDisjoint'
    BY DEF IInv, TypeOK, DispatcherShape, DispatchersDisjoint, DispatcherTask, TaskHasRun, InTx, Results,
           Locked, FreshTask
  <1>3. DispatcherTask'
    BY DEF IInv, TypeOK, DispatcherTask, InTx, FreshTask
  <1>4. NoLostUpdate'
    BY DEF IInv, TypeOK, NoLostUpdate, InTx
  <1>5. TaskHasRun' /\ AtMostOneTask'
    BY DEF IInv, TaskHasRun, AtMostOneTask
  <1>6. JobHasTask'
    BY DEF IInv, JobHasTask
  <1>7. SelectionIsVisible' /\ RequestHasRun'
    BY DEF IInv, SelectionIsVisible, RequestHasRun
  <1> QED BY <1>1, <1>2, <1>3, <1>4, <1>5, <1>6, <1>7 DEF IInv

\* Running the script writes no row.
LEMMA ExecuteIInv ==
    ASSUME IInv, NEW d \in Dispatchers, NEW result \in Results, Execute(d, result)
    PROVE  IInv'
  <1> USE DEF Execute, Results, runVars, taskVars, letterVars, dispVars, scriptVars, apiVars
  <1>1. TypeOK'
    BY DEF IInv, TypeOK
  <1>2. (DispatcherShape /\ DispatchersDisjoint /\ DispatcherTask /\ NoLostUpdate)'
    BY DEF IInv, DispatcherShape, DispatchersDisjoint, DispatcherTask, NoLostUpdate, InTx
  <1>3. (TaskHasRun /\ AtMostOneTask /\ JobHasTask /\ SelectionIsVisible /\ RequestHasRun)'
    BY DEF IInv, TaskHasRun, AtMostOneTask, JobHasTask, SelectionIsVisible, RequestHasRun
  <1> QED BY <1>1, <1>2, <1>3 DEF IInv

\* The trace commit makes the claim visible as a whole.
LEMMA ScheduleTraceDeployIInv ==
    ASSUME IInv, NEW d \in Dispatchers, ScheduleTraceDeploy(d)
    PROVE  IInv'
  <1> USE DEF ScheduleTraceDeploy, runVars, taskVars, letterVars, dispVars, scriptVars, apiVars
  <1>1. TypeOK'
    BY DEF IInv, TypeOK, RunStates, TaskStates
  <1>2. DispatcherShape' /\ DispatchersDisjoint'
    BY DEF IInv, DispatcherShape, DispatchersDisjoint
  <1>3. DispatcherTask'
    BY DEF IInv, TypeOK, DispatcherShape, DispatchersDisjoint, DispatcherTask, InTx
  <1>4. NoLostUpdate'
    BY DEF IInv, TypeOK, DispatchersDisjoint, NoLostUpdate, InTx
  <1>5. TaskHasRun' /\ AtMostOneTask'
    BY DEF IInv, TypeOK, DispatcherShape, NoLostUpdate, TaskHasRun, AtMostOneTask, InTx
  <1>6. JobHasTask'
    BY DEF IInv, DispatcherTask, JobHasTask, InTx
  <1>7. SelectionIsVisible' /\ RequestHasRun'
    BY DEF IInv, SelectionIsVisible, RequestHasRun
  <1> QED BY <1>1, <1>2, <1>3, <1>4, <1>5, <1>6, <1>7 DEF IInv

\* The row that a committing dispatcher overwrites was still PENDING, or it is
\* one that the dispatcher itself had made visible.
LEMMA FinaliseIInv ==
    ASSUME IInv, NEW d \in Dispatchers, Finalise(d)
    PROVE  IInv'
  <1>1. /\ drun[d] \in Runs /\ dtask[d] \in Tasks
        /\ rkind[drun[d]] # "dag"
        /\ dpc[d] # "idle"
    BY DEF IInv, DispatcherShape, Finalise, Results
  <1>2. Outcome(d) \in {"SUCCESS", "FAILED"}
    BY DEF Outcome
  <1>3. /\ rstate' = [rstate EXCEPT ![drun[d]] = Outcome(d)]
        /\ tstate' = [tstate EXCEPT ![dtask[d]] = Outcome(d)]
        /\ trun' = [trun EXCEPT ![dtask[d]] = drun[d]]
        /\ rfin' = [rfin EXCEPT ![drun[d]] = TRUE]
        /\ Idle(d)
        /\ UNCHANGED <<rkind, tretry, cut, orphans, job, rsel, areq, arun>>
        /\ quiet' \subseteq quiet \cup {drun[d]}
    BY DEF Finalise, scriptVars, apiVars, Quieted
  <1>4. dlq' \subseteq Letters
    <2> DEFINE explicit == {l \in {Letter(drun[d], dtask[d], "dispatcher")} : dpc[d] = "failed"}
               byTrigger == TriggerLetters(drun[d], dtask[d], OwnTaskState(d), Outcome(d), tretry[dtask[d]])
    <2>1. dlq' = dlq \cup explicit \cup byTrigger
      BY DEF Finalise
    <2>2. explicit \subseteq Letters
      BY <1>1, LetterType
    <2>3. byTrigger \subseteq Letters
      BY <1>1, TriggerLettersType
    <2>4. dlq \subseteq Letters
      BY DEF IInv, TypeOK
    <2> HIDE DEF explicit, byTrigger
    <2> QED BY <2>1, <2>2, <2>3, <2>4
  <1> USE <1>1, <1>2, <1>3 DEF Idle
  <1>5. TypeOK'
    BY <1>4 DEF IInv, TypeOK, RunStates, TaskStates
  <1>6. DispatcherShape' /\ DispatchersDisjoint'
    BY DEF IInv, TypeOK, DispatcherShape, DispatchersDisjoint
  <1>7. DispatcherTask' /\ NoLostUpdate'
    BY DEF IInv, TypeOK, DispatchersDisjoint, DispatcherTask, NoLostUpdate, InTx
  <1>8. TaskHasRun' /\ AtMostOneTask'
    BY DEF IInv, TypeOK, DispatcherTask, NoLostUpdate, TaskHasRun, AtMostOneTask, InTx, Results
  <1>9. JobHasTask'
    BY DEF IInv, TypeOK, DispatcherTask, JobHasTask, InTx, Results
  <1>10. SelectionIsVisible' /\ RequestHasRun'
    BY DEF IInv, SelectionIsVisible, RequestHasRun
  <1> QED BY <1>5, <1>6, <1>7, <1>8, <1>9, <1>10 DEF IInv

\* A rejected commit rolls back.
LEMMA FinaliseRejectedIInv ==
    ASSUME IInv, NEW d \in Dispatchers, FinaliseRejected(d)
    PROVE  IInv'
  <1> USE DEF FinaliseRejected, Idle, runVars, taskVars, letterVars, dispVars, scriptVars, apiVars
  <1>1. TypeOK'
    BY DEF IInv, TypeOK
  <1>2. (DispatcherShape /\ DispatchersDisjoint /\ DispatcherTask /\ NoLostUpdate)'
    BY DEF IInv, TypeOK, DispatcherShape, DispatchersDisjoint, DispatcherTask, NoLostUpdate, InTx
  <1>3. (TaskHasRun /\ AtMostOneTask /\ JobHasTask /\ SelectionIsVisible /\ RequestHasRun)'
    BY DEF IInv, TaskHasRun, AtMostOneTask, JobHasTask, SelectionIsVisible, RequestHasRun
  <1> QED BY <1>1, <1>2, <1>3 DEF IInv

\* A crash rolls back: no row of an open transaction stays.
LEMMA DispatcherCrashIInv ==
    ASSUME IInv, NEW d \in Dispatchers, DispatcherCrash(d)
    PROVE  IInv'
  <1> USE DEF DispatcherCrash, Script, Idle, runVars, taskVars, letterVars, dispVars, scriptVars, apiVars
  <1>1. TypeOK'
    BY DEF IInv, TypeOK
  <1>2. (DispatcherShape /\ DispatchersDisjoint /\ DispatcherTask /\ NoLostUpdate)'
    BY DEF IInv, TypeOK, DispatcherShape, DispatchersDisjoint, DispatcherTask, NoLostUpdate, InTx
  <1>3. (TaskHasRun /\ AtMostOneTask /\ JobHasTask /\ SelectionIsVisible /\ RequestHasRun)'
    BY DEF IInv, TaskHasRun, AtMostOneTask, JobHasTask, SelectionIsVisible, RequestHasRun
  <1> QED BY <1>1, <1>2, <1>3 DEF IInv

\* A lost connection rolls back as well; only the script runs on.
LEMMA LoseConnectionIInv ==
    ASSUME IInv, NEW d \in Dispatchers, LoseConnection(d)
    PROVE  IInv'
  <1> USE DEF LoseConnection, Idle, runVars, taskVars, letterVars, apiVars
  <1>1. TypeOK'
    BY DEF IInv, TypeOK
  <1>2. (DispatcherShape /\ DispatchersDisjoint /\ DispatcherTask /\ NoLostUpdate)'
    BY DEF IInv, TypeOK, DispatcherShape, DispatchersDisjoint, DispatcherTask, NoLostUpdate, InTx
  <1>3. (TaskHasRun /\ AtMostOneTask /\ JobHasTask /\ SelectionIsVisible /\ RequestHasRun)'
    BY DEF IInv, TaskHasRun, AtMostOneTask, JobHasTask, SelectionIsVisible, RequestHasRun
  <1> QED BY <1>1, <1>2, <1>3 DEF IInv

\* The end of a severed script touches no row and no open transaction.
LEMMA SeveredScriptEndsIInv ==
    ASSUME IInv, (\E d \in Dispatchers : CutScriptEnds(d)) \/ (\E r \in Runs : OrphanEnds(r))
    PROVE  IInv'
  <1>1. /\ UNCHANGED <<rstate, rkind, rfin, tstate, trun, tretry, dlq, quiet, dpc, drun, dtask,
                       job, rsel, areq, arun>>
        /\ cut' \in [Dispatchers -> Runs \cup {NoRun}] /\ orphans' \subseteq Runs
    BY DEF CutScriptEnds, OrphanEnds, runVars, taskVars, letterVars, apiVars, IInv, TypeOK
  <1>2. TypeOK'
    BY <1>1 DEF IInv, TypeOK
  <1>3. (DispatcherShape /\ DispatchersDisjoint /\ DispatcherTask /\ NoLostUpdate)'
    BY <1>1 DEF IInv, DispatcherShape, DispatchersDisjoint, DispatcherTask, NoLostUpdate, InTx
  <1>4. (TaskHasRun /\ AtMostOneTask /\ JobHasTask /\ SelectionIsVisible /\ RequestHasRun)'
    BY <1>1 DEF IInv, TaskHasRun, AtMostOneTask, JobHasTask, SelectionIsVisible, RequestHasRun
  <1> QED BY <1>2, <1>3, <1>4 DEF IInv

\* A Colab worker's claim takes a run that no dispatcher holds.
LEMMA ClaimPendingDagRunIInv ==
    ASSUME IInv, NEW r \in Runs, NEW t \in Tasks, NEW delivered \in {"exec", "over"}, ClaimPendingDagRun(r, t, delivered)
    PROVE  IInv'
  <1> USE DEF ClaimPendingDagRun, runVars, taskVars, letterVars, dispVars, scriptVars, apiVars
  <1>1. TypeOK'
    BY DEF IInv, TypeOK, RunStates, TaskStates
  <1>2. DispatcherShape' /\ DispatchersDisjoint'
    BY DEF IInv, DispatcherShape, DispatchersDisjoint
  <1>3. DispatcherTask'
    BY DEF IInv, DispatcherTask, InTx, FreshTask
  <1>4. NoLostUpdate'
    BY DEF IInv, NoLostUpdate, InTx, Locked
  <1>5. TaskHasRun' /\ AtMostOneTask'
    BY DEF IInv, TypeOK, TaskHasRun, AtMostOneTask
  <1>6. JobHasTask'
    BY DEF IInv, TypeOK, JobHasTask
  <1>7. SelectionIsVisible' /\ RequestHasRun'
    BY DEF IInv, SelectionIsVisible, RequestHasRun
  <1> QED BY <1>1, <1>2, <1>3, <1>4, <1>5, <1>6, <1>7 DEF IInv

\* Posting a report writes no row.
LEMMA ReportResultIInv ==
    ASSUME IInv, NEW t \in Tasks, NEW result \in {"success", "failed"}, ReportResult(t, result)
    PROVE  IInv'
  <1> USE DEF ReportResult, runVars, taskVars, letterVars, dispVars, scriptVars, apiVars
  <1>1. TypeOK'
    BY DEF IInv, TypeOK
  <1>2. (DispatcherShape /\ DispatchersDisjoint /\ DispatcherTask /\ NoLostUpdate)'
    BY DEF IInv, DispatcherShape, DispatchersDisjoint, DispatcherTask, NoLostUpdate, InTx
  <1>3. (TaskHasRun /\ AtMostOneTask /\ JobHasTask /\ SelectionIsVisible /\ RequestHasRun)'
    BY DEF IInv, TaskHasRun, AtMostOneTask, JobHasTask, SelectionIsVisible, RequestHasRun
  <1> QED BY <1>1, <1>2, <1>3 DEF IInv

\* Losing a job or its report writes no row.
LEMMA LoseJobIInv ==
    ASSUME IInv, NEW t \in Tasks, LoseJob(t)
    PROVE  IInv'
  <1> USE DEF LoseJob, runVars, taskVars, letterVars, dispVars, scriptVars, apiVars
  <1>1. TypeOK'
    BY DEF IInv, TypeOK
  <1>2. (DispatcherShape /\ DispatchersDisjoint /\ DispatcherTask /\ NoLostUpdate)'
    BY DEF IInv, DispatcherShape, DispatchersDisjoint, DispatcherTask, NoLostUpdate, InTx
  <1>3. (TaskHasRun /\ AtMostOneTask /\ JobHasTask /\ SelectionIsVisible /\ RequestHasRun)'
    BY DEF IInv, TaskHasRun, AtMostOneTask, JobHasTask, SelectionIsVisible, RequestHasRun
  <1> QED BY <1>1, <1>2, <1>3 DEF IInv

\* A completion report changes a run that no open transaction holds.
LEMMA CompleteRunIInv ==
    ASSUME IInv, NEW t \in Tasks, CompleteRun(t)
    PROVE  IInv'
  <1> DEFINE out == IF job[t] = "success" THEN "SUCCESS" ELSE "FAILED"
             r   == trun[t]
  <1>1. /\ r \in Runs
        /\ rstate[r] \in RunStates \ {"PENDING"}
        /\ tstate[t] # "ABSENT"
        /\ ~Locked(r)
        /\ job[t] # "none"
    BY DEF IInv, TypeOK, JobHasTask, TaskHasRun, CompleteRun
  <1>2. /\ job' = [job EXCEPT ![t] = "over"]
        /\ UNCHANGED <<rkind, trun, tretry, dpc, drun, dtask, cut, orphans, rsel, areq, arun>>
        /\ quiet' \subseteq quiet \cup {r}
    BY DEF CompleteRun, dispVars, scriptVars, apiVars, letterVars, Quieted
  <1>3. CASE Accepts(rstate[r], out)
    <2>1. /\ tstate' = [tstate EXCEPT ![t] = out]
          /\ rstate' = [rstate EXCEPT ![r] = out]
          /\ rfin' = [rfin EXCEPT ![r] = TRUE]
          /\ dlq' = dlq \cup TriggerLetters(r, t, tstate[t], out, tretry[t])
      BY <1>3 DEF CompleteRun
    <2>2. out \in {"SUCCESS", "FAILED"}
      OBVIOUS
    <2> HIDE DEF out, r
    <2>3. dlq' \subseteq Letters
      BY <1>1, <2>1, TriggerLettersType DEF IInv, TypeOK
    <2>4. TypeOK'
      BY <1>1, <1>2, <2>1, <2>2, <2>3 DEF IInv, TypeOK, RunStates, TaskStates
    <2>5. (DispatcherShape /\ DispatchersDisjoint /\ DispatcherTask /\ NoLostUpdate)'
      BY <1>1, <1>2, <2>1, <2>2 DEF IInv, DispatcherShape, DispatchersDisjoint, DispatcherTask,
             NoLostUpdate, InTx
    <2>6. (TaskHasRun /\ AtMostOneTask /\ JobHasTask /\ SelectionIsVisible /\ RequestHasRun)'
      BY <1>1, <1>2, <2>1, <2>2 DEF IInv, TaskHasRun, AtMostOneTask, JobHasTask,
             SelectionIsVisible, RequestHasRun
    <2> QED BY <2>4, <2>5, <2>6 DEF IInv
  <1>4. CASE ~Accepts(rstate[r], out)
    <2>1. UNCHANGED <<tstate, rstate, rfin, dlq>>
      BY <1>4 DEF CompleteRun, letterVars
    <2>2. TypeOK'
      BY <1>1, <1>2, <2>1 DEF IInv, TypeOK
    <2>3. (DispatcherShape /\ DispatchersDisjoint /\ DispatcherTask /\ NoLostUpdate)'
      BY <1>2, <2>1 DEF IInv, DispatcherShape, DispatchersDisjoint, DispatcherTask, NoLostUpdate,
             InTx
    <2>4. (TaskHasRun /\ AtMostOneTask /\ JobHasTask /\ SelectionIsVisible /\ RequestHasRun)'
      BY <1>1, <1>2, <2>1 DEF IInv, TaskHasRun, AtMostOneTask, JobHasTask, SelectionIsVisible,
             RequestHasRun
    <2> QED BY <2>2, <2>3, <2>4 DEF IInv
  <1> QED BY <1>3, <1>4

\* The reaper's SELECT writes no row and sees each task once.
LEMMA SelectStaleIInv ==
    ASSUME IInv, NEW p \in Reapers, NEW S \in SUBSET Tasks, SelectStale(p, S)
    PROVE  IInv'
  <1> USE DEF SelectStale, runVars, taskVars, letterVars, dispVars, scriptVars, apiVars
  <1>1. TypeOK'
    BY DEF IInv, TypeOK
  <1>2. (DispatcherShape /\ DispatchersDisjoint /\ DispatcherTask /\ NoLostUpdate)'
    BY DEF IInv, DispatcherShape, DispatchersDisjoint, DispatcherTask, NoLostUpdate, InTx
  <1>3. (TaskHasRun /\ AtMostOneTask /\ JobHasTask /\ SelectionIsVisible /\ RequestHasRun)'
    BY DEF IInv, TaskHasRun, AtMostOneTask, JobHasTask, SelectionIsVisible, RequestHasRun
  <1> QED BY <1>1, <1>2, <1>3 DEF IInv

\* The reaper rewrites visible tasks, and fails runs that no open transaction holds.
LEMMA ReapExpiredLeasesIInv ==
    ASSUME IInv, NEW p \in Reapers, ReapExpiredLeases(p)
    PROVE  IInv'
  <1>1. /\ UNCHANGED <<rkind, trun, quiet, dpc, drun, dtask, cut, orphans, job, areq, arun>>
        /\ rsel' = [rsel EXCEPT ![p] = {}]
        /\ rfin' = [r \in Runs |-> IF r \in RunsToFail(p) THEN TRUE ELSE rfin[r]]
        /\ rstate' = [r \in Runs |-> IF r \in RunsToFail(p) THEN "FAILED" ELSE rstate[r]]
        /\ \A r \in RunsToFail(p) : ~Locked(r) /\ Accepts(rstate[r], "FAILED")
    BY DEF ReapExpiredLeases, dispVars, scriptVars, apiVars
  <1>2. /\ Retried(p) \subseteq Tasks /\ Exhausted(p) \subseteq Tasks
        /\ \A t \in Retried(p) \cup Exhausted(p) : tstate[t] # "ABSENT" /\ trun[t] \in Runs
    BY DEF IInv, TypeOK, SelectionIsVisible, TaskHasRun, Retried, Exhausted
  <1>3. tstate' \in [Tasks -> TaskStates \cup {"ABSENT"}]
        /\ \A t \in Tasks : tstate'[t] = "ABSENT" <=> tstate[t] = "ABSENT"
    BY <1>2 DEF ReapExpiredLeases, IInv, TypeOK, TaskStates
  <1>4. tretry' \in [Tasks -> Nat]
    <2>1. \A t \in Retried(p) : \E x \in rsel[p] : x[1] = t
      BY DEF Retried
    <2>2. \A x \in rsel[p] : x[2] + 1 \in Nat
      BY DEF IInv, TypeOK
    <2>3. \A t \in Retried(p) : (CHOOSE x \in rsel[p] : x[1] = t)[2] + 1 \in Nat
      BY <2>1, <2>2
    <2> QED BY <2>3 DEF ReapExpiredLeases, IInv, TypeOK
  <1>5. dlq' \subseteq Letters
    <2> DEFINE explicit == {Letter(trun[t], t, "reaper") : t \in Exhausted(p)}
               byTrigger == UNION {TriggerLetters(trun[t], t, tstate[t], "FAILED", tretry[t])
                                    : t \in Exhausted(p)}
    <2>1. dlq' = dlq \cup explicit \cup byTrigger
      BY DEF ReapExpiredLeases
    <2>2. explicit \subseteq Letters
      BY <1>2, LetterType
    <2>3. byTrigger \subseteq Letters
      BY <1>2, TriggerLettersType
    <2>4. dlq \subseteq Letters
      BY DEF IInv, TypeOK
    <2> HIDE DEF explicit, byTrigger
    <2> QED BY <2>1, <2>2, <2>3, <2>4
  <1>7. TypeOK'
    BY <1>1, <1>3, <1>4, <1>5 DEF IInv, TypeOK, RunStates
  <1>8. (DispatcherShape /\ DispatchersDisjoint /\ DispatcherTask /\ NoLostUpdate)'
    BY <1>1, <1>3 DEF IInv, DispatcherShape, DispatchersDisjoint, DispatcherTask, NoLostUpdate,
           InTx, Locked
  <1>9. TaskHasRun' /\ AtMostOneTask' /\ JobHasTask'
    BY <1>1, <1>3 DEF IInv, TaskHasRun, AtMostOneTask, JobHasTask
  <1>10. SelectionIsVisible' /\ RequestHasRun'
    BY <1>1, <1>3 DEF IInv, TypeOK, SelectionIsVisible, RequestHasRun
  <1> QED BY <1>7, <1>8, <1>9, <1>10 DEF IInv

\* An aborted reaper leaves its rows alone.
LEMMA ReaperAbortIInv ==
    ASSUME IInv, NEW p \in Reapers, ReaperAbort(p)
    PROVE  IInv'
  <1> USE DEF ReaperAbort, runVars, taskVars, letterVars, dispVars, scriptVars, apiVars
  <1>1. TypeOK'
    BY DEF IInv, TypeOK
  <1>2. (DispatcherShape /\ DispatchersDisjoint /\ DispatcherTask /\ NoLostUpdate)'
    BY DEF IInv, DispatcherShape, DispatchersDisjoint, DispatcherTask, NoLostUpdate, InTx
  <1>3. (TaskHasRun /\ AtMostOneTask /\ JobHasTask /\ SelectionIsVisible /\ RequestHasRun)'
    BY DEF IInv, TaskHasRun, AtMostOneTask, JobHasTask, SelectionIsVisible, RequestHasRun
  <1> QED BY <1>1, <1>2, <1>3 DEF IInv

\* Reading the run writes no row.
LEMMA ReadRunIInv ==
    ASSUME IInv, NEW c \in Clients, NEW r \in Runs, NEW q \in Requests, ReadRun(c, r, q)
    PROVE  IInv'
  <1> USE DEF ReadRun, runVars, taskVars, letterVars, dispVars, scriptVars, apiVars
  <1>1. TypeOK'
    BY DEF IInv, TypeOK
  <1>2. (DispatcherShape /\ DispatchersDisjoint /\ DispatcherTask /\ NoLostUpdate)'
    BY DEF IInv, DispatcherShape, DispatchersDisjoint, DispatcherTask, NoLostUpdate, InTx
  <1>3. (TaskHasRun /\ AtMostOneTask /\ JobHasTask /\ SelectionIsVisible /\ RequestHasRun)'
    BY DEF IInv, TypeOK, TaskHasRun, AtMostOneTask, JobHasTask, SelectionIsVisible, RequestHasRun
  <1> QED BY <1>1, <1>2, <1>3 DEF IInv

\* CHECK and guard reduce every operator's request to a cancel of a run that
\* no open transaction holds: nothing else of the tables changes.
LEMMA WriteRunEffect ==
    ASSUME IInv, NEW c \in Clients, WriteRun(c)
    PROVE  /\ arun[c] \in Runs /\ rstate[arun[c]] \in RunStates /\ ~Locked(arun[c])
           /\ areq' = [areq EXCEPT ![c] = "none"]
           /\ arun' = [arun EXCEPT ![c] = NoRun]
           /\ UNCHANGED <<rkind, trun, tretry, quiet, dpc, drun, dtask, cut, orphans, job, rsel>>
           /\ rfin' \in [Runs -> BOOLEAN]
           /\ UNCHANGED <<tstate, dlq>>
           /\ \/ /\ Accepts(rstate[arun[c]], "CANCELLED")
                 /\ rstate' = [rstate EXCEPT ![arun[c]] = "CANCELLED"]
              \/ rstate' = rstate
  <1> DEFINE r == arun[c]
             q == areq[c]
  <1>1. r \in Runs /\ rstate[r] \in RunStates /\ q \in Requests /\ ~Locked(r)
    BY DEF IInv, TypeOK, RequestHasRun, WriteRun
  <1>2. /\ areq' = [areq EXCEPT ![c] = "none"]
        /\ arun' = [arun EXCEPT ![c] = NoRun]
        /\ UNCHANGED <<rkind, trun, tretry, quiet, dpc, drun, dtask, cut, orphans, job, rsel>>
    BY DEF WriteRun, dispVars, scriptVars
  <1>3. /\ \/ Accepts(rstate[r], "CANCELLED") /\ rstate' = [rstate EXCEPT ![r] = "CANCELLED"]
           \/ rstate' = rstate
        /\ rfin' \in [Runs -> BOOLEAN]
        /\ UNCHANGED <<tstate, dlq>>
    <2>1. CASE Accepts(rstate[r], Target(q))
      <3>1. Target(q) \in RunStates \ {"PENDING"}
        BY <1>1, <2>1, AcceptedTransitions
      <3>2. q = "cancel"
        BY <1>1, <3>1 DEF Target, Requests, RunStates
      <3>3. /\ rstate' = [rstate EXCEPT ![r] = Target(q)]
            /\ rfin' = [rfin EXCEPT ![r] = FinishedAfter(q, r)]
            /\ tstate' = ResetTasks(q, r)
            /\ dlq' \in ResolveLetter(q, r)
        BY <2>1 DEF WriteRun
      <3> HIDE DEF r, q
      <3>4. ResetTasks(q, r) = tstate /\ ResolveLetter(q, r) = {dlq}
            /\ Target(q) = "CANCELLED" /\ FinishedAfter(q, r) = TRUE
        BY <3>2 DEF ResetTasks, ResolveLetter, Target, FinishedAfter, IInv, TypeOK
      <3> QED BY <2>1, <3>3, <3>4 DEF IInv, TypeOK
    <2>2. CASE ~Accepts(rstate[r], Target(q))
      BY <2>2 DEF WriteRun, IInv, TypeOK
    <2> QED BY <2>1, <2>2
  <1> QED BY <1>1, <1>2, <1>3

\* A cancel stays away from runs in an open transaction.
LEMMA WriteRunIInv ==
    ASSUME IInv, NEW c \in Clients, WriteRun(c)
    PROVE  IInv'
  <1> DEFINE r == arun[c]
  <1>1. r \in Runs /\ ~Locked(r)
    BY WriteRunEffect
  <1>2. /\ areq' = [areq EXCEPT ![c] = "none"]
        /\ arun' = [arun EXCEPT ![c] = NoRun]
        /\ UNCHANGED <<rkind, trun, tretry, quiet, dpc, drun, dtask, cut, orphans, job, rsel>>
    BY WriteRunEffect
  <1>3. /\ rstate' = [rstate EXCEPT ![r] = "CANCELLED"] \/ rstate' = rstate
        /\ rfin' \in [Runs -> BOOLEAN]
        /\ UNCHANGED <<tstate, dlq>>
    BY WriteRunEffect
  <1> HIDE DEF r
  <1>4. TypeOK'
    BY <1>2, <1>3 DEF IInv, TypeOK, RunStates
  <1>5. (DispatcherShape /\ DispatchersDisjoint /\ DispatcherTask /\ NoLostUpdate)'
    BY <1>1, <1>2, <1>3 DEF IInv, TypeOK, DispatcherShape, DispatchersDisjoint, DispatcherTask,
           NoLostUpdate, InTx, Locked
  <1>6. TaskHasRun' /\ AtMostOneTask' /\ JobHasTask'
    BY <1>2, <1>3 DEF IInv, TypeOK, TaskHasRun, AtMostOneTask, JobHasTask
  <1>7. SelectionIsVisible' /\ RequestHasRun'
    BY <1>2, <1>3 DEF IInv, TypeOK, SelectionIsVisible, RequestHasRun
  <1> QED BY <1>4, <1>5, <1>6, <1>7 DEF IInv

\* The invariant is inductive.
LEMMA NextIInv == IInv /\ [Next]_vars => IInv'
  <1> SUFFICES ASSUME IInv, [Next]_vars PROVE IInv'
    OBVIOUS
  <1>1. CASE UNCHANGED vars
    BY <1>1, StutterIInv
  <1>2. ASSUME NEW r \in Runs, NEW k \in KindsOf[r], DispatchRun(r, k) PROVE IInv'
    BY <1>2, KindsOfAssumption, DispatchRunIInv
  <1>3. ASSUME NEW d \in Dispatchers, DispatcherStep(d) PROVE IInv'
    BY <1>3, ClaimNextPendingIInv, ExecuteIInv, ScheduleTraceDeployIInv, FinaliseIInv,
       FinaliseRejectedIInv, DispatcherCrashIInv, LoseConnectionIInv, SeveredScriptEndsIInv
       DEF DispatcherStep
  <1>4. ASSUME NEW t \in Tasks, WorkerStep(t) PROVE IInv'
    BY <1>4, ClaimPendingDagRunIInv, ReportResultIInv, LoseJobIInv, CompleteRunIInv DEF WorkerStep
  <1>5. ASSUME NEW p \in Reapers, ReaperStep(p) PROVE IInv'
    BY <1>5, SelectStaleIInv, ReapExpiredLeasesIInv, ReaperAbortIInv DEF ReaperStep
  <1>6. ASSUME NEW c \in Clients, ClientStep(c) PROVE IInv'
    BY <1>6, ReadRunIInv, WriteRunIInv DEF ClientStep
  <1> QED BY <1>1, <1>2, <1>3, <1>4, <1>5, <1>6, SeveredScriptEndsIInv DEF Next

\* The inductive invariant holds in every reachable state.
THEOREM Invariance == Spec => []IInv
  BY InitIInv, NextIInv, PTL DEF Spec

\* Every variable of the run tables and of their writers keeps its type.
THEOREM TypeCorrectness == Spec => []TypeOK
  <1>1. IInv => TypeOK
    BY DEF IInv
  <1> QED BY <1>1, Invariance, PTL

\* However many dispatchers, workers, reapers and requests there are, a run
\* gets at most one task row.
THEOREM RunIsHandedOutOnce == Spec => []AtMostOneTask
  <1>1. IInv => AtMostOneTask
    BY DEF IInv
  <1> QED BY <1>1, Invariance, PTL

\* No other transaction commits a change to a run while a dispatcher's
\* transaction on it is open.
THEOREM OpenTransactionIsIsolated == Spec => []NoLostUpdate
  <1>1. IInv => NoLostUpdate
    BY DEF IInv
  <1> QED BY <1>1, Invariance, PTL

\* Of all that execute one run at the same time, all but one are scripts whose
\* transaction is already rolled back.
THEOREM DuplicatesAreSevered == Spec => []OnlySeveredDuplicates
  <1>1. IInv => OnlySeveredDuplicates
    <2> SUFFICES ASSUME IInv, NEW r \in Runs, NEW x \in Executors(r) \ Severed(r),
                        NEW y \in Executors(r) \ Severed(r)
                 PROVE  x = y
      BY DEF OnlySeveredDuplicates
    <2>1. ASSUME NEW d \in Dispatchers, NEW t \in Tasks, dpc[d] # "idle", drun[d] = r,
                 job[t] = "exec", trun[t] = r
          PROVE  FALSE
      BY <2>1 DEF IInv, DispatcherShape, JobHasTask
    <2>2. ASSUME NEW d \in Dispatchers, NEW e \in Dispatchers, dpc[d] # "idle", drun[d] = r,
                 dpc[e] # "idle", drun[e] = r
          PROVE  d = e
      BY <2>2 DEF IInv, DispatchersDisjoint
    <2>3. ASSUME NEW t \in Tasks, NEW u \in Tasks, job[t] = "exec", trun[t] = r,
                 job[u] = "exec", trun[u] = r
          PROVE  t = u
      BY <2>3 DEF IInv, JobHasTask, AtMostOneTask
    <2> QED BY <2>1, <2>2, <2>3 DEF Executors
  <1> QED BY <1>1, Invariance, PTL

\* No step of the invariant's states moves a run out of a terminal state.
LEMMA TerminalStep ==
    ASSUME IInv, Next, NEW s \in Runs, rstate[s] \in Terminal
    PROVE  rstate'[s] = rstate[s]
  <1>0. rstate \in [Runs -> RunStates \cup {"ABSENT"}] /\ rstate[s] \in RunStates
    BY DEF IInv, TypeOK, Terminal
  <1>1. ASSUME NEW r \in Runs, NEW k \in KindsOf[r], DispatchRun(r, k) PROVE rstate'[s] = rstate[s]
    BY <1>1 DEF DispatchRun, Terminal
  <1>2. ASSUME NEW d \in Dispatchers, DispatcherStep(d) PROVE rstate'[s] = rstate[s]
    <2>1. CASE ScheduleTraceDeploy(d)
      BY <2>1 DEF ScheduleTraceDeploy, IInv, NoLostUpdate, InTx, Terminal
    <2>2. CASE Finalise(d)
      <3>1. rstate' = [rstate EXCEPT ![drun[d]] = Outcome(d)] /\ Accepts(OwnRunState(d), Outcome(d))
        BY <2>2 DEF Finalise
      <3>2. CASE InTx(d)
        BY <3>1, <3>2 DEF IInv, NoLostUpdate, Terminal
      <3>3. CASE ~InTx(d)
        BY <1>0, <3>1, <3>3, AcceptedTransitions DEF OwnRunState
      <3> QED BY <3>2, <3>3
    <2>3. CASE ~ScheduleTraceDeploy(d) /\ ~Finalise(d)
      BY <1>2, <2>3 DEF DispatcherStep, ClaimNextPending, Execute, FinaliseRejected,
             DispatcherCrash, LoseConnection, CutScriptEnds, runVars
    <2> QED BY <2>1, <2>2, <2>3
  <1>3. ASSUME NEW t \in Tasks, WorkerStep(t) PROVE rstate'[s] = rstate[s]
    <2>1. CASE \E r \in Runs, delivered \in {"exec", "over"} : ClaimPendingDagRun(r, t, delivered)
      BY <2>1 DEF ClaimPendingDagRun, Terminal
    <2>2. CASE CompleteRun(t)
      <3> DEFINE out == IF job[t] = "success" THEN "SUCCESS" ELSE "FAILED"
      <3>1. \/ Accepts(rstate[trun[t]], out) /\ rstate' = [rstate EXCEPT ![trun[t]] = out]
            \/ rstate' = rstate
        BY <2>2 DEF CompleteRun
      <3> HIDE DEF out
      <3> QED BY <1>0, <3>1, AcceptedTransitions
    <2>3. CASE \/ \E result \in {"success", "failed"} : ReportResult(t, result)
               \/ LoseJob(t)
      BY <2>3 DEF ReportResult, LoseJob, runVars
    <2> QED BY <1>3, <2>1, <2>2, <2>3 DEF WorkerStep
  <1>4. ASSUME NEW p \in Reapers, ReaperStep(p) PROVE rstate'[s] = rstate[s]
    BY <1>4 DEF ReaperStep, SelectStale, ReapExpiredLeases, ReaperAbort, RunsToFail, runVars
  <1>5. ASSUME NEW c \in Clients, ClientStep(c) PROVE rstate'[s] = rstate[s]
    <2>1. CASE WriteRun(c)
      <3>1. \/ /\ Accepts(rstate[arun[c]], Target(areq[c]))
               /\ rstate' = [rstate EXCEPT ![arun[c]] = Target(areq[c])]
            \/ rstate' = rstate
        BY <2>1 DEF WriteRun
      <3> QED BY <1>0, <3>1, AcceptedTransitions
    <2>2. CASE \E r \in Runs, q \in Requests : ReadRun(c, r, q)
      BY <2>2 DEF ReadRun, runVars
    <2> QED BY <1>5, <2>1, <2>2 DEF ClientStep
  <1>6. ASSUME NEW r \in Runs, OrphanEnds(r) PROVE rstate'[s] = rstate[s]
    BY <1>6 DEF OrphanEnds, runVars
  <1> QED BY <1>1, <1>2, <1>3, <1>4, <1>5, <1>6 DEF Next

\* A run that reached SUCCESS, FAILED or CANCELLED stays there.
THEOREM TerminalStatesAreFinal == Spec => TerminalImmutable
  <1>1. IInv /\ [Next]_vars
          => [\A r \in Runs : rstate[r] \in Terminal => rstate'[r] = rstate[r]]_vars
    BY TerminalStep
  <1> QED BY <1>1, Invariance, PTL DEF Spec, TerminalImmutable

------------------------------------------------------------------------------
\* How tasks, runs and dead letters agree.

\* The rows that the final commit of a dispatcher writes: the task and its run
\* with one outcome, and a dead letter of that run for each failure that is not
\* quiet.
LEMMA FinaliseEffect ==
    ASSUME IInv, NEW d \in Dispatchers, Finalise(d)
    PROVE  /\ drun[d] \in Runs /\ dtask[d] \in Tasks
           /\ Outcome(d) \in {"SUCCESS", "FAILED"}
           /\ rstate' = [rstate EXCEPT ![drun[d]] = Outcome(d)]
           /\ tstate' = [tstate EXCEPT ![dtask[d]] = Outcome(d)]
           /\ trun' = [trun EXCEPT ![dtask[d]] = drun[d]]
           /\ rkind' = rkind
           /\ dlq \subseteq dlq'
           /\ \A l \in dlq' \ dlq : l.run = drun[d]
           /\ quiet \subseteq quiet'
           /\ Outcome(d) = "FAILED" => drun[d] \in quiet' \/ \E l \in dlq' : l.run = drun[d]
  <1>1. drun[d] \in Runs /\ dtask[d] \in Tasks
    BY DEF IInv, DispatcherShape, Finalise, Results
  <1>2. Outcome(d) \in {"SUCCESS", "FAILED"}
    BY DEF Outcome
  <1>3. /\ rstate' = [rstate EXCEPT ![drun[d]] = Outcome(d)]
        /\ tstate' = [tstate EXCEPT ![dtask[d]] = Outcome(d)]
        /\ trun' = [trun EXCEPT ![dtask[d]] = drun[d]]
        /\ rkind' = rkind
    BY DEF Finalise
  <1>4. /\ dlq \subseteq dlq'
        /\ \A l \in dlq' \ dlq : l.run = drun[d]
        /\ quiet \subseteq quiet'
        /\ Outcome(d) = "FAILED" => drun[d] \in quiet' \/ \E l \in dlq' : l.run = drun[d]
    <2> DEFINE explicit == {l \in {Letter(drun[d], dtask[d], "dispatcher")} : dpc[d] = "failed"}
               byTrigger == TriggerLetters(drun[d], dtask[d], OwnTaskState(d), Outcome(d), tretry[dtask[d]])
    <2>1. dlq' = dlq \cup explicit \cup byTrigger
      BY DEF Finalise
    <2>2. \A l \in explicit \cup byTrigger : l.run = drun[d]
      BY DEF TriggerLetters, Letter
    <2>3. dpc[d] = "failed" => Letter(drun[d], dtask[d], "dispatcher") \in explicit
      OBVIOUS
    <2>4. Outcome(d) = "FAILED" => dpc[d] \in {"failed", "deferred"} /\ OwnTaskState(d) = "CLAIMED"
      BY DEF Outcome, OwnTaskState, InTx
    <2>5. CASE Outcome(d) = "FAILED" /\ dpc[d] = "deferred" /\ tretry[dtask[d]] >= MaxRetries[dtask[d]]
      <3>1. byTrigger # {}
        BY <2>4, <2>5 DEF TriggerLetters
      <3> HIDE DEF byTrigger, explicit
      <3> QED BY <2>1, <2>2, <2>5, <3>1 DEF Finalise
    <2>6. CASE dpc[d] = "deferred" /\ ~(tretry[dtask[d]] >= MaxRetries[dtask[d]])
      <3>1. tretry[dtask[d]] \in Nat /\ MaxRetries[dtask[d]] \in Nat
        BY <1>1, MaxRetriesAssumption DEF IInv, TypeOK
      <3>2. drun[d] \in Quieted(drun[d], dtask[d])
        BY <2>6, <3>1 DEF Quieted
      <3> HIDE DEF byTrigger, explicit
      <3> QED BY <2>1, <2>2, <2>6, <3>2 DEF Finalise
    <2>7. quiet \subseteq quiet'
      BY DEF Finalise
    <2> HIDE DEF explicit, byTrigger
    <2> QED BY <2>1, <2>2, <2>3, <2>4, <2>5, <2>6, <2>7
  <1> QED BY <1>1, <1>2, <1>3, <1>4

\* A completion report either writes task and run with one outcome, or
\* neither; only runs of DAG templates are reported on.
LEMMA CompleteRunEffect ==
    ASSUME IInv, NEW t \in Tasks, CompleteRun(t)
    PROVE  /\ trun[t] \in Runs /\ rkind[trun[t]] = "dag" /\ tstate[t] # "ABSENT"
           /\ UNCHANGED <<rkind, trun>>
           /\ quiet \subseteq quiet'
           /\ \/ UNCHANGED <<tstate, rstate, dlq>>
              \/ \E out \in {"SUCCESS", "FAILED"} :
                    /\ tstate' = [tstate EXCEPT ![t] = out]
                    /\ rstate' = [rstate EXCEPT ![trun[t]] = out]
                    /\ dlq \subseteq dlq'
                    /\ \A l \in dlq' \ dlq : l.run = trun[t]
                    /\ out = "FAILED" => \/ tstate[t] = "FAILED"
                                         \/ trun[t] \in quiet'
                                         \/ \E l \in dlq' : l.run = trun[t]
  <1> DEFINE out == IF job[t] = "success" THEN "SUCCESS" ELSE "FAILED"
  <1>1. trun[t] \in Runs /\ rkind[trun[t]] = "dag" /\ tstate[t] # "ABSENT"
    BY DEF IInv, JobHasTask, TaskHasRun, CompleteRun
  <1>2. UNCHANGED <<rkind, trun>> /\ quiet \subseteq quiet'
    BY DEF CompleteRun, letterVars
  <1>3. \/ UNCHANGED <<tstate, rstate, dlq>>
        \/ /\ tstate' = [tstate EXCEPT ![t] = out]
           /\ rstate' = [rstate EXCEPT ![trun[t]] = out]
           /\ dlq' = dlq \cup TriggerLetters(trun[t], t, tstate[t], out, tretry[t])
           /\ out = "FAILED" => quiet' = quiet \cup Quieted(trun[t], t)
    BY DEF CompleteRun, letterVars
  <1>4. out \in {"SUCCESS", "FAILED"}
    OBVIOUS
  <1> HIDE DEF out
  <1>5. \A l \in TriggerLetters(trun[t], t, tstate[t], out, tretry[t]) : l.run = trun[t]
    BY DEF TriggerLetters, Letter
  <1>6. \/ out # "FAILED"
        \/ tstate[t] = "FAILED"
        \/ trun[t] \in Quieted(trun[t], t)
        \/ TriggerLetters(trun[t], t, tstate[t], out, tretry[t]) # {}
    <2>1. tretry[t] \in Nat /\ MaxRetries[t] \in Nat
      BY MaxRetriesAssumption DEF IInv, TypeOK
    <2> QED BY <2>1 DEF Quieted, TriggerLetters
  <1> QED BY <1>1, <1>2, <1>3, <1>4, <1>5, <1>6

\* What a reaper's commit does to the tables: a requeued task is PENDING, an
\* exhausted one FAILED with the reaper's dead letter, and the run of every
\* new dead letter ends unless it had ended already.
LEMMA ReapEffect ==
    ASSUME IInv, NEW p \in Reapers, ReapExpiredLeases(p)
    PROVE  /\ Exhausted(p) \subseteq Tasks
           /\ \A t \in Exhausted(p) : tstate[t] # "ABSENT" /\ trun[t] \in Runs
           /\ UNCHANGED <<rkind, trun, quiet>>
           /\ \A t \in Tasks : tstate'[t] = "ABSENT" <=> tstate[t] = "ABSENT"
           /\ \A t \in Tasks : (t \in Exhausted(p) /\ tstate'[t] = "FAILED")
                                \/ tstate'[t] \in {tstate[t], "PENDING"}
           /\ rstate' = [r \in Runs |-> IF r \in RunsToFail(p) THEN "FAILED" ELSE rstate[r]]
           /\ dlq \subseteq dlq'
           /\ \A l \in dlq' \ dlq : \E t \in Exhausted(p) : l.run = trun[t]
           /\ \A t \in Exhausted(p) : Letter(trun[t], t, "reaper") \in dlq'
  <1>1. /\ Retried(p) \subseteq Tasks /\ Exhausted(p) \subseteq Tasks
        /\ \A t \in Retried(p) \cup Exhausted(p) : tstate[t] # "ABSENT" /\ trun[t] \in Runs
    BY DEF IInv, TypeOK, SelectionIsVisible, TaskHasRun, Retried, Exhausted
  <1>2. /\ \A t \in Tasks : tstate'[t] = "ABSENT" <=> tstate[t] = "ABSENT"
        /\ \A t \in Tasks : (t \in Exhausted(p) /\ tstate'[t] = "FAILED")
                                \/ tstate'[t] \in {tstate[t], "PENDING"}
    <2>1. tstate' = [t \in Tasks |-> IF t \in Retried(p) THEN "PENDING"
                                     ELSE IF t \in Exhausted(p) THEN "FAILED"
                                     ELSE tstate[t]]
      BY DEF ReapExpiredLeases
    <2> QED BY <1>1, <2>1
  <1>3. /\ UNCHANGED <<rkind, trun, quiet>>
        /\ rstate' = [r \in Runs |-> IF r \in RunsToFail(p) THEN "FAILED" ELSE rstate[r]]
    BY DEF ReapExpiredLeases
  <1>4. /\ dlq \subseteq dlq'
        /\ \A l \in dlq' \ dlq : \E t \in Exhausted(p) : l.run = trun[t]
        /\ \A t \in Exhausted(p) : Letter(trun[t], t, "reaper") \in dlq'
    <2> DEFINE explicit == {Letter(trun[t], t, "reaper") : t \in Exhausted(p)}
               byTrigger == UNION {TriggerLetters(trun[t], t, tstate[t], "FAILED", tretry[t])
                                    : t \in Exhausted(p)}
    <2>1. dlq' = dlq \cup explicit \cup byTrigger
      BY DEF ReapExpiredLeases
    <2>2. \A l \in explicit : \E t \in Exhausted(p) : l.run = trun[t]
      BY DEF Letter
    <2>3. \A l \in byTrigger : \E t \in Exhausted(p) : l.run = trun[t]
      BY DEF Letter, TriggerLetters
    <2>4. \A t \in Exhausted(p) : Letter(trun[t], t, "reaper") \in explicit
      OBVIOUS
    <2> HIDE DEF explicit, byTrigger
    <2> QED BY <2>1, <2>2, <2>3, <2>4
  <1> QED BY <1>1, <1>2, <1>3, <1>4

\* The steps that write neither a visible task, nor the state of an existing
\* run, nor a dead letter.
LEMMA UnseenStep ==
    ASSUME IInv, [Next]_vars,
           \A d \in Dispatchers : ~Finalise(d) /\ ~ScheduleTraceDeploy(d),
           \A t \in Tasks : ~CompleteRun(t),
           \A t \in Tasks, r \in Runs : ~ClaimPendingDagRun(r, t, "exec") /\ ~ClaimPendingDagRun(r, t, "over"),
           \A r \in Runs, k \in Kinds : ~DispatchRun(r, k),
           \A p \in Reapers : ~ReapExpiredLeases(p),
           \A c \in Clients : ~WriteRun(c)
    PROVE  UNCHANGED <<rstate, rkind, tstate, trun, dlq, quiet>>
  <1>1. CASE UNCHANGED vars
    BY <1>1 DEF vars
  <1>2. ASSUME NEW d \in Dispatchers, DispatcherStep(d)
        PROVE  UNCHANGED <<rstate, rkind, tstate, trun, dlq, quiet>>
    BY <1>2 DEF DispatcherStep, ClaimNextPending, Execute, FinaliseRejected, DispatcherCrash,
           LoseConnection, CutScriptEnds, runVars, taskVars, letterVars
  <1>3. ASSUME NEW t \in Tasks, WorkerStep(t)
        PROVE  UNCHANGED <<rstate, rkind, tstate, trun, dlq, quiet>>
    BY <1>3 DEF WorkerStep, ReportResult, LoseJob, runVars, taskVars, letterVars
  <1>4. ASSUME NEW p \in Reapers, ReaperStep(p)
        PROVE  UNCHANGED <<rstate, rkind, tstate, trun, dlq, quiet>>
    BY <1>4 DEF ReaperStep, SelectStale, ReaperAbort, runVars, taskVars, letterVars
  <1>5. ASSUME NEW c \in Clients, ClientStep(c)
        PROVE  UNCHANGED <<rstate, rkind, tstate, trun, dlq, quiet>>
    BY <1>5 DEF ClientStep, ReadRun, runVars, taskVars, letterVars
  <1>6. ASSUME NEW r \in Runs, OrphanEnds(r)
        PROVE  UNCHANGED <<rstate, rkind, tstate, trun, dlq, quiet>>
    BY <1>6 DEF OrphanEnds, runVars, taskVars, letterVars
  <1> QED BY <1>1, <1>2, <1>3, <1>4, <1>5, <1>6, KindsOfAssumption DEF Next

\* Task and run end together or not at all, whoever ends them.
LEMMA OutcomeStep ==
    ASSUME IInv, OutcomeAgrees, [Next]_vars
    PROVE  OutcomeAgrees'
  <1> USE DEF OutcomeAgrees
  <1>0. IInv'
    BY NextIInv
  <1>1. ASSUME NEW d \in Dispatchers, Finalise(d) PROVE OutcomeAgrees'
    <2>1. \A u \in Tasks \ {dtask[d]} :
             tstate'[u] \in {"SUCCESS", "FAILED"} => trun'[u] # drun[d]
      <3>1. /\ tstate'[dtask[d]] # "ABSENT" /\ trun'[dtask[d]] = drun[d]
            /\ dtask[d] \in Tasks
        BY <1>1, FinaliseEffect DEF IInv, TypeOK
      <3> QED BY <1>0, <3>1 DEF IInv, AtMostOneTask
    <2> QED BY <1>1, <2>1, FinaliseEffect DEF IInv, TypeOK, TaskHasRun
  <1>2. ASSUME NEW d \in Dispatchers, ScheduleTraceDeploy(d) PROVE OutcomeAgrees'
    <2>1. drun[d] \in Runs /\ dtask[d] \in Tasks /\ rstate[drun[d]] = "PENDING"
      BY <1>2 DEF ScheduleTraceDeploy, IInv, DispatcherShape, NoLostUpdate, InTx
    <2> QED BY <1>2, <2>1 DEF ScheduleTraceDeploy, letterVars, IInv, TypeOK
  <1>3. ASSUME NEW t \in Tasks, CompleteRun(t) PROVE OutcomeAgrees'
    <2>1. \A u \in Tasks \ {t} : tstate[u] \in {"SUCCESS", "FAILED"} => trun[u] # trun[t]
      BY <1>3, CompleteRunEffect DEF IInv, AtMostOneTask
    <2>2. CASE UNCHANGED <<tstate, rstate, dlq>>
      BY <1>3, <2>2, CompleteRunEffect
    <2>3. ASSUME NEW out \in {"SUCCESS", "FAILED"}, tstate' = [tstate EXCEPT ![t] = out],
                 rstate' = [rstate EXCEPT ![trun[t]] = out], dlq \subseteq dlq'
          PROVE  OutcomeAgrees'
      <3>1. trun' = trun /\ trun[t] \in Runs
        BY <1>3, CompleteRunEffect
      <3>2. rstate'[trun'[t]] = tstate'[t]
        BY <2>3, <3>1 DEF IInv, TypeOK
      <3>3. \A u \in Tasks \ {t} : tstate[u] \in {"SUCCESS", "FAILED"} =>
                /\ tstate'[u] = tstate[u]
                /\ rstate'[trun'[u]] = rstate[trun[u]]
        BY <2>1, <2>3, <3>1
      <3>4. \A u \in Tasks \ {t} : tstate'[u] = tstate[u]
        BY <2>3
      <3> QED BY <2>3, <3>2, <3>3, <3>4
    <2> QED BY <1>3, <2>2, <2>3, CompleteRunEffect
  <1>4. ASSUME NEW r \in Runs, NEW t \in Tasks, NEW delivered \in {"exec", "over"},
               ClaimPendingDagRun(r, t, delivered)
        PROVE  OutcomeAgrees'
    BY <1>4 DEF ClaimPendingDagRun, letterVars, IInv, TypeOK
  <1>5. ASSUME NEW r \in Runs, NEW k \in Kinds, DispatchRun(r, k) PROVE OutcomeAgrees'
    BY <1>5 DEF DispatchRun, taskVars, letterVars
  <1>6. ASSUME NEW p \in Reapers, ReapExpiredLeases(p) PROVE OutcomeAgrees'
    <2> SUFFICES ASSUME NEW u \in Tasks, tstate'[u] \in {"SUCCESS", "FAILED"},
                        rstate'[trun'[u]] # tstate'[u]
                 PROVE  tstate'[u] = "FAILED" /\ \E l \in dlq' : l.task = u /\ l.by = "reaper"
      OBVIOUS
    <2>1. CASE u \in Exhausted(p) /\ tstate'[u] = "FAILED"
      <3>1. Letter(trun[u], u, "reaper") \in dlq'
        BY <1>6, <2>1, ReapEffect
      <3> QED BY <2>1, <3>1 DEF Letter
    <2>2. CASE tstate'[u] = tstate[u] /\ u \notin Exhausted(p)
      <3>1. trun[u] \in Runs /\ trun' = trun
        BY <1>6, ReapEffect DEF IInv, TaskHasRun
      <3>2. trun[u] \notin RunsToFail(p)
        BY <1>6, <2>2, ReapEffect DEF RunsToFail, IInv, AtMostOneTask
      <3>3. rstate'[trun[u]] = rstate[trun[u]]
        BY <1>6, <3>1, <3>2, ReapEffect
      <3> QED BY <1>6, <2>2, <3>1, <3>3, ReapEffect
    <2>3. CASE tstate'[u] = tstate[u] /\ u \in Exhausted(p) /\ tstate'[u] # "FAILED"
      BY <1>6, <2>3 DEF ReapExpiredLeases
    <2> QED BY <1>6, <2>1, <2>2, <2>3, ReapEffect
  <1>7. ASSUME NEW c \in Clients, WriteRun(c) PROVE OutcomeAgrees'
    <2>1. \A u \in Tasks : rstate[arun[c]] = tstate[u] /\ tstate[u] \in {"SUCCESS", "FAILED"}
                              => rstate' = rstate
      BY <1>7, WriteRunEffect, AcceptedTransitions DEF Terminal
    <2> QED BY <1>7, <2>1, WriteRunEffect DEF IInv, TypeOK, TaskHasRun
  <1>8. CASE UNCHANGED <<rstate, rkind, tstate, trun, dlq, quiet>>
    BY <1>8
  <1> QED BY <1>1, <1>2, <1>3, <1>4, <1>5, <1>6, <1>7, <1>8, UnseenStep

\* A failed task explains itself: its run has a dead letter, or failed quietly.
FailedTaskIsExplained ==
    \A t \in Tasks : tstate[t] = "FAILED" => trun[t] \in quiet \/ \E l \in dlq : l.run = trun[t]

\* Whoever fails a run leaves a dead letter of it or fails it quietly.
LEMMA FailureStep ==
    ASSUME IInv, FailureIsDeadLettered, FailedTaskIsExplained, [Next]_vars
    PROVE  FailureIsDeadLettered' /\ FailedTaskIsExplained'
  <1> DEFINE Explained(r) == r \in quiet \/ \E l \in dlq : l.run = r
  <1> USE DEF FailureIsDeadLettered, FailedTaskIsExplained
  <1>1. ASSUME NEW d \in Dispatchers, Finalise(d)
        PROVE  FailureIsDeadLettered' /\ FailedTaskIsExplained'
    <2>1. \A r \in Runs : Explained(r) => Explained(r)'
      BY <1>1, FinaliseEffect
    <2>2. Outcome(d) = "FAILED" => drun[d] \in quiet' \/ \E l \in dlq' : l.run = drun[d]
      BY <1>1, FinaliseEffect
    <2>3. \A t \in Tasks : tstate[t] = "FAILED" => trun[t] \in Runs
      BY DEF IInv, TaskHasRun
    <2>4. FailureIsDeadLettered'
      BY <1>1, <2>1, <2>2, FinaliseEffect DEF IInv, TypeOK
    <2>5. FailedTaskIsExplained'
      BY <1>1, <2>1, <2>2, <2>3, FinaliseEffect DEF IInv, TypeOK
    <2> QED BY <2>4, <2>5
  <1>2. ASSUME NEW d \in Dispatchers, ScheduleTraceDeploy(d)
        PROVE  FailureIsDeadLettered' /\ FailedTaskIsExplained'
    <2>1. drun[d] \in Runs /\ dtask[d] \in Tasks
      BY <1>2 DEF ScheduleTraceDeploy, IInv, DispatcherShape
    <2> QED BY <1>2, <2>1 DEF ScheduleTraceDeploy, letterVars, IInv, TypeOK
  <1>3. ASSUME NEW t \in Tasks, CompleteRun(t)
        PROVE  FailureIsDeadLettered' /\ FailedTaskIsExplained'
    <2>1. CASE UNCHANGED <<tstate, rstate, dlq>>
      BY <1>3, <2>1, CompleteRunEffect
    <2>2. ASSUME NEW out \in {"SUCCESS", "FAILED"}, tstate' = [tstate EXCEPT ![t] = out],
                 rstate' = [rstate EXCEPT ![trun[t]] = out], dlq \subseteq dlq',
                 out = "FAILED" => \/ tstate[t] = "FAILED" \/ trun[t] \in quiet'
                                   \/ \E l \in dlq' : l.run = trun[t]
          PROVE  FailureIsDeadLettered' /\ FailedTaskIsExplained'
      <3>1. trun' = trun /\ quiet \subseteq quiet' /\ trun[t] \in Runs
        BY <1>3, CompleteRunEffect
      <3>2. \A r \in Runs : Explained(r) => Explained(r)'
        BY <2>2, <3>1
      <3>3. out = "FAILED" => Explained(trun[t])'
        BY <2>2, <3>1, <3>2
      <3>4. \A u \in Tasks : tstate[u] = "FAILED" => trun[u] \in Runs
        BY DEF IInv, TaskHasRun
      <3>5. FailureIsDeadLettered'
        BY <2>2, <3>1, <3>2, <3>3 DEF IInv, TypeOK
      <3>6. FailedTaskIsExplained'
        BY <2>2, <3>1, <3>2, <3>3, <3>4 DEF IInv, TypeOK
      <3> QED BY <3>5, <3>6
    <2> QED BY <1>3, <2>1, <2>2, CompleteRunEffect
  <1>4. ASSUME NEW r \in Runs, NEW t \in Tasks, NEW delivered \in {"exec", "over"},
               ClaimPendingDagRun(r, t, delivered)
        PROVE  FailureIsDeadLettered' /\ FailedTaskIsExplained'
    BY <1>4 DEF ClaimPendingDagRun, letterVars, IInv, TypeOK
  <1>5. ASSUME NEW r \in Runs, NEW k \in Kinds, DispatchRun(r, k)
        PROVE  FailureIsDeadLettered' /\ FailedTaskIsExplained'
    BY <1>5 DEF DispatchRun, taskVars, letterVars
  <1>6. ASSUME NEW p \in Reapers, ReapExpiredLeases(p)
        PROVE  FailureIsDeadLettered' /\ FailedTaskIsExplained'
    <2>1. ASSUME NEW t \in Exhausted(p) PROVE \E l \in dlq' : l.run = trun[t]
      <3>1. Letter(trun[t], t, "reaper") \in dlq'
        BY <1>6, ReapEffect
      <3>2. Letter(trun[t], t, "reaper").run = trun[t]
        BY DEF Letter
      <3> QED BY <3>1, <3>2
    <2>2. quiet' = quiet /\ dlq \subseteq dlq' /\ trun' = trun
      BY <1>6, ReapEffect
    <2>3. FailureIsDeadLettered'
      <3>1. \A r \in RunsToFail(p) : \E l \in dlq' : l.run = r
        BY <2>1 DEF RunsToFail
      <3> QED BY <1>6, <2>2, <3>1, ReapEffect
    <2>4. FailedTaskIsExplained'
      <3>1. \A t \in Tasks : tstate'[t] = "FAILED" => t \in Exhausted(p) \/ tstate[t] = "FAILED"
        BY <1>6, ReapEffect
      <3> QED BY <2>1, <2>2, <3>1
    <2> QED BY <2>3, <2>4
  <1>7. ASSUME NEW c \in Clients, WriteRun(c)
        PROVE  FailureIsDeadLettered' /\ FailedTaskIsExplained'
    <2>1. /\ arun[c] \in Runs /\ UNCHANGED <<trun, quiet, tstate, dlq>>
          /\ rstate' = rstate \/ rstate' = [rstate EXCEPT ![arun[c]] = "CANCELLED"]
      BY <1>7, WriteRunEffect
    <2> QED BY <2>1 DEF IInv, TypeOK
  <1>8. CASE UNCHANGED <<rstate, rkind, tstate, trun, dlq, quiet>>
    BY <1>8
  <1> QED BY <1>1, <1>2, <1>3, <1>4, <1>5, <1>6, <1>7, <1>8, UnseenStep

\* Whoever writes a dead letter ends its run, and an ended run stays ended.
LEMMA LetterStep ==
    ASSUME IInv, DeadLetterIsFinal, [Next]_vars
    PROVE  DeadLetterIsFinal'
  <1> USE DEF DeadLetterIsFinal
  <1>0. \A l \in dlq : l.run \in Runs /\ rstate'[l.run] \in Terminal
    <2>1. \A l \in dlq : l.run \in Runs
      BY DEF IInv, TypeOK, Letters
    <2>2. CASE Next
      BY <2>1, <2>2, TerminalStep
    <2>3. CASE UNCHANGED vars
      BY <2>1, <2>3 DEF vars
    <2> QED BY <2>2, <2>3
  <1>1. ASSUME NEW d \in Dispatchers, Finalise(d) PROVE DeadLetterIsFinal'
    BY <1>0, <1>1, FinaliseEffect DEF IInv, TypeOK, Terminal
  <1>2. ASSUME NEW t \in Tasks, CompleteRun(t) PROVE DeadLetterIsFinal'
    BY <1>0, <1>2, CompleteRunEffect DEF IInv, TypeOK, Terminal
  <1>3. ASSUME NEW p \in Reapers, ReapExpiredLeases(p) PROVE DeadLetterIsFinal'
    <2>1. \A t \in Exhausted(p) : rstate'[trun[t]] \in Terminal
      BY <1>3, ReapEffect DEF RunsToFail, Terminal
    <2> QED BY <1>0, <1>3, <2>1, ReapEffect
  <1>4. CASE dlq' = dlq
    BY <1>0, <1>4
  <1>5. ASSUME NEW d \in Dispatchers, ScheduleTraceDeploy(d) PROVE dlq' = dlq
    BY <1>5 DEF ScheduleTraceDeploy, letterVars
  <1>6. ASSUME NEW r \in Runs, NEW t \in Tasks, NEW delivered \in {"exec", "over"},
               ClaimPendingDagRun(r, t, delivered)
        PROVE  dlq' = dlq
    BY <1>6 DEF ClaimPendingDagRun, letterVars
  <1>7. ASSUME NEW r \in Runs, NEW k \in Kinds, DispatchRun(r, k) PROVE dlq' = dlq
    BY <1>7 DEF DispatchRun, letterVars
  <1>8. ASSUME NEW c \in Clients, WriteRun(c) PROVE dlq' = dlq
    BY <1>8, WriteRunEffect
  <1> QED BY <1>1, <1>2, <1>3, <1>4, <1>5, <1>6, <1>7, <1>8, UnseenStep

\* The relations between tasks, runs and dead letters hold initially: there
\* are none of them.
LEMMA InitAgreement ==
    Init => OutcomeAgrees /\ FailureIsDeadLettered /\ FailedTaskIsExplained /\ DeadLetterIsFinal
  BY DEF Init, OutcomeAgrees, FailureIsDeadLettered, FailedTaskIsExplained, DeadLetterIsFinal

\* A task that ended and its run tell the same story, except after the
\* reaper's blind dead-letter path.
THEOREM TaskAndRunAgree == Spec => []OutcomeAgrees
  <1>1. IInv /\ OutcomeAgrees /\ [Next]_vars => OutcomeAgrees'
    BY OutcomeStep
  <1> QED BY <1>1, InitAgreement, Invariance, PTL DEF Spec

\* Every failed run has a dead letter, unless the report that failed it is one
\* of those that write none.
THEOREM FailuresAreDeadLettered == Spec => []FailureIsDeadLettered
  <1>1. IInv /\ FailureIsDeadLettered /\ FailedTaskIsExplained /\ [Next]_vars
          => FailureIsDeadLettered' /\ FailedTaskIsExplained'
    BY FailureStep
  <1> QED BY <1>1, InitAgreement, Invariance, PTL DEF Spec

\* No dead letter names a run that can still make progress.
THEOREM DeadLettersNameEndedRuns == Spec => []DeadLetterIsFinal
  <1>1. IInv /\ DeadLetterIsFinal /\ [Next]_vars => DeadLetterIsFinal'
    BY LetterStep
  <1> QED BY <1>1, InitAgreement, Invariance, PTL DEF Spec

------------------------------------------------------------------------------
\* The refinement of RunLifecycle.

\* The refinement mapping: what an onlooker of the runs sees.
Phase  == [r \in Runs |-> IF Locked(r) THEN "RUNNING" ELSE rstate[r]]
Pinned == {r \in Runs : rstate[r] \notin {"ABSENT", "PENDING"}}

\* Every step of the tables and their writers is a step of the lifecycle.
LifecycleStep ==
    \/ \E r \in Runs : \/ Lifecycle!Submit(r) \/ Lifecycle!Start(r) \/ Lifecycle!Yield(r)
                       \/ Lifecycle!Pin(r) \/ Lifecycle!Finish(r) \/ Lifecycle!Cancel(r)
    \/ \E S \in SUBSET Runs : Lifecycle!Expire(S)
    \/ UNCHANGED <<Phase, Pinned>>

\* A locked run is PENDING to everyone but the dispatcher that holds it.
LEMMA LockedIsPending ==
    ASSUME IInv, NEW r \in Runs, Locked(r)
    PROVE  rstate[r] = "PENDING"
  BY DEF IInv, NoLostUpdate, Locked

\* Only a dispatcher moves locks.
LEMMA LocksStay ==
    ASSUME UNCHANGED <<dpc, drun>>
    PROVE  \A r \in Runs : Locked(r)' <=> Locked(r)
  BY DEF Locked, InTx

\* The dispatcher's steps: start provisionally, pin, finish, or yield.
LEMMA DispatcherStepRefines ==
    ASSUME IInv, NEW d \in Dispatchers, DispatcherStep(d)
    PROVE  LifecycleStep
  <1>0. /\ rstate \in [Runs -> RunStates \cup {"ABSENT"}]
        /\ dpc \in [Dispatchers -> Results \cup {"idle", "exec", "partial"}]
        /\ drun \in [Dispatchers -> Runs \cup {NoRun}]
        /\ \A e \in Dispatchers \ {d} : InTx(d) /\ InTx(e) => drun[e] # drun[d]
        /\ \A e \in Dispatchers : InTx(e) => drun[e] \in Runs
    BY DEF IInv, TypeOK, DispatchersDisjoint, DispatcherShape, InTx
  <1>1. ASSUME NEW r \in Runs, NEW t \in Tasks, ClaimNextPending(d, r, t) PROVE LifecycleStep
    <2>1. /\ ~Locked(r) /\ rstate[r] = "PENDING" /\ rstate' = rstate
          /\ dpc[d] = "idle" /\ ~InTx(d)
          /\ dpc' = [dpc EXCEPT ![d] = "exec"] /\ drun' = [drun EXCEPT ![d] = r]
      BY <1>1 DEF ClaimNextPending, InTx, runVars
    <2>2. Locked(r)' /\ \A s \in Runs \ {r} : Locked(s)' <=> Locked(s)
      BY <1>0, <2>1 DEF Locked, InTx
    <2>3. Phase' = [Phase EXCEPT ![r] = "RUNNING"] /\ Pinned' = Pinned /\ Phase[r] = "PENDING"
      BY <2>1, <2>2 DEF Phase, Pinned
    <2>4. Lifecycle!Start(r)
      BY <2>3 DEF Phase, Pinned, Lifecycle!Start
    <2> QED BY <2>4 DEF LifecycleStep
  <1>2. ASSUME NEW result \in Results, Execute(d, result) PROVE LifecycleStep
    <2>1. rstate' = rstate /\ drun' = drun /\ dpc' = [dpc EXCEPT ![d] = result] /\ dpc[d] = "exec"
      BY <1>2 DEF Execute, runVars
    <2>2. \A s \in Runs : Locked(s)' <=> Locked(s)
      BY <2>1 DEF Locked, InTx, Results
    <2> QED BY <2>1, <2>2 DEF Phase, Pinned, LifecycleStep
  <1>3. CASE ScheduleTraceDeploy(d)
    <2>0. PICK r \in Runs : r = drun[d]
      BY <1>3 DEF ScheduleTraceDeploy, IInv, DispatcherShape
    <2>1. /\ InTx(d) /\ rstate[r] = "PENDING" /\ Locked(r)
          /\ rstate' = [rstate EXCEPT ![r] = "RUNNING"]
          /\ dpc' = [dpc EXCEPT ![d] = "partial"] /\ drun' = drun
      BY <1>3, <2>0 DEF ScheduleTraceDeploy, IInv, NoLostUpdate, InTx, Locked
    <2>2. ~Locked(r)' /\ \A s \in Runs \ {r} : Locked(s)' <=> Locked(s)
      BY <1>0, <2>0, <2>1 DEF Locked, InTx
    <2>3. Phase' = Phase /\ Pinned' = Pinned \cup {r} /\ Phase[r] = "RUNNING"
      BY <1>0, <2>1, <2>2 DEF Phase, Pinned
    <2>4. Lifecycle!Pin(r)
      BY <2>3 DEF Phase, Pinned, Lifecycle!Pin
    <2> QED BY <2>4 DEF LifecycleStep
  <1>4. CASE Finalise(d)
    <2>0. PICK r \in Runs, out \in {"SUCCESS", "FAILED"} : r = drun[d] /\ out = Outcome(d)
      BY <1>4, FinaliseEffect
    <2>1. /\ out \in {"SUCCESS", "FAILED"}
          /\ rstate' = [rstate EXCEPT ![r] = out]
          /\ dpc' = [dpc EXCEPT ![d] = "idle"] /\ drun' = [drun EXCEPT ![d] = NoRun]
      BY <1>4, <2>0 DEF Finalise, Idle
    <2>2. ~Locked(r)' /\ \A s \in Runs \ {r} : Locked(s)' <=> Locked(s)
      <3>1. \A e \in Dispatchers \ {d} : dpc[e] # "idle" => drun[e] # r
        BY <1>4, <2>0 DEF IInv, DispatchersDisjoint, Finalise, Results
      <3> QED BY <1>0, <2>0, <2>1, <3>1 DEF Locked, InTx
    <2>3. Phase' = [Phase EXCEPT ![r] = out] /\ Pinned' = Pinned \cup {r}
      BY <1>0, <2>1, <2>2 DEF Phase, Pinned
    <2>4. CASE InTx(d)
      <3>1. Phase[r] = "RUNNING"
        BY <2>0, <2>4 DEF Phase, Locked
      <3>2. Lifecycle!Finish(r)
        BY <2>3, <3>1 DEF Phase, Pinned, Lifecycle!Finish
      <3> QED BY <3>2 DEF LifecycleStep
    <2>5. CASE ~InTx(d)
      <3>1. /\ Accepts(rstate[r], out) /\ rstate[r] \notin {"ABSENT", "PENDING"}
        BY <1>4, <2>0, <2>5 DEF Finalise, Results, OwnRunState, IInv, DispatcherTask, TaskHasRun, InTx,
               DispatcherShape
      <3>2. Phase[r] = rstate[r]
        BY <3>1, LockedIsPending DEF Phase
      <3>3. rstate[r] = "RUNNING" \/ rstate[r] = out
        BY <1>0, <3>1, AcceptedTransitions DEF RunStates, Terminal
      <3>4. CASE rstate[r] = "RUNNING"
        <4>1. Lifecycle!Finish(r)
          BY <2>3, <3>4 DEF Phase, Pinned, Lifecycle!Finish
        <4> QED BY <4>1 DEF LifecycleStep
      <3>5. CASE rstate[r] = out
        <4>1. Phase' = Phase /\ Pinned' = Pinned
          BY <2>3, <3>2, <3>5 DEF Phase, Pinned
        <4> QED BY <4>1 DEF LifecycleStep
      <3> QED BY <3>3, <3>4, <3>5
    <2> QED BY <2>4, <2>5
  <1>5. CASE dpc[d] # "idle" /\ (FinaliseRejected(d) \/ DispatcherCrash(d) \/ LoseConnection(d))
    <2>0. PICK r \in Runs : r = drun[d]
      BY <1>5 DEF IInv, DispatcherShape
    <2>1. /\ rstate' = rstate
          /\ dpc' = [dpc EXCEPT ![d] = "idle"] /\ drun' = [drun EXCEPT ![d] = NoRun]
      BY <1>5 DEF FinaliseRejected, DispatcherCrash, LoseConnection, Idle, runVars
    <2>2. ~Locked(r)' /\ \A s \in Runs \ {r} : Locked(s)' <=> Locked(s)
      <3>1. \A e \in Dispatchers \ {d} : dpc[e] # "idle" => drun[e] # r
        BY <1>5, <2>0 DEF IInv, DispatchersDisjoint
      <3> QED BY <1>0, <2>0, <2>1, <3>1 DEF Locked, InTx
    <2>3. CASE Locked(r)
      <3>1. Phase' = [Phase EXCEPT ![r] = "PENDING"] /\ Pinned' = Pinned
            /\ Phase[r] = "RUNNING" /\ r \notin Pinned
        BY <2>1, <2>2, <2>3, LockedIsPending DEF Phase, Pinned
      <3>2. Lifecycle!Yield(r)
        BY <3>1 DEF Phase, Pinned, Lifecycle!Yield
      <3> QED BY <3>2 DEF LifecycleStep
    <2>4. CASE ~Locked(r)
      <3>1. Phase' = Phase /\ Pinned' = Pinned
        BY <2>1, <2>2, <2>4 DEF Phase, Pinned
      <3> QED BY <3>1 DEF LifecycleStep
    <2> QED BY <2>3, <2>4
  <1>6. CASE CutScriptEnds(d) \/ (dpc[d] = "idle" /\ DispatcherCrash(d))
    <2>1. rstate' = rstate /\ \A e \in Dispatchers : InTx(e)' <=> InTx(e)
      BY <1>0, <1>6 DEF CutScriptEnds, DispatcherCrash, Idle, InTx, runVars
    <2>2. \A e \in Dispatchers : InTx(e) => drun'[e] = drun[e]
      BY <1>0, <1>6 DEF CutScriptEnds, DispatcherCrash, Idle, InTx
    <2>3. Phase' = Phase /\ Pinned' = Pinned
      BY <2>1, <2>2 DEF Phase, Pinned, Locked
    <2> QED BY <2>3 DEF LifecycleStep
  <1>7. FinaliseRejected(d) \/ LoseConnection(d) => dpc[d] # "idle"
    BY DEF FinaliseRejected, LoseConnection
  <1> QED BY <1>1, <1>2, <1>3, <1>4, <1>5, <1>6, <1>7 DEF DispatcherStep

\* A Colab worker starts its run for good and finishes it, if it still may.
LEMMA WorkerStepRefines ==
    ASSUME IInv, NEW t \in Tasks, WorkerStep(t)
    PROVE  LifecycleStep
  <1>0. rstate \in [Runs -> RunStates \cup {"ABSENT"}]
    BY DEF IInv, TypeOK
  <1>1. ASSUME NEW r \in Runs, NEW delivered \in {"exec", "over"},
               ClaimPendingDagRun(r, t, delivered)
        PROVE  LifecycleStep
    <2>1. /\ ~Locked(r) /\ rstate[r] = "PENDING" /\ rstate' = [rstate EXCEPT ![r] = "RUNNING"]
          /\ \A s \in Runs : Locked(s)' <=> Locked(s)
      BY <1>1, LocksStay DEF ClaimPendingDagRun, dispVars
    <2>2. /\ Phase' = [Phase EXCEPT ![r] = "RUNNING"] /\ Pinned' = Pinned \cup {r}
          /\ Phase[r] = "PENDING"
      BY <1>0, <2>1 DEF Phase, Pinned
    <2>3. Lifecycle!Start(r)
      BY <2>2 DEF Phase, Pinned, Lifecycle!Start
    <2> QED BY <2>3 DEF LifecycleStep
  <1>2. CASE CompleteRun(t)
    <2>1. PICK r \in Runs, out \in {"SUCCESS", "FAILED"} :
             /\ r = trun[t] /\ out = IF job[t] = "success" THEN "SUCCESS" ELSE "FAILED"
      BY <1>2, CompleteRunEffect
    <2>2. /\ ~Locked(r) /\ rstate[r] \notin {"ABSENT", "PENDING"}
          /\ \A s \in Runs : Locked(s)' <=> Locked(s)
      BY <1>2, <2>1, LocksStay, CompleteRunEffect DEF CompleteRun, dispVars, IInv, TaskHasRun
    <2>3. \/ rstate' = rstate
          \/ Accepts(rstate[r], out) /\ rstate' = [rstate EXCEPT ![r] = out]
      BY <1>2, <2>1 DEF CompleteRun
    <2>4. CASE rstate' = rstate
      <3>1. Phase' = Phase /\ Pinned' = Pinned
        BY <2>2, <2>4 DEF Phase, Pinned
      <3> QED BY <3>1 DEF LifecycleStep
    <2>5. CASE rstate' # rstate
      <3>1. rstate[r] = "RUNNING" /\ rstate' = [rstate EXCEPT ![r] = out]
        BY <1>0, <2>2, <2>3, <2>5, AcceptedTransitions DEF RunStates, Terminal
      <3>2. /\ Phase' = [Phase EXCEPT ![r] = out] /\ Pinned' = Pinned \cup {r}
            /\ Phase[r] = "RUNNING"
        BY <1>0, <2>2, <3>1 DEF Phase, Pinned
      <3>3. Lifecycle!Finish(r)
        BY <3>2 DEF Phase, Pinned, Lifecycle!Finish
      <3> QED BY <3>3 DEF LifecycleStep
    <2> QED BY <2>4, <2>5
  <1>3. CASE \/ \E result \in {"success", "failed"} : ReportResult(t, result)
             \/ LoseJob(t)
    <2>1. UNCHANGED <<rstate, dpc, drun>>
      BY <1>3 DEF ReportResult, LoseJob, runVars, dispVars
    <2>2. Phase' = Phase /\ Pinned' = Pinned
      BY <2>1, LocksStay DEF Phase, Pinned
    <2> QED BY <2>2 DEF LifecycleStep
  <1> QED BY <1>1, <1>2, <1>3 DEF WorkerStep

\* The reaper fails a set of runs whose start is visible, all at once.
LEMMA ReaperStepRefines ==
    ASSUME IInv, NEW p \in Reapers, ReaperStep(p)
    PROVE  LifecycleStep
  <1>0. rstate \in [Runs -> RunStates \cup {"ABSENT"}]
    BY DEF IInv, TypeOK
  <1>1. CASE ReapExpiredLeases(p)
    <2>1. PICK S \in SUBSET Runs : S = RunsToFail(p)
      BY DEF RunsToFail
    <2>2. /\ rstate' = [r \in Runs |-> IF r \in S THEN "FAILED" ELSE rstate[r]]
          /\ \A r \in S : ~Locked(r) /\ Accepts(rstate[r], "FAILED")
          /\ \A r \in Runs : Locked(r)' <=> Locked(r)
      BY <1>1, <2>1, LocksStay DEF ReapExpiredLeases, dispVars
    <2>3. \A r \in S : rstate[r] \notin Terminal \cup {"ABSENT", "PENDING"}
      BY <1>1, <2>1, ReapEffect DEF RunsToFail, IInv, TaskHasRun
    <2>4. \A r \in S : rstate[r] = "RUNNING"
      BY <1>0, <2>3 DEF RunStates, Terminal
    <2>5. /\ Phase' = [r \in Runs |-> IF r \in S THEN "FAILED" ELSE Phase[r]]
          /\ Pinned' = Pinned
          /\ \A r \in S : Phase[r] = "RUNNING" /\ r \in Pinned
      BY <2>2, <2>4 DEF Phase, Pinned
    <2>6. Lifecycle!Expire(S)
      BY <2>5 DEF Phase, Pinned, Lifecycle!Expire
    <2> QED BY <2>6 DEF LifecycleStep
  <1>2. CASE (\E S \in SUBSET Tasks : SelectStale(p, S)) \/ ReaperAbort(p)
    <2>1. UNCHANGED <<rstate, dpc, drun>>
      BY <1>2 DEF SelectStale, ReaperAbort, runVars, dispVars
    <2>2. Phase' = Phase /\ Pinned' = Pinned
      BY <2>1, LocksStay DEF Phase, Pinned
    <2> QED BY <2>2 DEF LifecycleStep
  <1> QED BY <1>1, <1>2 DEF ReaperStep

\* Of the operators' requests only a cancel shows, and never on a run whose
\* start is provisional.
LEMMA ClientStepRefines ==
    ASSUME IInv, NEW c \in Clients, ClientStep(c)
    PROVE  LifecycleStep
  <1>0. rstate \in [Runs -> RunStates \cup {"ABSENT"}]
    BY DEF IInv, TypeOK
  <1>1. CASE WriteRun(c)
    <2>1. PICK r \in Runs : r = arun[c]
      BY <1>1, WriteRunEffect
    <2>2. /\ ~Locked(r) /\ rstate[r] \in RunStates
          /\ \A s \in Runs : Locked(s)' <=> Locked(s)
          /\ \/ Accepts(rstate[r], "CANCELLED") /\ rstate' = [rstate EXCEPT ![r] = "CANCELLED"]
             \/ rstate' = rstate
      BY <1>1, <2>1, WriteRunEffect, LocksStay
    <2>3. CASE rstate' = rstate
      <3>1. Phase' = Phase /\ Pinned' = Pinned
        BY <2>2, <2>3 DEF Phase, Pinned
      <3> QED BY <3>1 DEF LifecycleStep
    <2>4. CASE rstate' # rstate
      <3>1. /\ rstate[r] \in {"PENDING", "RUNNING"}
            /\ rstate' = [rstate EXCEPT ![r] = "CANCELLED"]
        BY <1>0, <2>2, <2>4, AcceptedTransitions DEF RunStates, Terminal
      <3>2. /\ Phase' = [Phase EXCEPT ![r] = "CANCELLED"] /\ Pinned' = Pinned \cup {r}
            /\ Phase[r] = "PENDING" \/ (Phase[r] = "RUNNING" /\ r \in Pinned)
        BY <1>0, <2>2, <3>1 DEF Phase, Pinned
      <3>3. Lifecycle!Cancel(r)
        BY <3>2 DEF Phase, Pinned, Lifecycle!Cancel
      <3> QED BY <3>3 DEF LifecycleStep
    <2> QED BY <2>3, <2>4
  <1>2. CASE \E r \in Runs, q \in Requests : ReadRun(c, r, q)
    <2>1. UNCHANGED <<rstate, dpc, drun>>
      BY <1>2 DEF ReadRun, runVars, dispVars
    <2>2. Phase' = Phase /\ Pinned' = Pinned
      BY <2>1, LocksStay DEF Phase, Pinned
    <2> QED BY <2>2 DEF LifecycleStep
  <1> QED BY <1>1, <1>2 DEF ClientStep

\* Every step of XioflowRuns is a step of RunLifecycle or leaves it alone.
LEMMA NextRefines ==
    ASSUME IInv, [Next]_vars
    PROVE  [Lifecycle!Next]_(Lifecycle!vars)
  <1>1. ASSUME NEW r \in Runs, NEW k \in KindsOf[r], DispatchRun(r, k) PROVE LifecycleStep
    <2>1. /\ rstate[r] = "ABSENT" /\ rstate' = [rstate EXCEPT ![r] = "PENDING"]
          /\ \A s \in Runs : Locked(s)' <=> Locked(s)
      BY <1>1, LocksStay DEF DispatchRun, dispVars
    <2>2. ~Locked(r)
      BY <2>1, LockedIsPending
    <2>3. Phase' = [Phase EXCEPT ![r] = "PENDING"] /\ Pinned' = Pinned /\ Phase[r] = "ABSENT"
      <3>1. rstate \in [Runs -> RunStates \cup {"ABSENT"}]
        BY DEF IInv, TypeOK
      <3> QED BY <2>1, <2>2, <3>1 DEF Phase, Pinned
    <2>4. Lifecycle!Submit(r)
      BY <2>3 DEF Phase, Pinned, Lifecycle!Submit
    <2> QED BY <2>4 DEF LifecycleStep
  <1>2. ASSUME UNCHANGED vars PROVE LifecycleStep
    <2>1. Phase' = Phase /\ Pinned' = Pinned
      BY <1>2, LocksStay DEF vars, Phase, Pinned
    <2> QED BY <2>1 DEF LifecycleStep
  <1>3. ASSUME NEW r \in Runs, OrphanEnds(r) PROVE LifecycleStep
    <2>1. Phase' = Phase /\ Pinned' = Pinned
      BY <1>3, LocksStay DEF OrphanEnds, runVars, Phase, Pinned
    <2> QED BY <2>1 DEF LifecycleStep
  <1>4. LifecycleStep
    BY <1>1, <1>2, <1>3, DispatcherStepRefines, WorkerStepRefines, ReaperStepRefines,
       ClientStepRefines DEF Next
  <1>5. CASE Phase' = Phase /\ Pinned' = Pinned
    BY <1>5 DEF Lifecycle!vars, Phase, Pinned
  <1> QED BY <1>4, <1>5 DEF LifecycleStep, Lifecycle!Next

\* The tables and all their concurrent writers implement the lifecycle that an
\* onlooker is promised: starts are taken back only before they are visible,
\* and an ended run never moves again.
THEOREM Refinement == Spec => ImplementsLifecycle
  <1>1. Init => Lifecycle!Init
    BY DEF Init, Lifecycle!Init, Locked, InTx
  <1>2. IInv /\ [Next]_vars => [Lifecycle!Next]_(Lifecycle!vars)
    BY NextRefines
  <1> QED BY <1>1, <1>2, Invariance, PTL DEF Spec, ImplementsLifecycle, Lifecycle!Spec
=============================================================================
