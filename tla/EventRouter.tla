----------------------------- MODULE EventRouter -----------------------------
(***************************************************************************)
(* Event triggers: xiosync/worker/event_router.py turns committed rows of  *)
(* the events table into runs.  Nothing marks an event as processed: an    *)
(* event counts as handled when SOME run of the trigger started at or      *)
(* after the event's created_at.  One trigger is modelled (triggers meet   *)
(* only in the LIMIT).  created_at and started_at are SQL now(), the start *)
(* of the transaction that writes them, so a row may become visible long   *)
(* after the time it carries.                                              *)
(***************************************************************************)
EXTENDS Integers, FiniteSets

CONSTANTS
    TriggerEvents,  \* events whose type matches the trigger
    Rejected,       \* those whose payload the filter expression rejects
    Workers,        \* processes that run the evaluator loop
    ManualFire,     \* may operators call fire_now on the trigger?
    SelectLimit,    \* LIMIT of the SELECT (100)
    Window,         \* age up to which events are considered (5 minutes)
    MaxTime         \* bound of the clock

ASSUME RejectedAssumption == Rejected \subseteq TriggerEvents
ASSUME ManualFireAssumption == ManualFire \in BOOLEAN
ASSUME RouterBoundsAssumption ==
    SelectLimit \in Nat \ {0} /\ Window \in Nat \ {0} /\ MaxTime \in Nat

VARIABLES
    clock,
    estate,     \* [TriggerEvents -> "absent" | "open" | "committed"]
    created,    \* [TriggerEvents -> created_at]
    started,    \* started_at of the trigger's committed runs
    made,       \* [TriggerEvents -> number of runs created for it, 2 for more]
    wpc,        \* [Workers -> "idle" | "begun" | "selected"]
    wtx,        \* [Workers -> now() of its transaction]
    batch       \* [Workers -> events it selected]

evtVars == <<estate, created>>
wrkVars == <<wpc, wtx, batch>>
routerVars == <<clock, estate, created, started, made, wpc, wtx, batch>>

Times == 0..MaxTime

RouterInit ==
    /\ clock = 0
    /\ estate = [e \in TriggerEvents |-> "absent"]
    /\ created = [e \in TriggerEvents |-> 0]
    /\ started = {}
    /\ made = [e \in TriggerEvents |-> 0]
    /\ wpc = [w \in Workers |-> "idle"]
    /\ wtx = [w \in Workers |-> 0]
    /\ batch = [w \in Workers |-> {}]

Advance ==
    /\ clock < MaxTime
    /\ clock' = clock + 1
    /\ UNCHANGED <<evtVars, started, made, wrkVars>>

\* EventService.append in the transaction of some use case.
AppendEvent(e) ==
    /\ estate[e] = "absent"
    /\ estate' = [estate EXCEPT ![e] = "open"]
    /\ created' = [created EXCEPT ![e] = clock]
    /\ UNCHANGED <<clock, started, made, wrkVars>>

CommitEvent(e) ==
    /\ estate[e] = "open"
    /\ estate' = [estate EXCEPT ![e] = "committed"]
    /\ UNCHANGED <<clock, created, started, made, wrkVars>>

\* NOT EXISTS (a run of the trigger with started_at >= created_at).
Answered(e) == \E s \in started : s >= created[e]

\* created_at > now() - interval '5 minutes'.
Recent(e, now) == created[e] > now - Window

\* Fault: the idempotency guard is missing.
MatchesUnguarded(now) == {e \in TriggerEvents : estate[e] = "committed" /\ Recent(e, now)}

\* Fault: the guard compares the wrong way round.
MatchesBackwards(now) ==
    {e \in TriggerEvents : estate[e] = "committed" /\ Recent(e, now)
                              /\ ~\E s \in started : s <= created[e]}

\* The rows that the WHERE clause accepts.
Matches(now) ==
    {e \in TriggerEvents : estate[e] = "committed" /\ Recent(e, now) /\ ~Answered(e)}

\* What the SELECT may return: all of them, or any SelectLimit of them.
Batches(now) ==
    {S \in SUBSET Matches(now) :
        Cardinality(S) = SelectLimit \/ (S = Matches(now) /\ Cardinality(S) <= SelectLimit)}

\* The transaction starts, which fixes now() ...
BeginTick(w) ==
    /\ wpc[w] = "idle"
    /\ wpc' = [wpc EXCEPT ![w] = "begun"]
    /\ wtx' = [wtx EXCEPT ![w] = clock]
    /\ UNCHANGED <<clock, evtVars, started, made, batch>>

\* ... the SELECT takes its snapshot a little later ...
SelectMatches(w) ==
    /\ wpc[w] = "begun"
    /\ \E S \in Batches(wtx[w]) : batch' = [batch EXCEPT ![w] = S]
    /\ wpc' = [wpc EXCEPT ![w] = "selected"]
    /\ UNCHANGED <<clock, evtVars, started, made, wtx>>

EndTick(w) ==
    /\ wpc' = [wpc EXCEPT ![w] = "idle"]
    /\ wtx' = [wtx EXCEPT ![w] = 0]
    /\ batch' = [batch EXCEPT ![w] = {}]

\* ... and the commit publishes one run per selected event that passes the
\* filter.
CommitTick(w) ==
    /\ wpc[w] = "selected"
    /\ LET fired == batch[w] \ Rejected
       IN  /\ made' = [e \in TriggerEvents |->
                         IF e \in fired /\ made[e] < 2 THEN made[e] + 1 ELSE made[e]]
           /\ started' = IF fired = {} THEN started ELSE started \cup {wtx[w]}
    /\ EndTick(w)
    /\ UNCHANGED <<clock, evtVars>>

\* Crash or exception: nothing was committed.
AbortTick(w) ==
    /\ wpc[w] # "idle"
    /\ EndTick(w)
    /\ UNCHANGED <<clock, evtVars, started, made>>

\* XioflowTriggerService.fire_now inserts a run of the trigger, too; its now()
\* is the time at which its transaction began.
FireNow ==
    /\ ManualFire
    /\ \E began \in 0..clock : started' = started \cup {began}
    /\ UNCHANGED <<clock, evtVars, made, wrkVars>>

WorkerStep(w) == BeginTick(w) \/ SelectMatches(w) \/ CommitTick(w)

RouterNext ==
    \/ Advance
    \/ \E e \in TriggerEvents : AppendEvent(e) \/ CommitEvent(e)
    \/ \E w \in Workers : WorkerStep(w) \/ AbortTick(w)
    \/ FireNow

RouterSpec == RouterInit /\ [][RouterNext]_routerVars

\* The loop ticks for ever, and aborts are not timed to hit every tick.
RouterFairSpec ==
    /\ RouterSpec
    /\ \A w \in Workers :
        /\ WF_routerVars(BeginTick(w))
        /\ SF_routerVars(SelectMatches(w))
        /\ SF_routerVars(CommitTick(w))

------------------------------------------------------------------------------
\* Every variable keeps its type.
RouterTypeOK ==
    /\ clock \in Times
    /\ estate \in [TriggerEvents -> {"absent", "open", "committed"}]
    /\ created \in [TriggerEvents -> Times]
    /\ started \subseteq Times
    /\ made \in [TriggerEvents -> 0..2]
    /\ wpc \in [Workers -> {"idle", "begun", "selected"}]
    /\ wtx \in [Workers -> Times]
    /\ batch \in [Workers -> SUBSET TriggerEvents]

\* An event that is answered and in no evaluator's hands.
Quiesced(e) ==
    estate[e] # "absent" /\ Answered(e) /\ \A w \in Workers : e \notin batch[w]

\* The idempotency guard holds for good: once an event is answered and every
\* tick that selected it earlier has ended, no tick of any process selects it
\* again or creates a run for it.
NoRunAfterAnswer ==
    [][\A e \in TriggerEvents : Quiesced(e) => Quiesced(e)' /\ made'[e] = made[e]]_routerVars

\* A committed event that passes the filter is not forgotten: some run of the
\* trigger starts at or after its created_at, unless it grows too old first.
EventIsAnswered ==
    \A e \in TriggerEvents \ Rejected :
        estate[e] = "committed" ~> (Answered(e) \/ ~Recent(e, clock))
=============================================================================
