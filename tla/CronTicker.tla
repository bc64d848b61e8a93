----------------------------- MODULE CronTicker -----------------------------
(***************************************************************************)
(* Cron triggers: the rows of xioflow_triggers, the ticker loops that fire *)
(* them (xiosync/worker/ticker.py), and the operators' fire_now and        *)
(* enable/disable requests (xiosync/services/triggers.py).  A ticker reads *)
(* all its triggers with one SELECT, claims the due ones with one UPDATE   *)
(* each and commits once; the uncommitted UPDATEs hold the row locks.      *)
(* SQL now() is the start of the transaction on the DATABASE's clock; the  *)
(* decision whether a trigger is due uses the WORKER's clock.              *)
(***************************************************************************)
EXTENDS Integers, FiniteSets

CONSTANTS
    Triggers,     \* primary keys of xioflow_triggers, trigger_type = 'cron'
    Workers,      \* processes that run the ticker loop
    Clients,      \* requests that call fire_now
    Period,       \* the cron schedule: a slot at every multiple of Period
    Skew,         \* how far the workers' clock is ahead of the database's
    Limit,        \* LIMIT of the SELECT (100)
    MaxTime       \* bound of the clock

ASSUME PeriodAssumption == Period \in Nat \ {0}
ASSUME SkewAssumption == Skew \in Nat
ASSUME LimitAssumption == Limit \in Nat \ {0}
ASSUME MaxTimeAssumption == MaxTime \in Nat \ {0}

NULL == -1     \* last_fired_at IS NULL; smaller than every time

VARIABLES
    clock,     \* the database's clock
    last,      \* [Triggers -> last_fired_at]
    enabled,   \* triggers with enabled = true
    fires,     \* [Triggers -> [slot -> number of scheduled runs, 2 for more]]
    wpc,       \* [Workers -> "idle" | "begun" | "firing" | "down"]
    wnow,      \* [Workers -> datetime.now(UTC) of the tick]
    wtx,       \* [Workers -> now() of its transaction]
    seen,      \* [Workers -> [Triggers -> last_fired_at as selected]]
    todo,      \* [Workers -> due triggers not handled yet]
    mine,      \* [Workers -> triggers updated in the open transaction]
    ctrig,     \* [Clients -> triggers whose fire_now is in progress]
    ctx,       \* [Clients -> now() of its transaction]
    byHand     \* triggers that fire_now has fired

tickVars == <<wpc, wnow, wtx, seen, todo, mine>>
vars == <<clock, last, enabled, fires, wpc, wnow, wtx, seen, todo, mine, ctrig, ctx, byHand>>

Times == 0..MaxTime

\* croniter(schedule, now).get_prev(): the last slot strictly before now.
PrevSlot(now) == ((now - 1) \div Period) * Period
Slots == {PrevSlot(t) : t \in 1..(MaxTime + Skew)}

Init ==
    /\ clock = 1
    /\ last = [t \in Triggers |-> NULL]
    /\ enabled = Triggers
    /\ fires = [t \in Triggers |-> [s \in Slots |-> 0]]
    /\ wpc = [w \in Workers |-> "idle"]
    /\ wnow = [w \in Workers |-> 0]
    /\ wtx = [w \in Workers |-> 0]
    /\ seen = [w \in Workers |-> [t \in Triggers |-> NULL]]
    /\ todo = [w \in Workers |-> {}]
    /\ mine = [w \in Workers |-> {}]
    /\ ctrig = [c \in Clients |-> {}]
    /\ ctx = [c \in Clients |-> 0]
    /\ byHand = {}

Advance ==
    /\ clock < MaxTime
    /\ clock' = clock + 1
    /\ UNCHANGED <<last, enabled, fires, tickVars, ctrig, ctx, byHand>>

\* Fault: a trigger that never fired is not due.
IsDueOnceFired(fired, now) == fired # NULL /\ fired < PrevSlot(now)

\* _is_due, for a valid schedule.
IsDue(fired, now) == fired = NULL \/ fired < PrevSlot(now)

\* Row lock of an uncommitted UPDATE.
LockedFor(t, w) == \E v \in Workers \ {w} : t \in mine[v]
LockedRow(t) == \E v \in Workers : t \in mine[v]

\* What the SELECT may return: all enabled triggers, or any Limit of them.
Batches == {S \in SUBSET enabled : Cardinality(S) = Limit \/ (S = enabled /\ Cardinality(S) <= Limit)}

------------------------------------------------------------------------------
\* tick_cron_triggers

\* now = datetime.now(UTC), before the transaction begins.
ReadClock(w) ==
    /\ wpc[w] = "idle"
    /\ wpc' = [wpc EXCEPT ![w] = "begun"]
    /\ wnow' = [wnow EXCEPT ![w] = clock + Skew]
    /\ UNCHANGED <<clock, last, enabled, fires, wtx, seen, todo, mine, ctrig, ctx, byHand>>

\* The transaction begins with the SELECT; triggers that are not due are
\* passed over.
SelectTriggers(w, S) ==
    /\ wpc[w] = "begun"
    /\ wpc' = [wpc EXCEPT ![w] = "firing"]
    /\ wtx' = [wtx EXCEPT ![w] = clock]
    /\ seen' = [seen EXCEPT ![w] = last]
    /\ todo' = [todo EXCEPT ![w] = {t \in S : IsDue(last[t], wnow[w])}]
    /\ UNCHANGED <<clock, last, enabled, fires, wnow, mine, ctrig, ctx, byHand>>

\* Fault: the UPDATE has no condition on last_fired_at.
ClaimBlindly(w, t) ==
    /\ wpc[w] = "firing"
    /\ t \in todo[w]
    /\ ~LockedFor(t, w)
    /\ todo' = [todo EXCEPT ![w] = @ \ {t}]
    /\ mine' = [mine EXCEPT ![w] = @ \cup {t}]
    /\ UNCHANGED <<clock, last, enabled, fires, wpc, wnow, wtx, seen, ctrig, ctx, byHand>>

\* UPDATE ... WHERE last_fired_at IS NULL OR last_fired_at = :prev_fired, and
\* the INSERT of the run when it hit.  The UPDATE waits for the row lock and
\* sees the row as committed then.
Claim(w, t) ==
    /\ wpc[w] = "firing"
    /\ t \in todo[w]
    /\ ~LockedFor(t, w)
    /\ todo' = [todo EXCEPT ![w] = @ \ {t}]
    /\ mine' = IF last[t] = NULL \/ last[t] = seen[w][t]
               THEN [mine EXCEPT ![w] = @ \cup {t}] ELSE mine
    /\ UNCHANGED <<clock, last, enabled, fires, wpc, wnow, wtx, seen, ctrig, ctx, byHand>>

\* The end of a transaction releases its row locks.
ForgetTick(w) ==
    /\ wtx' = [wtx EXCEPT ![w] = 0]
    /\ seen' = [seen EXCEPT ![w] = [t \in Triggers |-> NULL]]
    /\ todo' = [todo EXCEPT ![w] = {}]
    /\ mine' = [mine EXCEPT ![w] = {}]

\* The commit: last_fired_at and the runs become visible together.
CommitTick(w) ==
    /\ wpc[w] = "firing"
    /\ todo[w] = {}
    /\ last' = [t \in Triggers |-> IF t \in mine[w] THEN wtx[w] ELSE last[t]]
    /\ fires' = [t \in Triggers |->
                    IF t \in mine[w]
                    THEN [fires[t] EXCEPT ![PrevSlot(wnow[w])] = IF @ < 2 THEN @ + 1 ELSE @]
                    ELSE fires[t]]
    /\ wpc' = [wpc EXCEPT ![w] = "idle"]
    /\ wnow' = [wnow EXCEPT ![w] = 0]
    /\ ForgetTick(w)
    /\ UNCHANGED <<clock, enabled, ctrig, ctx, byHand>>

\* The process dies, a statement raises, or PostgreSQL picks the transaction
\* as a deadlock victim: nothing was committed ...
AbortTick(w) ==
    /\ wpc[w] \in {"begun", "firing"}
    /\ wpc' = [wpc EXCEPT ![w] = "down"]
    /\ wnow' = [wnow EXCEPT ![w] = 0]
    /\ ForgetTick(w)
    /\ UNCHANGED <<clock, last, enabled, fires, ctrig, ctx, byHand>>

\* ... and the loop waits for its interval and ticks again.
Recover(w) ==
    /\ wpc[w] = "down"
    /\ wpc' = [wpc EXCEPT ![w] = "idle"]
    /\ UNCHANGED <<clock, last, enabled, fires, wnow, wtx, seen, todo, mine, ctrig, ctx, byHand>>

------------------------------------------------------------------------------
\* XioflowTriggerService

\* fire_now reads the trigger, which starts its transaction ...
BeginFireNow(c, t) ==
    /\ ctrig[c] = {}
    /\ ctrig' = [ctrig EXCEPT ![c] = {t}]
    /\ ctx' = [ctx EXCEPT ![c] = clock]
    /\ UNCHANGED <<clock, last, enabled, fires, tickVars, byHand>>

\* ... and ends by inserting a run and setting last_fired_at = now().
FireNow(c) ==
    /\ ctrig[c] # {}
    /\ \A t \in ctrig[c] : ~LockedRow(t)
    /\ last' = [t \in Triggers |-> IF t \in ctrig[c] THEN ctx[c] ELSE last[t]]
    /\ byHand' = byHand \cup ctrig[c]
    /\ ctrig' = [ctrig EXCEPT ![c] = {}]
    /\ ctx' = [ctx EXCEPT ![c] = 0]
    /\ UNCHANGED <<clock, enabled, fires, tickVars>>

SetEnabled(t, on) ==
    /\ ~LockedRow(t)
    /\ enabled' = IF on THEN enabled \cup {t} ELSE enabled \ {t}
    /\ UNCHANGED <<clock, last, fires, tickVars, ctrig, ctx, byHand>>

WorkerStep(w) ==
    \/ ReadClock(w)
    \/ \E S \in Batches : SelectTriggers(w, S)
    \/ \E t \in Triggers : Claim(w, t)
    \/ CommitTick(w)
    \/ Recover(w)

Next ==
    \/ Advance
    \/ \E w \in Workers : WorkerStep(w) \/ AbortTick(w)
    \/ \E c \in Clients : FireNow(c) \/ \E t \in Triggers : BeginFireNow(c, t)
    \/ \E t \in Triggers, on \in BOOLEAN : SetEnabled(t, on)

Spec == Init /\ [][Next]_vars

\* The loop ticks for ever, and from some time on no tick aborts.
FairSpec ==
    /\ Spec
    /\ WF_vars(Advance)
    /\ \A w \in Workers : WF_vars(WorkerStep(w))
    /\ <>[][\A w \in Workers : ~AbortTick(w)]_vars

------------------------------------------------------------------------------
\* Every variable keeps its type.
TypeOK ==
    /\ clock \in Times
    /\ last \in [Triggers -> Times \cup {NULL}]
    /\ enabled \subseteq Triggers
    /\ fires \in [Triggers -> [Slots -> 0..2]]
    /\ wpc \in [Workers -> {"idle", "begun", "firing", "down"}]
    /\ wnow \in [Workers -> 0..(MaxTime + Skew)]
    /\ wtx \in [Workers -> Times]
    /\ seen \in [Workers -> [Triggers -> Times \cup {NULL}]]
    /\ todo \in [Workers -> SUBSET Triggers]
    /\ mine \in [Workers -> SUBSET Triggers]
    /\ ctrig \in [Clients -> SUBSET Triggers]
    /\ ctx \in [Clients -> Times]
    /\ byHand \subseteq Triggers

\* Concurrent tickers never create two scheduled runs for the same slot of a
\* trigger, as long as no one fires it by hand.
OncePerSlot == \A t \in Triggers \ byHand, s \in Slots : fires[t][s] <= 1

\* A slot that has passed on an enabled trigger is fired, or the trigger is
\* disabled meanwhile: no tick leaves it waiting for ever.
DueTriggerFires ==
    \A t \in Triggers, s \in Slots :
        (t \in enabled /\ s < clock /\ last[t] < s) ~> (last[t] >= s \/ t \notin enabled)

\* No ticker sets last_fired_at back, whatever it read, waited for and however its
\* clock differs from the database's; only a slow fire_now can.
LastMovesForward == [][\A t \in Triggers \ byHand' : last'[t] >= last[t]]_vars

------------------------------------------------------------------------------
\* The inductive invariant

\* A tick reads the worker's clock, which has been running, before its
\* transaction begins; the clock never goes back.
TickFollowsClock ==
    /\ clock > 0
    /\ \A w \in Workers :
          /\ wpc[w] \in {"begun", "firing"} => wnow[w] \in 1..(clock + Skew)
          /\ wpc[w] = "firing" => wnow[w] <= wtx[w] + Skew

\* No transaction writes a time of the future into last_fired_at, and a ticker
\* sees and replaces only times before its own.
TimesArePast ==
    /\ \A t \in Triggers : last[t] <= clock
    /\ \A c \in Clients : ctx[c] <= clock
    /\ \A w \in Workers : wpc[w] = "firing" =>
          /\ wtx[w] <= clock
          /\ \A t \in Triggers : seen[w][t] <= wtx[w]
          /\ \A t \in mine[w] : last[t] <= wtx[w]

\* Only an open transaction has work to do and rows locked.
ClosedHasNothing == \A w \in Workers : wpc[w] # "firing" => todo[w] = {} /\ mine[w] = {}

\* A row is locked by one ticker at a time.
LocksAreApart == \A v, w \in Workers : mine[v] \cap mine[w] # {} => v = w

\* What a ticker still has to claim was due when it was selected.
SelectedIsDue == \A w \in Workers : \A t \in todo[w] : IsDue(seen[w][t], wnow[w])

\* What it has claimed has not fired since: the committed time is before the slot.
ClaimedIsDue == \A w \in Workers : \A t \in mine[w] : last[t] < PrevSlot(wnow[w])

\* A slot that was fired lies before last_fired_at, up to the skew of the clocks.
FiredIsPast ==
    \A t \in Triggers \ byHand, s \in Slots : fires[t][s] > 0 => s < last[t] + Skew

IInv ==
    /\ TypeOK
    /\ TickFollowsClock
    /\ TimesArePast
    /\ ClosedHasNothing
    /\ LocksAreApart
    /\ SelectedIsDue
    /\ ClaimedIsDue
    /\ FiredIsPast
=============================================================================
