----------------------------- MODULE PppoeSlots -----------------------------
(***************************************************************************)
(* Residential exit slots of one PPPoE host: xiogrid/services/             *)
(* pppoe_nodes.py, browser_sessions.py, worker/pppoe_health.py and         *)
(* worker/pppoe_warmpool.py.  A slot exists twice: as a row of             *)
(* xiogrid_pppoe_exit_nodes and as a PPP link with routing rules on the    *)
(* VM.  Browser sessions take and return slots in request transactions;    *)
(* the health ticker, the warm pool and operators change both sides.       *)
(* Every VM call happens before the transaction that records it commits.   *)
(***************************************************************************)
EXTENDS Naturals, FiniteSets

CONSTANTS
    Workers,    \* Colab workers; each asks for one browser session
    Pinned,     \* the workers whose session names the same google_account
    MaxSlots,   \* host.max_slots
    Target,     \* host.warm_pool_target
    BatchSize,  \* slots provisioned per warm-pool round
    MaxEvents,  \* bound: lost links and VM calls, failed transactions
    MaxAsked,   \* bound: operators' health, provision and destroy requests
    Health,     \* the health ticker, as owner of a transaction
    NoWorker, NoTx

ASSUME SlotsAssumption == MaxSlots \in Nat /\ Target \in Nat /\ BatchSize \in Nat
                             /\ MaxEvents \in Nat /\ MaxAsked \in Nat
ASSUME PinnedAssumption == Pinned \subseteq Workers
ASSUME OwnersAssumption ==
    /\ NoWorker \notin Workers /\ NoTx \notin Workers
    /\ Health \notin Workers /\ Health # NoTx

Slots == 0 .. (MaxSlots - 1)
NoSlot == MaxSlots

States == {"none", "connecting", "idle", "assigned", "reconnecting", "down", "destroyed"}
Row == [st : States, w : Workers \cup {NoWorker}]
NoRow == [st |-> "none", w |-> NoWorker]

VARIABLES
    row,     \* [Slots -> Row]: the committed rows, st "none" where there is none
    lock,    \* [Slots -> owner of the row lock]
    draft,   \* [Slots -> Row]: the row as the lock's owner has written it
    vm,      \* [Slots -> {"absent", "down", "up"}]: macvlan and pppd, PPP link
    rules,   \* [Slots -> SUBSET Workers]: ip rules that lead through the slot
    bound,   \* slot of the account's AccountIpBinding
    pc,      \* [Workers -> where its create or terminate request stands]
    own,     \* [Workers -> slot of the request, then of the session row]
    seen,    \* [Workers -> state of the ORM object of slot own]
    hpc,     \* where the health tick stands
    hseen, hnew,   \* its ORM objects: as loaded, as changed
    htodo,   \* slots it still has to check
    hleft,   \* slots its forced warm-pool round may still provision
    cap,     \* browser_pools.max_instances
    events,  \* bounded events so far
    razing,  \* slots destroyed on the VM whose row is not updated yet
    opc,     \* where an operator's health or provision request stands
    oslot, oup, oseen,   \* its slot, check-slot.sh's answer, the row as loaded
    asked,   \* operators' requests so far
    strayed, \* history: slots whose row and VM were made to differ
    parted   \* history: workers whose slot was committed without them

workerVars == <<bound, pc, own, seen>>
tickVars == <<hpc, hseen, hnew, htodo, hleft, cap>>
operatorVars == <<opc, oslot, oup, oseen, asked>>
\* The health tick, and an operator's request.
healthVars == <<hpc, hseen, hnew, htodo, hleft, cap, opc, oslot, oup, oseen, asked>>
vars == <<row, lock, draft, vm, rules, bound, pc, own, seen, hpc, hseen, hnew, htodo,
          hleft, cap, opc, oslot, oup, oseen, asked, events, razing, strayed, parted>>

Init ==
    /\ row = [s \in Slots |-> NoRow]
    /\ lock = [s \in Slots |-> NoTx]
    /\ draft = [s \in Slots |-> NoRow]
    /\ vm = [s \in Slots |-> "absent"]
    /\ rules = [s \in Slots |-> {}]
    /\ bound = NoSlot
    /\ pc = [w \in Workers |-> "new"]
    /\ own = [w \in Workers |-> NoSlot]
    /\ seen = [w \in Workers |-> "none"]
    /\ hpc = "idle"
    /\ hseen = [s \in Slots |-> NoRow]
    /\ hnew = [s \in Slots |-> NoRow]
    /\ htodo = {}
    /\ hleft = 0
    /\ cap = MaxSlots
    /\ events = 0
    /\ razing = {}
    /\ opc = "idle" /\ oslot = NoSlot /\ oup = FALSE /\ oseen = NoRow /\ asked = 0
    /\ strayed = {}
    /\ parted = {}

------------------------------------------------------------------------------
\* Rows and transactions

\* What transaction t reads of slot s: its own write, else the committed row.
View(t, s) == IF lock[s] = t THEN draft[s] ELSE row[s]

\* An UPDATE, INSERT or SELECT FOR UPDATE of t waits for another owner to end.
Free(t, s) == lock[s] \in {NoTx, t}

\* t writes row r of slot s inside its transaction.
Write(t, s, r) ==
    /\ lock' = [lock EXCEPT ![s] = t]
    /\ draft' = [draft EXCEPT ![s] = r]

\* The end of t's transaction: drafts are gone, and so are the locks.
Unlock(t) ==
    /\ lock' = [s \in Slots |-> IF lock[s] = t THEN NoTx ELSE lock[s]]
    /\ draft' = [s \in Slots |-> IF lock[s] = t THEN NoRow ELSE draft[s]]

\* Commit of t.  Workers whose slot is cleared by it have parted with it.
CommitRows(t) ==
    /\ row' = [s \in Slots |-> View(t, s)]
    /\ parted' = parted \cup {w \in Workers : \E s \in Slots : row[s].w = w /\ row'[s].w # w}
    /\ Unlock(t)

\* flush of an ORM object that was loaded as `old` and is `new`: the columns that
\* differ are updated, the row being `now` by then.
Merged(old, new, now) == [st |-> IF new.st = old.st THEN now.st ELSE new.st,
                          w  |-> IF new.w = old.w THEN now.w ELSE new.w]

\* _next_free_slot: the lowest slot without a row, or with a DESTROYED one.
Unused(t) == {s \in Slots : View(t, s).st \in {"none", "destroyed"}}
NextFreeSlot(t) == CHOOSE s \in Unused(t) : \A x \in Unused(t) : s <= x

\* _pick_idle_node: IDLE rows, skipping those that another transaction locked.
IdleNodes(t) == {s \in Slots : View(t, s).st = "idle" /\ Free(t, s)}

\* One of the bounded disturbances happens.
Event ==
    /\ events < MaxEvents
    /\ events' = events + 1

\* An operator asks for something.
Ask ==
    /\ asked < MaxAsked
    /\ asked' = asked + 1

\* release-route.sh for worker w on slot s.  Nobody looks at its result: when the
\* VM is out of reach the route stays.
ReleaseRoute(s, w, reached) ==
    /\ rules' = [rules EXCEPT ![s] = IF reached THEN @ \ {w} ELSE @]
    /\ strayed' = IF reached \/ w \notin rules[s] THEN strayed ELSE strayed \cup {s}

\* The same call times out, having reached the VM or not; the caller gives up and
\* the row goes on naming w.
ReleaseRaises(s, w, reached) ==
    /\ rules' = [rules EXCEPT ![s] = IF reached THEN @ \ {w} ELSE @]
    /\ strayed' = IF reached /\ w \in rules[s] THEN strayed \cup {s} ELSE strayed

Move(w, step) == pc' = [pc EXCEPT ![w] = step]

------------------------------------------------------------------------------
\* create_session: acquire_any inside the request's transaction

\* The account's binding and its node, both read without a lock.
BeginAcquire(w) ==
    /\ pc[w] = "new"
    /\ \/ /\ w \in Pinned /\ bound # NoSlot
          /\ own' = [own EXCEPT ![w] = bound]
          /\ seen' = [seen EXCEPT ![w] = row[bound].st]
          /\ Move(w, IF row[bound].st \in {"down", "destroyed"} THEN "rotate" ELSE "assign")
       \/ /\ ~(w \in Pinned /\ bound # NoSlot)
          /\ Move(w, "pick")
          /\ UNCHANGED <<own, seen>>
    /\ UNCHANGED <<row, lock, draft, vm, rules, bound, healthVars, events, razing, strayed, parted>>

\* rotate-slot.sh on a bound slot that is down.  It answers only where a pppd
\* runs; then the node becomes IDLE, whatever its row holds by now.
Rotate(w) ==
    LET s == own[w] IN
    /\ pc[w] = "rotate"
    /\ \/ /\ vm[s] # "absent" /\ Free(w, s)
          /\ vm' = [vm EXCEPT ![s] = "up"]
          /\ Write(w, s, [row[s] EXCEPT !.st = "idle"])
          /\ strayed' = IF row[s].st = seen[w] THEN strayed ELSE strayed \cup {s}
          /\ seen' = [seen EXCEPT ![w] = "idle"]
          /\ Move(w, "rotated")
       \/ /\ Move(w, "match")
          /\ UNCHANGED <<vm, lock, draft, strayed, seen>>
    /\ UNCHANGED <<row, rules, bound, own, healthVars, events, razing, parted>>

\* Another IDLE slot that shows the account's last address, read without a
\* lock; which one that is, if any, the addresses decide.  The account is bound
\* to it before it is assigned.
Match(w) ==
    /\ pc[w] = "match"
    /\ \/ \E s \in Slots :
             /\ View(w, s).st = "idle"
             /\ own' = [own EXCEPT ![w] = s]
             /\ seen' = [seen EXCEPT ![w] = "idle"]
             /\ Move(w, "matched")
       \/ Move(w, "pick") /\ UNCHANGED <<own, seen>>
    /\ UNCHANGED <<row, lock, draft, vm, rules, bound, healthVars, events, razing, strayed, parted>>

\* An idle slot, locked; else the next free one is provisioned on demand; else
\* the error is swallowed and the session gets no slot.
Pick(w) ==
    /\ pc[w] = "pick"
    /\ \/ \E s \in IdleNodes(w) :
             /\ Write(w, s, View(w, s))
             /\ own' = [own EXCEPT ![w] = s]
             /\ seen' = [seen EXCEPT ![w] = "idle"]
             /\ Move(w, "assign")
       \/ /\ IdleNodes(w) = {} /\ Unused(w) # {}
          /\ own' = [own EXCEPT ![w] = NextFreeSlot(w)]
          /\ seen' = [seen EXCEPT ![w] = View(w, NextFreeSlot(w)).st]
          /\ Move(w, "create")
          /\ UNCHANGED <<lock, draft>>
       \/ /\ IdleNodes(w) = {} /\ Unused(w) = {}
          /\ own' = [own EXCEPT ![w] = NoSlot]
          /\ seen' = [seen EXCEPT ![w] = "none"]
          /\ Move(w, "commit")
          /\ UNCHANGED <<lock, draft>>
    /\ UNCHANGED <<row, vm, rules, bound, healthVars, events, razing, strayed, parted>>

\* create-slot.sh starts a pppd unless one runs, and waits for its link: it
\* answers that the link is up, or that it is still connecting.
Created(s, link) ==
    /\ vm[s] = "up" => link = "up"
    /\ vm' = [vm EXCEPT ![s] = link]
StateOf(link) == IF link = "up" THEN "idle" ELSE "connecting"

\* provision_slot inside acquire_any.  A slot that had no row is INSERTed: when
\* somebody else's INSERT was first, the request fails.  A DESTROYED row is
\* updated without another look at it.  A failing script is swallowed.
Create(w, link) ==
    LET s == own[w] IN
    /\ pc[w] = "create"
    /\ Created(s, link)
    /\ \/ /\ Free(w, s)
          /\ ~(seen[w] = "none" /\ row[s].st # "none")
          /\ Write(w, s, [row[s] EXCEPT !.st = StateOf(link)])
          /\ strayed' = IF row[s].st = seen[w] THEN strayed ELSE strayed \cup {s}
          /\ seen' = [seen EXCEPT ![w] = StateOf(link)]
          /\ Move(w, "assign")
          /\ UNCHANGED own
       \/ /\ Free(w, s)
          /\ seen[w] = "none" /\ row[s].st # "none"
          /\ own' = [own EXCEPT ![w] = NoSlot]
          /\ seen' = [seen EXCEPT ![w] = "none"]
          /\ Move(w, "new") /\ Unlock(w)
          /\ UNCHANGED strayed
       \/ /\ own' = [own EXCEPT ![w] = NoSlot]
          /\ seen' = [seen EXCEPT ![w] = "none"]
          /\ Move(w, "commit")
          /\ UNCHANGED <<lock, draft, strayed>>
    /\ UNCHANGED <<row, rules, bound, healthVars, events, razing, parted>>

\* assign-route.sh adds the rule, and its answer is lost (the call times out): the
\* caller sees an error, and the row stays as it is.
AssignUnheard(w, s) ==
    /\ seen[w] = "idle" /\ vm[s] = "up"
    /\ Event
    /\ rules' = [rules EXCEPT ![s] = @ \cup {w}]
    /\ strayed' = strayed \cup {s}

\* Fault: the session keeps the slot that it could not be assigned to.
AssignKeepingSlot(w) ==
    LET s == own[w] IN
    /\ pc[w] \in {"assign", "rotated", "matched"}
    /\ Free(w, s)
    /\ \/ /\ seen[w] = "idle" /\ vm[s] = "up"
          /\ rules' = [rules EXCEPT ![s] = @ \cup {w}]
          /\ Write(w, s, [st |-> "assigned", w |-> w])
          /\ strayed' = IF View(w, s).st = "idle" THEN strayed ELSE strayed \cup {s}
       \/ /\ ~(seen[w] = "idle" /\ vm[s] = "up")
          /\ Write(w, s, View(w, s))
          /\ UNCHANGED <<rules, strayed>>
    /\ Move(w, "commit")
    /\ seen' = [seen EXCEPT ![w] = "none"]
    /\ UNCHANGED <<own, row, vm, bound, healthVars, events, razing, parted>>

\* assign_to_worker.  The row is locked here, but a node that the transaction
\* loaded before keeps the state it had then: `seen`, not the row, must be IDLE.
\* assign-route.sh may fail, before or after it added the rule.  After a rotation
\* an error falls through to the match by address, elsewhere it is swallowed and
\* the session goes on without a slot; a binding to a matched slot stays.
AssignToWorker(w) ==
    LET s == own[w] IN
    /\ pc[w] \in {"assign", "rotated", "matched"}
    /\ Free(w, s)
    /\ \/ /\ seen[w] = "idle" /\ vm[s] = "up"
          /\ rules' = [rules EXCEPT ![s] = @ \cup {w}]
          /\ Write(w, s, [st |-> "assigned", w |-> w])
          /\ strayed' = IF View(w, s).st = "idle" THEN strayed ELSE strayed \cup {s}
          /\ Move(w, "commit")
          /\ UNCHANGED <<own, events>>
       \/ /\ AssignUnheard(w, s) \/ UNCHANGED <<rules, strayed, events>>
          /\ Write(w, s, View(w, s))
          /\ own' = [own EXCEPT ![w] = IF pc[w] = "matched" THEN s ELSE NoSlot]
          /\ Move(w, CASE pc[w] = "rotated" -> "match"
                       [] pc[w] = "matched" -> "unassigned"
                       [] pc[w] = "assign" -> "commit")
    /\ seen' = [seen EXCEPT ![w] = "none"]
    /\ UNCHANGED <<row, vm, bound, healthVars, razing, parted>>

\* The session row and the account's binding are written with the slot.
CommitSession(w) ==
    /\ pc[w] \in {"commit", "unassigned"}
    /\ CommitRows(w)
    /\ bound' = IF w \in Pinned /\ own[w] # NoSlot THEN own[w] ELSE bound
    /\ own' = [own EXCEPT ![w] = IF pc[w] = "unassigned" THEN NoSlot ELSE @]
    /\ Move(w, "live")
    /\ UNCHANGED <<vm, rules, seen, healthVars, events, razing, strayed>>

Open(w) == pc[w] \in {"rotate", "rotated", "match", "matched", "pick", "create", "assign",
                      "unassigned", "commit"}

\* The request fails after all (database error, killed process): its rows are
\* rolled back, what it did on the VM stays.
AbortSession(w) ==
    /\ Open(w)
    /\ Event
    /\ Unlock(w)
    /\ strayed' = strayed \cup {s \in Slots : lock[s] = w /\ draft[s].w = w}
    /\ own' = [own EXCEPT ![w] = NoSlot]
    /\ seen' = [seen EXCEPT ![w] = "none"]
    /\ Move(w, "new")
    /\ UNCHANGED <<row, vm, rules, bound, healthVars, razing, parted>>

------------------------------------------------------------------------------
\* terminate_session

\* Fault: release_from_worker frees the row and leaves the route.
ReleaseKeepingRoute(w, reached) ==
    /\ pc[w] \in {"live", "ended"}
    /\ own[w] # NoSlot
    /\ lock[own[w]] = NoTx
    /\ Write(w, own[w], [st |-> "idle", w |-> NoWorker])
    /\ Move(w, IF pc[w] = "live" THEN "freeing" ELSE "again")
    /\ UNCHANGED <<row, vm, rules, bound, own, seen, healthVars, events, razing, strayed, parted>>

\* release_from_worker: the slot that the session row names is locked, and the
\* route of the worker the slot's row names is removed, whoever that is.  When the
\* call times out the exception is swallowed: the row is locked and stays, and the
\* session ends all the same.  No state of the session is looked at.
ReleaseFromWorker(w, reached) ==
    LET s == own[w] IN
    /\ pc[w] \in {"live", "ended"}
    /\ s # NoSlot
    /\ lock[s] = NoTx
    /\ \/ /\ IF reached THEN UNCHANGED events ELSE row[s].w # NoWorker /\ Event
          /\ ReleaseRoute(s, row[s].w, reached)
          /\ Write(w, s, [st |-> "idle", w |-> NoWorker])
       \/ /\ row[s].w # NoWorker /\ Event
          /\ ReleaseRaises(s, row[s].w, reached)
          /\ Write(w, s, row[s])
    /\ Move(w, IF pc[w] = "live" THEN "freeing" ELSE "again")
    /\ UNCHANGED <<row, vm, bound, own, seen, healthVars, razing, parted>>

\* terminate_session commits the slot with the session's state.
CommitTermination(w) ==
    /\ \/ pc[w] \in {"freeing", "again"}
       \/ pc[w] = "live" /\ own[w] = NoSlot
    /\ CommitRows(w)
    /\ Move(w, "ended")
    /\ UNCHANGED <<vm, rules, bound, own, seen, healthVars, events, razing, strayed>>

\* The request fails; a route that is gone stays so.
AbortTermination(w) ==
    /\ pc[w] \in {"freeing", "again"}
    /\ Event
    /\ Unlock(w)
    /\ strayed' = strayed \cup (IF draft[own[w]].w = row[own[w]].w THEN {} ELSE {own[w]})
    /\ Move(w, IF pc[w] = "freeing" THEN "live" ELSE "ended")
    /\ UNCHANGED <<row, vm, rules, bound, own, seen, healthVars, razing, parted>>

------------------------------------------------------------------------------
\* tick_pppoe_health: one transaction of the worker process

\* The IDLE, ASSIGNED and RECONNECTING nodes, read without locks.
BeginHealth ==
    LET checked == {s \in Slots : row[s].st \in {"idle", "assigned", "reconnecting"}} IN
    /\ hpc = "idle"
    /\ checked # {}
    /\ hseen' = [s \in Slots |-> IF s \in checked THEN row[s] ELSE NoRow]
    /\ hnew' = hseen'
    /\ htodo' = checked
    /\ hpc' = "check"
    /\ UNCHANGED <<row, lock, draft, vm, rules, workerVars, hleft, cap, operatorVars,
                   events, razing, strayed, parted>>

\* What check-slot.sh's answer makes of a node, as it was loaded.  A node that
\* has been RECONNECTING for five minutes is DOWN.
Judged(r, link, late) ==
    CASE link = "up" -> [r EXCEPT !.st = IF @ = "reconnecting" THEN "idle" ELSE @]
      [] link # "up" /\ r.st = "assigned" -> [st |-> "reconnecting", w |-> NoWorker]
      [] link # "up" /\ r.st = "idle" -> [r EXCEPT !.st = "reconnecting"]
      [] link # "up" /\ r.st = "reconnecting" /\ late -> [r EXCEPT !.st = "down"]
      [] OTHER -> r

\* What comes of a call of check-slot.sh: the link's state; an SSH error, which
\* counts as a link that is down; a timeout, which leaves the node as it was.
Answers == {"state", "error", "timeout"}
Reported(s, answer) == IF answer = "state" THEN vm[s] ELSE "down"

\* Fault: the route is removed only once the node is DOWN.
CheckKeepingRoute(s, late, answer, reached) ==
    LET r == hseen[s] IN
    /\ hpc = "check" /\ s \in htodo
    /\ r.st = "assigned" \/ \A x \in htodo : hseen[x].st # "assigned"
    /\ late => r.st = "reconnecting"
    /\ answer = "state"
    /\ hnew' = [hnew EXCEPT ![s] = Judged(r, vm[s], late)]
    /\ rules' = IF hnew'[s].st = "down" THEN [rules EXCEPT ![s] = {}] ELSE rules
    /\ htodo' = htodo \ {s}
    /\ UNCHANGED <<row, lock, draft, vm, workerVars, hpc, hseen, hleft, cap, operatorVars,
                   events, razing, strayed, parted>>

\* One node: the route of the worker that it was loaded with is removed at once
\* when the link counts as down.  An error of that call is caught.
CheckNode(s, late, answer, reached) ==
    LET r == hseen[s]
        link == Reported(s, answer)
    IN
    /\ hpc = "check" /\ s \in htodo
    /\ r.st = "assigned" \/ \A x \in htodo : hseen[x].st # "assigned"
    /\ late => r.st = "reconnecting"
    /\ hnew' = IF answer = "timeout" THEN hnew ELSE [hnew EXCEPT ![s] = Judged(r, link, late)]
    /\ IF answer # "timeout" /\ link # "up" /\ r.st = "assigned"
       THEN ReleaseRoute(s, r.w, reached)
       ELSE reached /\ UNCHANGED <<rules, strayed>>
    /\ IF answer = "state" /\ reached THEN UNCHANGED events ELSE Event
    /\ htodo' = htodo \ {s}
    /\ UNCHANGED <<row, lock, draft, vm, workerVars, hpc, hseen, hleft, cap, operatorVars,
                   razing, parted>>

\* flush: the columns that differ from the loaded values are updated, the row
\* being what it is by now.  A dropped session forces a warm-pool round.
FlushHealth ==
    LET nodes == {s \in Slots : hseen[s] # NoRow}
        dropped == {s \in nodes : hseen[s].st = "assigned" /\ hnew[s].st = "reconnecting"}
        Flushed(s) == Merged(hseen[s], hnew[s], row[s])
        idle == {s \in Slots : IF s \in nodes THEN Flushed(s).st = "idle" ELSE row[s].st = "idle"}
        deficit == IF Target > Cardinality(idle) THEN Target - Cardinality(idle) ELSE 0
    IN
    /\ hpc = "check" /\ htodo = {}
    /\ \A s \in nodes : lock[s] = NoTx
    /\ lock' = [s \in Slots |-> IF s \in nodes THEN Health ELSE lock[s]]
    /\ draft' = [s \in Slots |-> IF s \in nodes THEN Flushed(s) ELSE draft[s]]
    /\ strayed' = strayed \cup {s \in nodes : hnew[s] # hseen[s] /\ row[s] # hseen[s]}
    /\ hpc' = "warm"
    /\ hleft' = IF dropped = {} THEN 0
                ELSE IF deficit < BatchSize THEN deficit ELSE BatchSize
    /\ UNCHANGED <<row, vm, rules, workerVars, hseen, hnew, htodo, cap, operatorVars,
                   events, razing, parted>>

\* The warm-pool round inside the tick's transaction; a failing script ends it.
WarmInHealth(link) ==
    LET s == NextFreeSlot(Health) IN
    /\ hpc = "warm" /\ hleft > 0
    /\ Unused(Health) # {} /\ Free(Health, s)
    /\ Created(s, link)
    /\ Write(Health, s, [View(Health, s) EXCEPT !.st = StateOf(link)])
    /\ hleft' = hleft - 1
    /\ UNCHANGED <<row, rules, workerVars, hpc, hseen, hnew, htodo, cap, operatorVars,
                   events, razing, strayed, parted>>

Capacity(t) == Cardinality({s \in Slots : View(t, s).st \in {"idle", "assigned"}})

EndHealth ==
    /\ hpc' = "idle" /\ htodo' = {} /\ hleft' = 0
    /\ hseen' = [s \in Slots |-> NoRow] /\ hnew' = [s \in Slots |-> NoRow]

\* reconcile_pool_capacity holds the only commit of the tick: when no pool's
\* max_instances changes, the session is closed and everything rolled back.
ReconcilePoolCapacity ==
    /\ hpc = "warm"
    /\ \/ /\ Capacity(Health) # cap
          /\ cap' = Capacity(Health)
          /\ CommitRows(Health)
          /\ UNCHANGED strayed
       \/ /\ Capacity(Health) = cap
          /\ Unlock(Health)
          /\ strayed' = strayed \cup {s \in Slots : hseen[s].w # hnew[s].w}
          /\ UNCHANGED <<cap, row, parted>>
    /\ EndHealth
    /\ UNCHANGED <<vm, rules, workerVars, operatorVars, events, razing>>

\* The worker process dies, or a statement fails.
AbortHealth ==
    /\ hpc # "idle"
    /\ Event
    /\ Unlock(Health)
    /\ strayed' = strayed \cup {s \in Slots : hseen[s].w # hnew[s].w}
    /\ EndHealth
    /\ UNCHANGED <<row, vm, rules, workerVars, cap, operatorVars, razing, parted>>

\* tick_pppoe_warmpool as a loop of its own never commits: it counts, creates
\* slots on the VM, and its rows are rolled back with the session.
TickWarmpool ==
    LET idle == Cardinality({s \in Slots : row[s].st = "idle"})
        batch == {s \in Unused(NoTx) :
                     LET before == Cardinality({x \in Unused(NoTx) : x < s})
                     IN before < BatchSize /\ before < Target - idle}
    IN
    /\ \E s \in batch : vm[s] = "absent"
    /\ vm' = [s \in Slots |-> IF s \in batch /\ vm[s] = "absent" THEN "down" ELSE vm[s]]
    /\ UNCHANGED <<row, lock, draft, rules, workerVars, healthVars, events, razing, strayed, parted>>

------------------------------------------------------------------------------
\* Operators, and the network

\* destroy_slot, on the VM: pppd and macvlan are removed, rules of workers stay.
DestroyOnVm(s) ==
    /\ razing = {}
    /\ Ask
    /\ vm' = [vm EXCEPT ![s] = "absent"]
    /\ razing' = razing \cup {s}
    /\ strayed' = IF rules[s] = {} THEN strayed ELSE strayed \cup {s}
    /\ UNCHANGED <<row, lock, draft, rules, workerVars, tickVars, opc, oslot, oup, oseen,
                   events, parted>>

\* destroy_slot, in the database.
DestroyRow(s) ==
    /\ s \in razing
    /\ lock[s] = NoTx
    /\ razing' = razing \ {s}
    /\ row' = [row EXCEPT ![s] = IF @ = NoRow THEN @ ELSE [st |-> "destroyed", w |-> NoWorker]]
    /\ parted' = parted \cup {w \in Workers : row[s].w = w}
    /\ strayed' = IF rules[s] = {} THEN strayed ELSE strayed \cup {s}
    /\ UNCHANGED <<lock, draft, vm, rules, workerVars, healthVars, events>>

\* The scripts fail or time out: the request ends without its UPDATE.
DestroyFails(s) ==
    /\ s \in razing
    /\ razing' = razing \ {s}
    /\ UNCHANGED <<row, lock, draft, vm, rules, workerVars, healthVars, events, strayed, parted>>

\* The request ends, and its ORM object is gone.
EndRequest ==
    /\ opc' = "idle" /\ oslot' = NoSlot /\ oup' = FALSE /\ oseen' = NoRow
    /\ UNCHANGED asked

\* The provision endpoint: a slot without a row, or DOWN, or DESTROYED, read
\* without a lock.  The bound: one such request, or health check, at a time.
BeginProvision(s) ==
    /\ opc = "idle" /\ Ask
    /\ row[s].st \in {"none", "down", "destroyed"}
    /\ opc' = "create" /\ oslot' = s /\ oseen' = row[s]
    /\ UNCHANGED <<row, lock, draft, vm, rules, workerVars, tickVars, oup,
                   events, razing, strayed, parted>>

\* create-slot.sh, then the flush and the commit: an INSERT that comes second
\* fails, an UPDATE does not look at the row again.
ProvisionSlot(link) ==
    LET s == oslot IN
    /\ opc = "create"
    /\ Created(s, link)
    /\ lock[s] = NoTx
    /\ IF oseen.st = "none" /\ row[s].st # "none"
       THEN UNCHANGED <<row, strayed>>
       ELSE /\ row' = [row EXCEPT ![s].st = StateOf(link)]
            /\ strayed' = IF row[s].st = oseen.st THEN strayed ELSE strayed \cup {s}
    /\ EndRequest
    /\ UNCHANGED <<lock, draft, rules, workerVars, tickVars, events, razing, parted>>

\* health_check_slot, behind the health and rotate endpoints: check-slot.sh, an SSH
\* error counting as a link that is down;
CheckSlot(s, up) ==
    /\ opc = "idle" /\ Ask
    /\ up => vm[s] = "up"
    /\ opc' = "asked" /\ oslot' = s /\ oup' = up
    /\ UNCHANGED <<row, lock, draft, vm, rules, workerVars, tickVars, oseen,
                   events, razing, strayed, parted>>

\* the node, read without a lock;
LoadNode ==
    LET r == row[oslot] IN
    /\ opc = "asked"
    /\ r.st # "none"
    /\ oseen' = r
    /\ opc' = IF ~oup /\ r.st = "assigned" THEN "drop" ELSE "flush"
    /\ UNCHANGED <<row, lock, draft, vm, rules, workerVars, tickVars, oslot, oup, asked,
                   events, razing, strayed, parted>>

\* release-route.sh for the worker of the node as it was loaded;
DropRoute(reached) ==
    /\ opc = "drop"
    /\ ReleaseRoute(oslot, oseen.w, reached)
    /\ opc' = "flush"
    /\ UNCHANGED <<row, lock, draft, vm, workerVars, tickVars, oslot, oup, oseen, asked,
                   events, razing, parted>>

\* what becomes of that node;
Checked(r, up) ==
    CASE up /\ r.st \in {"reconnecting", "connecting", "down"} -> [r EXCEPT !.st = "idle"]
      [] ~up /\ r.st = "assigned" -> [st |-> "reconnecting", w |-> NoWorker]
      [] ~up /\ r.st = "idle" -> [r EXCEPT !.st = "reconnecting"]
      [] ~up /\ r.st \notin {"assigned", "idle"} -> [r EXCEPT !.st = "down"]
      [] OTHER -> r

\* and its flush, with the commit, whatever the row holds by then.
FlushNode ==
    LET s == oslot
        new == Checked(oseen, oup)
    IN
    /\ opc = "flush"
    /\ lock[s] = NoTx
    /\ row' = [row EXCEPT ![s] = Merged(oseen, new, @)]
    /\ parted' = parted \cup {w \in Workers : row[s].w = w /\ row'[s].w # w}
    /\ strayed' = IF new = oseen \/ row[s] = oseen THEN strayed ELSE strayed \cup {s}
    /\ EndRequest
    /\ UNCHANGED <<lock, draft, vm, rules, workerVars, tickVars, events, razing>>

\* The request has dropped the route of the worker that it loaded the slot with.
Cut(s) == opc = "flush" /\ oslot = s /\ ~oup /\ oseen.st = "assigned"

\* The request fails: a VM call times out, the slot has no row, the database gives
\* an error.  A route that it dropped is gone.
AbortRequest(reached) ==
    /\ opc # "idle"
    /\ IF opc = "drop" THEN ReleaseRaises(oslot, oseen.w, reached)
       ELSE /\ reached /\ UNCHANGED rules
            /\ strayed' = strayed \cup {s \in Slots : Cut(s)}
    /\ EndRequest
    /\ UNCHANGED <<row, lock, draft, vm, workerVars, tickVars, events, razing, parted>>

\* pppd loses its link, and gets it back by itself (persist).
LinkDown(s) ==
    /\ vm[s] = "up"
    /\ Event
    /\ vm' = [vm EXCEPT ![s] = "down"]
    /\ UNCHANGED <<row, lock, draft, rules, workerVars, healthVars, razing, strayed, parted>>

LinkUp(s) ==
    /\ vm[s] = "down"
    /\ vm' = [vm EXCEPT ![s] = "up"]
    /\ UNCHANGED <<row, lock, draft, rules, workerVars, healthVars, events, razing, strayed, parted>>

------------------------------------------------------------------------------
Links == {"down", "up"}

Acquiring(w) ==
    \/ Rotate(w) \/ Match(w) \/ Pick(w) \/ AssignToWorker(w) \/ CommitSession(w)
    \/ \E link \in Links : Create(w, link)

Request(w) ==
    \/ BeginAcquire(w) \/ Acquiring(w) \/ AbortSession(w)
    \/ CommitTermination(w) \/ AbortTermination(w)
    \/ \E reached \in BOOLEAN : ReleaseFromWorker(w, reached)

HealthStep ==
    \/ \E s \in Slots, late, reached \in BOOLEAN, answer \in Answers :
          CheckNode(s, late, answer, reached)
    \/ FlushHealth \/ ReconcilePoolCapacity
    \/ \E link \in Links : WarmInHealth(link)

Operator ==
    \/ \E s \in Slots, up \in BOOLEAN : CheckSlot(s, up)
    \/ \E s \in Slots : BeginProvision(s)
    \/ \E link \in Links : ProvisionSlot(link)
    \/ LoadNode \/ FlushNode
    \/ \E reached \in BOOLEAN : DropRoute(reached) \/ AbortRequest(reached)

Next ==
    \/ \E w \in Workers : Request(w)
    \/ BeginHealth \/ HealthStep \/ AbortHealth
    \/ TickWarmpool
    \/ \E s \in Slots :
          \/ DestroyOnVm(s) \/ DestroyRow(s) \/ DestroyFails(s)
          \/ LinkDown(s) \/ LinkUp(s)
    \/ Operator

\* Requests and ticks that have begun go on; slots, operators and the network
\* owe nothing.
Spec == Init /\ [][Next]_vars /\ WF_vars(HealthStep)
             /\ \A w \in Workers : WF_vars(Acquiring(w)) /\ WF_vars(CommitTermination(w))

------------------------------------------------------------------------------
TypeOK ==
    /\ row \in [Slots -> Row] /\ draft \in [Slots -> Row]
    /\ lock \in [Slots -> Workers \cup {Health, NoTx}]
    /\ vm \in [Slots -> {"absent", "down", "up"}]
    /\ rules \in [Slots -> SUBSET Workers]
    /\ bound \in Slots \cup {NoSlot}
    /\ pc \in [Workers -> {"new", "rotate", "rotated", "match", "matched", "pick", "create",
                           "assign", "unassigned", "commit", "live", "freeing", "ended", "again"}]
    /\ own \in [Workers -> Slots \cup {NoSlot}]
    /\ seen \in [Workers -> States]
    /\ hpc \in {"idle", "check", "warm"}
    /\ hseen \in [Slots -> Row] /\ hnew \in [Slots -> Row]
    /\ htodo \subseteq Slots /\ hleft \in 0 .. BatchSize /\ cap \in 0 .. MaxSlots
    /\ events \in 0 .. MaxEvents
    /\ opc \in {"idle", "create", "asked", "drop", "flush"}
    /\ oslot \in Slots \cup {NoSlot} /\ oup \in BOOLEAN /\ oseen \in Row
    /\ asked \in 0 .. MaxAsked
    /\ razing \subseteq Slots /\ strayed \subseteq Slots /\ parted \subseteq Workers

\* A residential address is one worker's: no slot routes two workers, unless
\* its row and its VM were made to differ before (the events of `strayed`: a
\* transaction that fails after its VM call, a VM call whose effect or failure
\* nobody learns, a stale row that is written, a slot destroyed under a worker).
OneWorkerPerExit == \A s \in Slots \ strayed : \A v, w \in rules[s] : v = w

\* The session whose row says it has a slot is routed through it, and an idle
\* slot routes nobody, when nobody is at work on the slot and it never strayed.
RouteAsRecorded ==
    \A s \in Slots \ (strayed \cup razing) :
        lock[s] = NoTx /\ oslot # s /\ ~(hpc = "check" /\ hseen[s].st = "assigned") =>
            rules[s] = IF row[s].st = "assigned" THEN {row[s].w} ELSE {}

\* terminate_session frees whatever slot the session's row names, and may be
\* repeated.  It evicts another session only once its own has parted with the slot:
\* a session's first termination when a health check, an operator or another
\* termination took the slot, a repeated one also after its own gave it back.
EvictorHadParted ==
    [][\A w \in Workers :
          /\ <<pc[w], pc'[w]>> \in {<<"live", "freeing">>, <<"ended", "again">>}
          /\ own[w] \notin strayed
          /\ row[own[w]].w \notin {w, NoWorker}
          => w \in parted]_vars

------------------------------------------------------------------------------
\* The inductive invariant

\* The routes that a row stands for, and a row that names a worker just when it
\* is assigned.
Routed(r) == IF r.st = "assigned" THEN {r.w} ELSE {}
Sound(r)  == r.st = "assigned" <=> r.w # NoWorker

\* The row of slot s as its last writer left it, committed or not.
Latest(s) == IF lock[s] = NoTx THEN row[s] ELSE draft[s]

\* The health tick has removed the route of the worker it loaded slot s with,
\* and has not flushed that yet.
Dropped(s) == hpc = "check" /\ hseen[s].st = "assigned" /\ hnew[s] # hseen[s]
Gone(s)    == IF Dropped(s) THEN {hseen[s].w} ELSE {}

\* The same for the operator's request.
Lost(s) == IF Cut(s) THEN {oseen.w} ELSE {}

\* A worker that has had its session committed, and never asks again.
Served(w) == pc[w] \in {"live", "freeing", "ended", "again"}

\* On a slot that never strayed, the VM routes whom the latest write names.
RouteFollowsWrite ==
    \A s \in Slots \ strayed : rules[s] = Routed(Latest(s)) \ (Gone(s) \cup Lost(s))

\* Its rows are sound: the committed one, the draft, the one the tick loaded.
RowsAreSound ==
    \A s \in Slots \ strayed :
        /\ Sound(row[s]) /\ Sound(hseen[s])
        /\ lock[s] # NoTx => Sound(draft[s])

\* Committed rows, loaded rows and drafts name workers that were served, apart
\* from the draft of the worker that is about to be.
NamedIsServed ==
    \A s \in Slots, w \in Workers :
        /\ row[s].w = w \/ hseen[s].w = w \/ oseen.w = w => Served(w)
        /\ lock[s] # NoTx /\ draft[s].w = w => Served(w) \/ (lock[s] = w /\ pc[w] = "commit")

\* Where a request stands tells its slot and what it has read of it.
RequestShape ==
    \A w \in Workers :
        /\ pc[w] \in {"rotate", "rotated", "matched", "create", "assign", "unassigned",
                      "freeing", "again"} => own[w] \in Slots
        /\ pc[w] = "rotate" => seen[w] \in {"down", "destroyed"}
        /\ pc[w] = "create" => seen[w] \in {"none", "destroyed"}
        /\ pc[w] = "commit" /\ own[w] # NoSlot =>
              lock[own[w]] = w /\ draft[own[w]] = [st |-> "assigned", w |-> w]

\* Where a transaction stands tells which rows it has locked, and a draft that
\* is rolled back without straying stands for the same routes as the row.
LockShape ==
    \A s \in Slots :
        /\ lock[s] = Health => hpc = "warm"
        /\ lock[s] = Health /\ s \notin strayed =>
              Routed(draft[s]) = Routed(row[s]) \/ hseen[s].w # hnew[s].w
        /\ \A w \in Workers : lock[s] = w =>
              \/ /\ Open(w)
                 /\ s \in strayed \/ draft[s] = [st |-> "assigned", w |-> w]
                    \/ Routed(draft[s]) = Routed(row[s])
              \/ /\ pc[w] \in {"freeing", "again"} /\ s = own[w]
                 /\ draft[s] \in {row[s], [st |-> "idle", w |-> NoWorker]}

\* What the health tick makes of a row that it loaded: the same, a dropped
\* session, or another state of a slot without a worker.
HealthShape ==
    /\ \A s \in Slots :
          /\ s \in htodo => hpc = "check" /\ hnew[s] = hseen[s]
          /\ hpc = "warm" /\ hseen[s] # NoRow => lock[s] = Health
          /\ hnew[s].w \in {hseen[s].w, NoWorker}
    /\ \A s \in Slots \ strayed :
          \/ hnew[s] = hseen[s]
          \/ hseen[s].st = "assigned" /\ hnew[s] = [st |-> "reconnecting", w |-> NoWorker]
          \/ hseen[s].st # "assigned" /\ hnew[s].st # "assigned" /\ hnew[s].w = hseen[s].w

\* Where an operator's request stands tells its slot and what it has read of it.
OperatorShape ==
    /\ opc # "idle" => oslot \in Slots
    /\ opc = "create" => oseen.st \in {"none", "down", "destroyed"}
    /\ opc = "drop" => ~oup /\ oseen.st = "assigned"

\* A session that has a slot has not parted with it unless that is recorded.
SessionHasSlot ==
    \A w \in Workers :
        Served(w) /\ own[w] # NoSlot =>
            own[w] \in strayed \/ w \in parted \/ row[own[w]].w = w

IInv ==
    /\ TypeOK
    /\ RouteFollowsWrite
    /\ RowsAreSound
    /\ NamedIsServed
    /\ RequestShape
    /\ LockShape
    /\ HealthShape
    /\ OperatorShape
    /\ SessionHasSlot
=============================================================================
