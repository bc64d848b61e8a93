--------------------------- MODULE PppoeSlotsProofs ---------------------------
(* Proofs about PppoeSlots, for every set of workers, every number of slots   *)
(* and any number of disturbances.                                            *)
EXTENDS PppoeSlots, FiniteSetTheorems, WellFoundedInduction, TLAPS

\* Slots are natural numbers, and NoSlot is none of them.
LEMMA SlotFacts == Slots \subseteq Nat /\ NoSlot \notin Slots /\ NoSlot \in Nat
  BY SlotsAssumption DEF Slots, NoSlot

\* _next_free_slot finds a slot when there is one.
LEMMA NextFreeSlotIsUnused ==
    ASSUME NEW t, Unused(t) # {}
    PROVE  NextFreeSlot(t) \in Unused(t)
  <1>1. IsWellFoundedOn(OpToRel(<, Nat), Nat)
    BY NatLessThanWellFounded
  <1>2. \A x, y \in Nat : y < x => <<y, x>> \in OpToRel(<, Nat)
    BY DEF OpToRel
  <1>3. PICK R : IsWellFoundedOn(R, Nat) /\ \A x, y \in Nat : y < x => <<y, x>> \in R
    BY <1>1, <1>2, Zenon
  <1>4. Unused(t) \subseteq Nat
    BY SlotFacts DEF Unused
  <1>5. PICK x \in Unused(t) : \A y \in Unused(t) : <<y, x>> \notin R
    BY <1>3, <1>4, WFMin
  <1>6. \A y \in Unused(t) : ~(y < x)
    BY <1>3, <1>4, <1>5, Zenon
  <1>7. \A y \in Unused(t) : x <= y
    BY <1>4, <1>6
  <1> QED BY <1>7 DEF NextFreeSlot

\* The inductive invariant holds initially.
LEMMA InitIInv == Init => IInv
  <1> SUFFICES ASSUME Init PROVE IInv
    OBVIOUS
  <1>1. NoRow \in Row /\ NoRow.st = "none" /\ NoRow.w = NoWorker
    BY DEF NoRow, Row, States
  <1>2. TypeOK
    <2>1. /\ hleft \in 0 .. BatchSize /\ cap \in 0 .. MaxSlots
          /\ events \in 0 .. MaxEvents /\ asked \in 0 .. MaxAsked
      BY SlotsAssumption DEF Init
    <2>2. seen \in [Workers -> States]
      BY DEF Init, States
    <2> QED BY <1>1, <2>1, <2>2 DEF Init, TypeOK
  <1>3. RouteFollowsWrite /\ RowsAreSound
    BY <1>1 DEF Init, RouteFollowsWrite, Routed, Latest, RowsAreSound, Sound
  <1>4. NamedIsServed
    BY <1>1, OwnersAssumption DEF Init, NamedIsServed
  <1>5. RequestShape /\ LockShape /\ HealthShape /\ OperatorShape /\ SessionHasSlot
    BY OwnersAssumption DEF Init, RequestShape, LockShape, HealthShape, OperatorShape,
           SessionHasSlot
  <1> QED BY <1>2, <1>3, <1>4, <1>5 DEF IInv

\* A PPP link comes or goes, or the warm pool creates one: no row, no route.
LEMMA LinkIInv ==
    ASSUME IInv, TickWarmpool \/ \E s \in Slots : LinkDown(s) \/ LinkUp(s)
    PROVE  IInv'
  <1> USE DEF IInv
  <1>0. UNCHANGED <<row, lock, draft, rules, bound, pc, own, seen, hpc, hseen, hnew, htodo,
                    hleft, cap, opc, oslot, oup, oseen, asked, razing, strayed, parted>>
    BY DEF TickWarmpool, LinkDown, LinkUp, workerVars, healthVars
  <1>1. TypeOK'
    <2>1. vm' \in [Slots -> {"absent", "down", "up"}]
      <3>1. CASE TickWarmpool
        BY <3>1 DEF TickWarmpool, TypeOK
      <3>2. CASE \E s \in Slots : LinkDown(s) \/ LinkUp(s)
        BY <3>2 DEF LinkDown, LinkUp, TypeOK
      <3> QED BY <3>1, <3>2
    <2>2. events' \in 0 .. MaxEvents
      BY SlotsAssumption DEF TickWarmpool, LinkDown, LinkUp, Event, TypeOK
    <2> QED BY <1>0, <2>1, <2>2 DEF TypeOK
  <1>2. RouteFollowsWrite' /\ RowsAreSound'
    BY <1>0 DEF RouteFollowsWrite, RowsAreSound, Latest, Gone, Dropped, Lost, Cut, Routed, Sound
  <1>3. NamedIsServed' /\ RequestShape'
    BY <1>0 DEF NamedIsServed, RequestShape, Served
  <1>4. LockShape'
    <2>1. LockShape /\ \A v \in Workers : Open(v)' = Open(v)
      BY <1>0 DEF Open
    <2>2. \A s \in Slots : Routed(draft[s])' = Routed(draft[s]) /\ Routed(row[s])' = Routed(row[s])
      BY <1>0 DEF Routed
    <2> HIDE DEF IInv
    <2> QED BY <1>0, <2>1, <2>2 DEF LockShape
  <1>5. HealthShape' /\ OperatorShape' /\ SessionHasSlot'
    BY <1>0 DEF HealthShape, OperatorShape, SessionHasSlot, Served
  <1> QED BY <1>1, <1>2, <1>3, <1>4, <1>5

\* An operator's destroy reaches the VM first: a slot that routed somebody strays.
LEMMA DestroyOnVmIInv ==
    ASSUME IInv, NEW s \in Slots, DestroyOnVm(s)
    PROVE  IInv'
  <1> USE SlotsAssumption DEF IInv, DestroyOnVm, Ask, workerVars, tickVars
  <1>1. TypeOK'
    BY DEF TypeOK
  <1>2. RouteFollowsWrite'
    BY DEF RouteFollowsWrite, Latest, Gone, Dropped, Lost, Cut
  <1>3. RowsAreSound'
    BY DEF RowsAreSound
  <1>4. NamedIsServed'
    BY DEF NamedIsServed, Served
  <1>5. RequestShape'
    BY DEF RequestShape
  <1>6. LockShape'
    BY DEF LockShape, Open
  <1>7. HealthShape' /\ OperatorShape'
    BY DEF HealthShape, OperatorShape
  <1>8. SessionHasSlot'
    BY DEF SessionHasSlot, Served
  <1> QED BY <1>1, <1>2, <1>3, <1>4, <1>5, <1>6, <1>7, <1>8

\* Requests that have begun and not been committed, by where they stand.
LEMMA OpenIsNotServed ==
    ASSUME NEW w \in Workers, Open(w)
    PROVE  ~Served(w) /\ pc[w] \notin {"freeing", "again"}
  BY DEF Open, Served

\* A request that goes on without writing a row changes nothing that the slots'
\* part of the invariant speaks of.
LEMMA QuietMove ==
    ASSUME IInv, NEW w \in Workers, ~Served(w), pc[w] # "commit", Open(w)',
           \A v \in Workers \ {w} : pc'[v] = pc[v] /\ own'[v] = own[v],
           UNCHANGED <<row, lock, draft, rules, healthVars, strayed, parted>>
    PROVE  /\ RouteFollowsWrite' /\ RowsAreSound' /\ NamedIsServed'
           /\ LockShape' /\ HealthShape' /\ OperatorShape' /\ SessionHasSlot'
  <1> USE DEF IInv, healthVars
  <1>a. \A v \in Workers : Served(v)' = Served(v)
    BY DEF Served, Open
  <1>1. RouteFollowsWrite'
    BY DEF RouteFollowsWrite, Latest, Gone, Dropped, Lost, Cut
  <1>2. RowsAreSound'
    BY DEF RowsAreSound
  <1>3. NamedIsServed'
    BY <1>a DEF NamedIsServed
  <1>4. LockShape'
    BY DEF LockShape, Open, Served
  <1>5. HealthShape' /\ OperatorShape'
    BY DEF HealthShape, OperatorShape
  <1>6. SessionHasSlot'
    BY DEF SessionHasSlot, Served, Open
  <1> QED BY <1>1, <1>2, <1>3, <1>4, <1>5, <1>6

\* Rows that others have locked stay theirs; so the invariant's part about
\* requests need only be looked at for the request that moves.
LEMMA OtherRequests ==
    ASSUME IInv, NEW w \in Workers,
           \A v \in Workers \ {w} : pc'[v] = pc[v] /\ own'[v] = own[v] /\ seen'[v] = seen[v],
           \A x \in Slots : lock[x] \notin {NoTx, w} => lock'[x] = lock[x] /\ draft'[x] = draft[x],
           pc'[w] \in {"rotate", "rotated", "matched", "create", "assign", "unassigned",
                       "freeing", "again"} => own'[w] \in Slots,
           pc'[w] = "rotate" => seen'[w] \in {"down", "destroyed"},
           pc'[w] = "create" => seen'[w] \in {"none", "destroyed"},
           pc'[w] = "commit" /\ own'[w] # NoSlot =>
              lock'[own'[w]] = w /\ draft'[own'[w]] = [st |-> "assigned", w |-> w]
    PROVE  RequestShape'
  <1>1. ASSUME NEW v \in Workers \ {w}, pc[v] = "commit", own[v] # NoSlot
        PROVE  lock'[own[v]] = v /\ draft'[own[v]] = [st |-> "assigned", w |-> v]
    <2>1. own[v] \in Slots
      BY <1>1 DEF IInv, TypeOK
    <2>2. lock[own[v]] = v /\ draft[own[v]] = [st |-> "assigned", w |-> v]
      BY <1>1 DEF IInv, RequestShape
    <2> QED BY <2>1, <2>2, OwnersAssumption
  <1>2. ASSUME NEW v \in Workers \ {w}
        PROVE  /\ pc[v] \in {"rotate", "rotated", "matched", "create", "assign", "unassigned",
                             "freeing", "again"} => own[v] \in Slots
               /\ pc[v] = "rotate" => seen[v] \in {"down", "destroyed"}
               /\ pc[v] = "create" => seen[v] \in {"none", "destroyed"}
    BY DEF IInv, RequestShape
  <1> SUFFICES ASSUME NEW v \in Workers
               PROVE  /\ pc'[v] \in {"rotate", "rotated", "matched", "create", "assign",
                                     "unassigned", "freeing", "again"} => own'[v] \in Slots
                      /\ pc'[v] = "rotate" => seen'[v] \in {"down", "destroyed"}
                      /\ pc'[v] = "create" => seen'[v] \in {"none", "destroyed"}
                      /\ pc'[v] = "commit" /\ own'[v] # NoSlot =>
                           /\ lock'[own'[v]] = v
                           /\ draft'[own'[v]] = [st |-> "assigned", w |-> v]
    BY DEF RequestShape
  <1>3. CASE v # w
    BY <1>1, <1>2, <1>3
  <1>4. CASE v = w
    BY <1>4
  <1> QED BY <1>3, <1>4

\* Reading a binding, or matching an address: the request learns a slot and
\* locks nothing.
LEMMA ReadIInv ==
    ASSUME IInv, NEW w \in Workers, BeginAcquire(w) \/ Match(w)
    PROVE  IInv'
  <1> USE SlotFacts, OwnersAssumption DEF IInv, BeginAcquire, Match, Move, healthVars
  <1>0. pc[w] \in {"new", "match"} /\ pc'[w] \in {"rotate", "assign", "pick", "matched"}
        /\ \A v \in Workers \ {w} : pc'[v] = pc[v] /\ own'[v] = own[v] /\ seen'[v] = seen[v]
    BY DEF TypeOK
  <1>1. TypeOK'
    <2>1. \A s \in Slots : row[s].st \in States
      BY DEF TypeOK, Row
    <2>2. own' \in [Workers -> Slots \cup {NoSlot}] /\ seen' \in [Workers -> States]
      BY <2>1 DEF TypeOK, States
    <2>3. pc' \in [Workers -> {"new", "rotate", "rotated", "match", "matched", "pick", "create",
                               "assign", "unassigned", "commit", "live", "freeing", "ended", "again"}]
      BY DEF TypeOK
    <2> QED BY <2>2, <2>3 DEF TypeOK
  <1>2. pc'[w] \in {"rotate", "assign", "matched"} => own'[w] \in Slots
    BY DEF TypeOK
  <1>3. pc'[w] = "rotate" => seen'[w] \in {"down", "destroyed"}
    BY DEF TypeOK
  <1>4. RequestShape'
    BY <1>0, <1>2, <1>3, OtherRequests
  <1>5. ~Served(w) /\ pc[w] # "commit" /\ Open(w)'
    BY <1>0 DEF Served, Open
  <1> QED BY <1>0, <1>1, <1>4, <1>5, QuietMove

\* A request locks a row, and writes it: on a slot that has not strayed the row
\* that it writes stands for the routes that the committed one and the latest one
\* stand for.
LEMMA SameRoutes ==
    ASSUME IInv, NEW w \in Workers, NEW s \in Slots, NEW r \in Row,
           Free(w, s), Write(w, s, r),
           Open(w), pc[w] # "commit", Open(w)',
           \A v \in Workers \ {w} : pc'[v] = pc[v] /\ own'[v] = own[v],
           UNCHANGED <<row, healthVars, parted>>,
           \A x \in Slots \ {s} : rules'[x] = rules[x],
           strayed \subseteq strayed',
           s \notin strayed' => /\ Sound(r) /\ rules'[s] = rules[s]
                                /\ Routed(r) = Routed(row[s]) /\ Routed(r) = Routed(Latest(s)),
           r.w \in {row[s].w, View(w, s).w}
    PROVE  /\ RouteFollowsWrite' /\ RowsAreSound' /\ NamedIsServed'
           /\ LockShape' /\ HealthShape' /\ OperatorShape' /\ SessionHasSlot'
  <1> USE OwnersAssumption DEF IInv, healthVars
  <1>a. /\ lock'[s] = w /\ draft'[s] = r
        /\ \A x \in Slots \ {s} : lock'[x] = lock[x] /\ draft'[x] = draft[x]
    BY DEF Write, TypeOK
  <1>b. lock[s] \in {NoTx, w} /\ w # Health /\ w # NoTx
    BY DEF Free
  <1>c. \A v \in Workers : Served(v)' = Served(v)
    BY DEF Served, Open
  <1>1. RouteFollowsWrite'
    <2> SUFFICES ASSUME NEW x \in Slots \ strayed'
                 PROVE  rules'[x] = Routed(Latest(x))' \ (Gone(x) \cup Lost(x))
      BY DEF RouteFollowsWrite, Gone, Dropped, Lost, Cut
    <2>1. CASE x = s
      BY <1>a DEF RouteFollowsWrite, Latest
    <2>2. CASE x # s
      BY <1>a DEF RouteFollowsWrite, Latest
    <2> QED BY <2>1, <2>2
  <1>2. RowsAreSound'
    BY <1>a DEF RowsAreSound
  <1>3. NamedIsServed'
    <2> SUFFICES ASSUME NEW x \in Slots, NEW v \in Workers
                 PROVE  /\ row[x].w = v \/ hseen[x].w = v \/ oseen.w = v => Served(v)
                        /\ lock'[x] # NoTx /\ draft'[x].w = v
                              => Served(v) \/ (lock'[x] = v /\ pc'[v] = "commit")
      BY <1>c DEF NamedIsServed
    <2>1. CASE x = s
      BY <1>a DEF NamedIsServed, View
    <2>2. CASE x # s
      BY <2>2, <1>a DEF NamedIsServed
    <2> QED BY <2>1, <2>2
  <1>4. LockShape'
    <2>1. \A v \in Workers \ {w} : Open(v)' = Open(v)
      BY DEF Open
    <2>2. \A x \in Slots \ {s} : lock[x] = w => x \in strayed
             \/ draft[x] = [st |-> "assigned", w |-> w]
             \/ Routed(draft[x]) = Routed(row[x])
      BY OpenIsNotServed DEF LockShape
    <2>3. ASSUME NEW x \in Slots
          PROVE  /\ lock'[x] = Health => hpc = "warm"
                 /\ lock'[x] = Health /\ x \notin strayed' =>
                      Routed(draft'[x]) = Routed(row[x]) \/ hseen[x].w # hnew[x].w
      BY <1>a DEF LockShape
    <2>4. ASSUME NEW x \in Slots, NEW v \in Workers, lock'[x] = v
          PROVE  \/ /\ Open(v)'
                    /\ x \in strayed' \/ draft'[x] = [st |-> "assigned", w |-> v]
                       \/ Routed(draft'[x]) = Routed(row[x])
                 \/ /\ pc'[v] \in {"freeing", "again"} /\ x = own'[v]
                    /\ draft'[x] \in {row'[x], [st |-> "idle", w |-> NoWorker]}
      <3>1. CASE x = s
        BY <2>4, <3>1, <1>a
      <3>2. CASE x # s /\ v = w
        BY <2>4, <3>2, <1>a, <2>2
      <3>3. CASE x # s /\ v # w
        BY <2>4, <3>3, <1>a, <2>1 DEF LockShape
      <3> QED BY <3>1, <3>2, <3>3
    <2>5. \A x \in Slots : Routed(draft[x])' = Routed(draft'[x]) /\ Routed(row[x])' = Routed(row[x])
      OBVIOUS
    <2> HIDE DEF IInv
    <2> QED BY <2>3, <2>4, <2>5 DEF LockShape
  <1>5. HealthShape' /\ OperatorShape'
    BY <1>a, <1>b DEF HealthShape, OperatorShape
  <1>6. SessionHasSlot'
    BY DEF SessionHasSlot, Served, Open
  <1> QED BY <1>1, <1>2, <1>3, <1>4, <1>5, <1>6

\* What a request that has not come to its commit has written stands for the same
\* routes as the committed row.
LEMMA OwnDraft ==
    ASSUME IInv, NEW w \in Workers, Open(w), pc[w] # "commit",
           NEW s \in Slots \ strayed, lock[s] = w
    PROVE  Routed(draft[s]) = Routed(row[s])
  <1>1. draft[s] # [st |-> "assigned", w |-> w]
    <2>1. lock[s] # NoTx /\ ~Served(w)
      BY OwnersAssumption, OpenIsNotServed
    <2>2. draft[s].w # w
      BY <2>1 DEF IInv, NamedIsServed
    <2> QED BY <2>2
  <1> QED BY <1>1, OpenIsNotServed DEF IInv, LockShape

\* A row that changes its state only.
LEMMA StateChange ==
    ASSUME NEW r \in Row, NEW st \in States
    PROVE  /\ [r EXCEPT !.st = st] \in Row
           /\ [r EXCEPT !.st = st].st = st
           /\ [r EXCEPT !.st = st].w = r.w
  BY DEF Row

\* Rotate: the slot's row becomes IDLE, as far as nobody changed it meanwhile.
LEMMA RotateIInv ==
    ASSUME IInv, NEW w \in Workers, Rotate(w)
    PROVE  IInv'
  <1> USE SlotFacts, OwnersAssumption DEF IInv
  <1>0. /\ pc[w] = "rotate" /\ pc'[w] \in {"rotated", "match"} /\ own[w] \in Slots /\ own' = own
        /\ \A v \in Workers \ {w} : pc'[v] = pc[v] /\ own'[v] = own[v] /\ seen'[v] = seen[v]
    <2>1. pc[w] = "rotate" /\ own' = own
      BY DEF Rotate
    <2>2. own[w] \in Slots
      BY <2>1 DEF RequestShape
    <2>3. pc'[w] \in {"rotated", "match"} /\ \A v \in Workers \ {w} : pc'[v] = pc[v]
      BY DEF Rotate, Move, TypeOK
    <2>4. \A v \in Workers \ {w} : seen'[v] = seen[v]
      BY DEF Rotate, TypeOK
    <2> QED BY <2>1, <2>2, <2>3, <2>4
  <1>1. ~Served(w) /\ Open(w) /\ Open(w)'
    BY <1>0 DEF Served, Open
  <1>2. CASE pc'[w] = "match"
    <2>1. TypeOK'
      BY <1>2 DEF Rotate, Move, TypeOK, healthVars
    <2>2. UNCHANGED <<row, lock, draft, rules, healthVars, strayed, parted>>
      BY <1>2 DEF Rotate, Move, TypeOK
    <2>3. RequestShape'
      BY <1>0, <1>2, <2>2, OtherRequests
    <2> QED BY <1>0, <1>1, <2>1, <2>2, <2>3, QuietMove
  <1>3. CASE pc'[w] = "rotated"
    <2> DEFINE s == own[w]
               r == [row[s] EXCEPT !.st = "idle"]
    <2>1. /\ Free(w, s) /\ Write(w, s, r)
          /\ vm' = [vm EXCEPT ![s] = "up"]
          /\ strayed' = IF row[s].st = seen[w] THEN strayed ELSE strayed \cup {s}
          /\ seen' = [seen EXCEPT ![w] = "idle"]
          /\ pc' = [pc EXCEPT ![w] = "rotated"]
          /\ UNCHANGED <<row, rules, bound, own, healthVars, events, razing, parted>>
      BY <1>3 DEF Rotate, Move, TypeOK
    <2>2. row[s] \in Row /\ r \in Row /\ r.st = "idle" /\ r.w = row[s].w
      <3>1. row[s] \in Row /\ "idle" \in States
        BY <1>0 DEF TypeOK, States
      <3> QED BY <3>1, StateChange
    <2>3. TypeOK'
      BY <1>0, <2>1, <2>2 DEF Write, TypeOK, States, healthVars
    <2>4. s \notin strayed' => /\ Sound(r) /\ Routed(r) = {}
                               /\ Routed(row[s]) = {} /\ Routed(Latest(s)) = {}
      <3> SUFFICES ASSUME s \notin strayed' PROVE /\ Sound(r) /\ Routed(r) = {}
                               /\ Routed(row[s]) = {} /\ Routed(Latest(s)) = {}
        OBVIOUS
      <3>1. s \notin strayed /\ row[s].st \in {"down", "destroyed"}
        BY <1>0, <2>1 DEF RequestShape
      <3>2. row[s].w = NoWorker
        BY <1>0, <3>1 DEF RowsAreSound, Sound
      <3>3. lock[s] = w => Routed(draft[s]) = {}
        BY <1>0, <1>1, <3>1, OwnDraft DEF Routed
      <3> QED BY <2>1, <3>1, <3>2, <3>3 DEF Sound, Routed, Latest, Free
    <2>5. \A x \in Slots : lock[x] \notin {NoTx, w} => lock'[x] = lock[x] /\ draft'[x] = draft[x]
      BY <2>1 DEF Write, Free
    <2>6. RequestShape'
      BY <1>0, <1>3, <2>1, <2>5, OtherRequests
    <2> HIDE DEF r, s
    <2> QED BY <1>0, <1>1, <2>1, <2>2, <2>3, <2>4, <2>6, SameRoutes DEF s
  <1> QED BY <1>0, <1>2, <1>3

\* A request that is rolled back: where its row or its draft named a worker the
\* slot strays, elsewhere row and draft stand for the same routes.
LEMMA RequestRollBack ==
    ASSUME IInv, NEW w \in Workers, Open(w), Unlock(w), pc'[w] = "new",
           \A v \in Workers \ {w} : pc'[v] = pc[v] /\ own'[v] = own[v],
           UNCHANGED <<row, rules, healthVars, parted>>,
           strayed \subseteq strayed',
           \A s \in Slots : lock[s] = w /\ draft[s].w = w => s \in strayed'
    PROVE  /\ RouteFollowsWrite' /\ RowsAreSound' /\ NamedIsServed'
           /\ LockShape' /\ HealthShape' /\ OperatorShape' /\ SessionHasSlot'
  <1> USE OwnersAssumption DEF IInv, healthVars
  <1>a. /\ \A x \in Slots : lock[x] = w => lock'[x] = NoTx
        /\ \A x \in Slots : lock[x] # w => lock'[x] = lock[x] /\ draft'[x] = draft[x]
    BY DEF Unlock
  <1>b. \A v \in Workers : Served(v)' = Served(v)
    BY OpenIsNotServed DEF Served
  <1>c. ASSUME NEW x \in Slots \ strayed', lock[x] = w
        PROVE  Routed(draft[x]) = Routed(row[x])
    <2>1. draft[x] # [st |-> "assigned", w |-> w] /\ x \notin strayed
      BY <1>c
    <2> QED BY <1>c, <2>1, OpenIsNotServed DEF LockShape
  <1>1. RouteFollowsWrite'
    <2> SUFFICES ASSUME NEW x \in Slots \ strayed'
                 PROVE  rules[x] = Routed(Latest(x))' \ (Gone(x) \cup Lost(x))
      BY DEF RouteFollowsWrite, Gone, Dropped, Lost, Cut
    <2>1. CASE lock[x] = w
      BY <1>a, <1>c DEF RouteFollowsWrite, Latest
    <2>2. CASE lock[x] # w
      BY <2>2, <1>a DEF RouteFollowsWrite, Latest
    <2> QED BY <2>1, <2>2
  <1>2. RowsAreSound'
    BY <1>a DEF RowsAreSound
  <1>3. NamedIsServed'
    <2> SUFFICES ASSUME NEW x \in Slots, NEW v \in Workers
                 PROVE  /\ row[x].w = v \/ hseen[x].w = v \/ oseen.w = v => Served(v)
                        /\ lock'[x] # NoTx /\ draft'[x].w = v
                              => Served(v) \/ (lock'[x] = v /\ pc'[v] = "commit")
      BY <1>b DEF NamedIsServed
    <2>1. CASE lock[x] = w
      BY <1>a DEF NamedIsServed
    <2>2. CASE lock[x] # w
      BY <1>a DEF NamedIsServed
    <2> QED BY <2>1, <2>2
  <1>4. LockShape'
    <2>1. \A v \in Workers \ {w} : Open(v)' = Open(v)
      BY DEF Open
    <2>2. ASSUME NEW x \in Slots
          PROVE  /\ lock'[x] = Health => hpc = "warm"
                 /\ lock'[x] = Health /\ x \notin strayed' =>
                      Routed(draft'[x]) = Routed(row[x]) \/ hseen[x].w # hnew[x].w
      BY <1>a DEF LockShape
    <2>3. ASSUME NEW x \in Slots, NEW v \in Workers, lock'[x] = v
          PROVE  \/ /\ Open(v)'
                    /\ x \in strayed' \/ draft'[x] = [st |-> "assigned", w |-> v]
                       \/ Routed(draft'[x]) = Routed(row[x])
                 \/ /\ pc'[v] \in {"freeing", "again"} /\ x = own'[v]
                    /\ draft'[x] \in {row'[x], [st |-> "idle", w |-> NoWorker]}
      <3>1. lock[x] = v /\ v # w /\ draft'[x] = draft[x]
        BY <2>3, <1>a
      <3> QED BY <3>1, <2>1 DEF LockShape
    <2> QED BY <2>2, <2>3 DEF LockShape
  <1>5. HealthShape' /\ OperatorShape'
    BY <1>a DEF HealthShape, OperatorShape
  <1>6. SessionHasSlot'
    BY DEF SessionHasSlot, Served
  <1> QED BY <1>1, <1>2, <1>3, <1>4, <1>5, <1>6

\* A row has one of the states.
LEMMA RowStates ==
    ASSUME TypeOK, NEW t, NEW s \in Slots
    PROVE  row[s] \in Row /\ View(t, s) \in Row /\ View(t, s).st \in States /\ row[s].st \in States
  BY DEF TypeOK, View, Row

\* Pick: an idle slot is locked, or a free one is to be created, or none.
LEMMA PickIInv ==
    ASSUME IInv, NEW w \in Workers, Pick(w)
    PROVE  IInv'
  <1> USE SlotFacts, OwnersAssumption DEF IInv
  <1>0. /\ pc[w] = "pick" /\ Open(w) /\ ~Served(w)
        /\ UNCHANGED <<row, vm, rules, bound, healthVars, events, razing, strayed, parted>>
    BY DEF Pick, Open, Served
  <1>1. ASSUME NEW s \in IdleNodes(w), Write(w, s, View(w, s)),
               own' = [own EXCEPT ![w] = s], seen' = [seen EXCEPT ![w] = "idle"],
               Move(w, "assign")
        PROVE  IInv'
    <2> DEFINE r == View(w, s)
    <2>1. /\ s \in Slots /\ Free(w, s) /\ r \in Row /\ r.st = "idle"
      BY RowStates DEF IdleNodes
    <2>2. /\ pc'[w] = "assign" /\ own'[w] = s
          /\ \A v \in Workers \ {w} : pc'[v] = pc[v] /\ own'[v] = own[v] /\ seen'[v] = seen[v]
      BY <1>1 DEF Move, TypeOK
    <2>3. TypeOK'
      BY <1>0, <1>1, <2>1 DEF Move, Write, TypeOK, States, healthVars
    <2>4. s \notin strayed' => /\ Sound(r) /\ Routed(r) = {}
                               /\ Routed(row[s]) = {} /\ Routed(Latest(s)) = {}
      <3> SUFFICES ASSUME s \notin strayed PROVE /\ Sound(r) /\ Routed(r) = {}
                               /\ Routed(row[s]) = {} /\ Routed(Latest(s)) = {}
        BY <1>0
      <3>1. CASE lock[s] = w
        BY <1>0, <2>1, <3>1, OwnDraft DEF View, Latest, RowsAreSound, Routed
      <3>2. CASE lock[s] = NoTx
        BY <2>1, <3>2 DEF View, Latest, Routed, RowsAreSound
      <3> QED BY <2>1, <3>1, <3>2 DEF Free
    <2>5. \A x \in Slots : lock[x] \notin {NoTx, w} => lock'[x] = lock[x] /\ draft'[x] = draft[x]
      BY <1>1, <2>1 DEF Write, Free
    <2>6. RequestShape'
      BY <2>1, <2>2, <2>5, OtherRequests
    <2>7. Open(w)' /\ pc[w] # "commit"
      BY <1>0, <2>2 DEF Open
    <2>8. UNCHANGED <<row, rules, healthVars, parted>> /\ strayed \subseteq strayed'
      BY <1>0
    <2>9. /\ RouteFollowsWrite' /\ RowsAreSound' /\ NamedIsServed'
          /\ LockShape' /\ HealthShape' /\ OperatorShape' /\ SessionHasSlot'
      BY <1>0, <1>1, <2>1, <2>2, <2>4, <2>7, <2>8, SameRoutes
    <2> QED BY <2>3, <2>6, <2>9
  <1>2. ASSUME UNCHANGED <<lock, draft>>,
               \/ /\ Unused(w) # {}
                  /\ own' = [own EXCEPT ![w] = NextFreeSlot(w)]
                  /\ seen' = [seen EXCEPT ![w] = View(w, NextFreeSlot(w)).st]
                  /\ Move(w, "create")
               \/ /\ own' = [own EXCEPT ![w] = NoSlot]
                  /\ seen' = [seen EXCEPT ![w] = "none"]
                  /\ Move(w, "commit")
        PROVE  IInv'
    <2>1. Unused(w) # {} => /\ NextFreeSlot(w) \in Slots
                            /\ View(w, NextFreeSlot(w)).st \in {"none", "destroyed"}
      BY NextFreeSlotIsUnused DEF Unused
    <2>2. TypeOK'
      BY <1>0, <1>2, <2>1 DEF Move, TypeOK, States, healthVars
    <2>3. /\ pc'[w] \in {"create", "commit"}
          /\ pc'[w] = "create" => own'[w] \in Slots /\ seen'[w] \in {"none", "destroyed"}
          /\ pc'[w] = "commit" => own'[w] = NoSlot
          /\ \A v \in Workers \ {w} : pc'[v] = pc[v] /\ own'[v] = own[v] /\ seen'[v] = seen[v]
      BY <1>2, <2>1 DEF Move, TypeOK
    <2>4. RequestShape'
      BY <1>2, <2>3, OtherRequests
    <2>5. Open(w)'
      BY <2>3 DEF Open
    <2> QED BY <1>0, <1>2, <2>2, <2>3, <2>4, <2>5, QuietMove
  <1> QED BY <1>1, <1>2 DEF Pick

\* Create: provision_slot writes the row, or the request fails on somebody
\* else's INSERT, or the script's error is swallowed.
LEMMA CreateIInv ==
    ASSUME IInv, NEW w \in Workers, NEW link \in Links, Create(w, link)
    PROVE  IInv'
  <1> USE SlotFacts, OwnersAssumption DEF IInv
  <1> DEFINE s == own[w]
             r == [row[s] EXCEPT !.st = StateOf(link)]
  <1>0. /\ pc[w] = "create" /\ Open(w) /\ ~Served(w) /\ s \in Slots
        /\ vm' = [vm EXCEPT ![s] = link]
        /\ UNCHANGED <<row, rules, bound, healthVars, events, razing, parted>>
    BY DEF Create, Created, Open, Served, RequestShape
  <1>v. vm' \in [Slots -> {"absent", "down", "up"}]
    BY <1>0 DEF TypeOK, Links
  <1>1. ASSUME Free(w, s), Write(w, s, r),
               strayed' = IF row[s].st = seen[w] THEN strayed ELSE strayed \cup {s},
               seen' = [seen EXCEPT ![w] = StateOf(link)],
               Move(w, "assign"), UNCHANGED own
        PROVE  IInv'
    <2>1. StateOf(link) \in States /\ StateOf(link) # "assigned"
      BY DEF StateOf, States
    <2>2. row[s] \in Row /\ r \in Row /\ r.st = StateOf(link) /\ r.w = row[s].w
      BY <1>0, <2>1, RowStates, StateChange
    <2>3. TypeOK'
      BY <1>0, <1>v, <1>1, <2>1, <2>2 DEF Move, Write, TypeOK, healthVars
    <2>4. /\ pc'[w] = "assign"
          /\ \A v \in Workers \ {w} : pc'[v] = pc[v] /\ own'[v] = own[v] /\ seen'[v] = seen[v]
      BY <1>1 DEF Move, TypeOK
    <2>5. s \notin strayed' => /\ Sound(r) /\ Routed(r) = {}
                               /\ Routed(row[s]) = {} /\ Routed(Latest(s)) = {}
      <3> SUFFICES ASSUME s \notin strayed' PROVE /\ Sound(r) /\ Routed(r) = {}
                               /\ Routed(row[s]) = {} /\ Routed(Latest(s)) = {}
        OBVIOUS
      <3>1. s \notin strayed /\ row[s].st \in {"none", "destroyed"}
        BY <1>0, <1>1 DEF RequestShape
      <3>2. row[s].w = NoWorker
        BY <1>0, <3>1 DEF RowsAreSound, Sound
      <3>3. lock[s] = w => Routed(draft[s]) = {}
        BY <1>0, <3>1, OwnDraft DEF Routed
      <3> QED BY <1>1, <2>1, <3>1, <3>2, <3>3 DEF Sound, Routed, Latest, Free
    <2>6. \A x \in Slots : lock[x] \notin {NoTx, w} => lock'[x] = lock[x] /\ draft'[x] = draft[x]
      BY <1>1 DEF Write, Free
    <2>7. RequestShape'
      BY <1>0, <1>1, <2>4, <2>6, OtherRequests
    <2>8. /\ Open(w)' /\ pc[w] # "commit"
          /\ strayed \subseteq strayed' /\ r.w \in {row[s].w, View(w, s).w}
          /\ UNCHANGED <<row, rules, healthVars, parted>>
      BY <1>0, <1>1, <2>4 DEF Open
    <2>9. /\ RouteFollowsWrite' /\ RowsAreSound' /\ NamedIsServed'
          /\ LockShape' /\ HealthShape' /\ OperatorShape' /\ SessionHasSlot'
      <3> HIDE DEF s, r
      <3> QED BY <1>0, <1>1, <2>2, <2>4, <2>5, <2>8, SameRoutes
    <2> QED BY <2>3, <2>7, <2>9
  <1>2. ASSUME own' = [own EXCEPT ![w] = NoSlot], seen' = [seen EXCEPT ![w] = "none"],
               Move(w, "new"), Unlock(w), UNCHANGED strayed
        PROVE  IInv'
    <2>1. /\ pc'[w] = "new"
          /\ \A v \in Workers \ {w} : pc'[v] = pc[v] /\ own'[v] = own[v] /\ seen'[v] = seen[v]
      BY <1>2 DEF Move, TypeOK
    <2>2. TypeOK'
      <3>1. NoRow \in Row
        BY DEF NoRow, Row, States
      <3>2. lock' \in [Slots -> Workers \cup {Health, NoTx}] /\ draft' \in [Slots -> Row]
        BY <1>2, <3>1 DEF Unlock, TypeOK
      <3> QED BY <1>0, <1>v, <1>2, <3>2 DEF Move, TypeOK, States, healthVars
    <2>3. \A x \in Slots : lock[x] \notin {NoTx, w} => lock'[x] = lock[x] /\ draft'[x] = draft[x]
      BY <1>2 DEF Unlock
    <2>4. RequestShape'
      BY <2>1, <2>3, OtherRequests
    <2>5. \A x \in Slots : ~(lock[x] = w /\ draft[x].w = w)
      BY <1>0 DEF NamedIsServed
    <2>6. UNCHANGED <<row, rules, healthVars, parted>> /\ strayed \subseteq strayed'
      BY <1>0, <1>2
    <2>7. /\ RouteFollowsWrite' /\ RowsAreSound' /\ NamedIsServed'
          /\ LockShape' /\ HealthShape' /\ OperatorShape' /\ SessionHasSlot'
      BY <1>0, <1>2, <2>1, <2>5, <2>6, RequestRollBack
    <2> QED BY <2>2, <2>4, <2>7
  <1>3. ASSUME own' = [own EXCEPT ![w] = NoSlot], seen' = [seen EXCEPT ![w] = "none"],
               Move(w, "commit"), UNCHANGED <<lock, draft, strayed>>
        PROVE  IInv'
    <2>1. /\ pc'[w] = "commit" /\ own'[w] = NoSlot
          /\ \A v \in Workers \ {w} : pc'[v] = pc[v] /\ own'[v] = own[v] /\ seen'[v] = seen[v]
      BY <1>3 DEF Move, TypeOK
    <2>2. TypeOK'
      BY <1>0, <1>v, <1>3 DEF Move, TypeOK, States, healthVars
    <2>3. RequestShape'
      BY <1>3, <2>1, OtherRequests
    <2>4. Open(w)'
      BY <2>1 DEF Open
    <2> QED BY <1>0, <1>3, <2>1, <2>2, <2>3, <2>4, QuietMove
  <1> QED BY <1>1, <1>2, <1>3 DEF Create

\* Assign: the route and the draft name the worker together; only a slot that is
\* no longer idle strays.
LEMMA AssignIInv ==
    ASSUME IInv, NEW w \in Workers, AssignToWorker(w)
    PROVE  IInv'
  <1> USE SlotFacts, OwnersAssumption DEF IInv
  <1> DEFINE s == own[w]
             r == [st |-> "assigned", w |-> w]
  <1>0. /\ pc[w] \in {"assign", "rotated", "matched"} /\ s \in Slots /\ Free(w, s)
        /\ seen' = [seen EXCEPT ![w] = "none"]
        /\ UNCHANGED <<row, vm, bound, healthVars, razing, parted>>
    BY DEF AssignToWorker, RequestShape
  <1>p. Open(w) /\ ~Served(w) /\ pc[w] # "commit"
    BY <1>0 DEF Open, Served
  <1>1. ASSUME rules' = [rules EXCEPT ![s] = @ \cup {w}], Write(w, s, r),
               strayed' = IF View(w, s).st = "idle" THEN strayed ELSE strayed \cup {s},
               Move(w, "commit"), UNCHANGED <<own, events>>
        PROVE  IInv'
    <2>1. r \in Row
      BY DEF Row, States
    <2>2. /\ pc'[w] = "commit" /\ own' = own /\ Open(w)'
          /\ \A v \in Workers \ {w} : pc'[v] = pc[v] /\ seen'[v] = seen[v]
      BY <1>0, <1>1 DEF Move, TypeOK, Open
    <2>3. TypeOK'
      BY <1>0, <1>1, <2>1 DEF Move, Write, TypeOK, States, healthVars
    <2>4. /\ lock'[s] = w /\ draft'[s] = r /\ rules'[s] = rules[s] \cup {w}
          /\ \A x \in Slots \ {s} : lock'[x] = lock[x] /\ draft'[x] = draft[x]
                                    /\ rules'[x] = rules[x]
      BY <1>0, <1>1 DEF Write, TypeOK
    <2>5. lock[s] \in {NoTx, w} /\ w # Health /\ w # NoTx /\ w # NoWorker
      BY <1>0 DEF Free
    <2>6. \A v \in Workers : Served(v)' = Served(v)
      BY <2>2, <1>p DEF Served
    <2>7. RouteFollowsWrite'
      <3> SUFFICES ASSUME NEW x \in Slots \ strayed'
                   PROVE  rules'[x] = Routed(Latest(x))' \ (Gone(x) \cup Lost(x))
        BY <1>0 DEF RouteFollowsWrite, Gone, Dropped, Lost, Cut, healthVars
      <3>1. CASE x = s
        <4>1. s \notin strayed /\ View(w, s).st = "idle"
          BY <1>1, <3>1
        <4>2. Routed(Latest(s)) = {}
          BY <2>5, <4>1 DEF View, Latest, Routed
        <4>3. rules[s] = {}
          BY <1>0, <4>1, <4>2 DEF RouteFollowsWrite
        <4>4. hseen[s].w # w /\ oseen.w # w
          BY <1>0, <1>p DEF NamedIsServed
        <4>5. lock'[x] = w /\ draft'[x].st = "assigned" /\ draft'[x].w = w
          BY <2>4, <3>1
        <4>6. Routed(Latest(x))' = {w}
          BY <4>5 DEF Latest, Routed
        <4>7. rules'[x] = {w} /\ w \notin Gone(x) \cup Lost(x)
          BY <2>4, <3>1, <4>3, <4>4 DEF Gone, Lost
        <4> QED BY <4>6, <4>7
      <3>2. CASE x # s
        BY <1>0, <1>1, <2>4, <3>2 DEF RouteFollowsWrite, Latest
      <3> QED BY <3>1, <3>2
    <2>8. RowsAreSound'
      BY <1>0, <1>1, <2>4 DEF RowsAreSound, Sound, healthVars
    <2>9. NamedIsServed'
      <3> SUFFICES ASSUME NEW x \in Slots, NEW v \in Workers
                   PROVE  /\ row[x].w = v \/ hseen[x].w = v \/ oseen.w = v => Served(v)
                          /\ lock'[x] # NoTx /\ draft'[x].w = v
                                => Served(v) \/ (lock'[x] = v /\ pc'[v] = "commit")
        BY <1>0, <2>6 DEF NamedIsServed, healthVars
      <3>1. CASE x = s
        BY <2>2, <2>4 DEF NamedIsServed
      <3>2. CASE x # s
        BY <2>2, <2>4 DEF NamedIsServed
      <3> QED BY <3>1, <3>2
    <2>10. RequestShape'
      <3>1. \A x \in Slots : lock[x] \notin {NoTx, w} => lock'[x] = lock[x] /\ draft'[x] = draft[x]
        BY <2>4, <2>5
      <3> QED BY <2>2, <2>4, <3>1, OtherRequests
    <2>11. LockShape'
      <3>1. \A v \in Workers \ {w} : Open(v)' = Open(v)
        BY <2>2 DEF Open
      <3>2. ASSUME NEW x \in Slots
            PROVE  /\ lock'[x] = Health => hpc' = "warm"
                   /\ lock'[x] = Health /\ x \notin strayed' =>
                        Routed(draft'[x]) = Routed(row'[x]) \/ hseen'[x].w # hnew'[x].w
        BY <1>0, <1>1, <2>4 DEF LockShape, healthVars
      <3>3. ASSUME NEW x \in Slots, NEW v \in Workers, lock'[x] = v
            PROVE  \/ /\ Open(v)'
                      /\ x \in strayed' \/ draft'[x] = [st |-> "assigned", w |-> v]
                         \/ Routed(draft'[x]) = Routed(row'[x])
                   \/ /\ pc'[v] \in {"freeing", "again"} /\ x = own'[v]
                      /\ draft'[x] \in {row'[x], [st |-> "idle", w |-> NoWorker]}
        <4>1. CASE x = s
          BY <2>2, <2>4, <3>3, <4>1
        <4>2. CASE x # s /\ v = w
          <5>1. lock[x] = w /\ draft'[x] = draft[x] /\ row' = row
            BY <1>0, <2>4, <3>3, <4>2
          <5>2. x \in strayed \/ Routed(draft[x]) = Routed(row[x])
            BY <1>p, <5>1, OwnDraft
          <5> QED BY <1>1, <2>2, <4>2, <5>1, <5>2
        <4>3. CASE x # s /\ v # w
          <5>1. /\ lock[x] = v /\ draft'[x] = draft[x] /\ row'[x] = row[x]
                /\ x \in strayed => x \in strayed'
            BY <1>0, <1>1, <2>4, <3>3, <4>3
          <5>2. \/ /\ Open(v)
                   /\ x \in strayed \/ draft[x] = [st |-> "assigned", w |-> v]
                      \/ Routed(draft[x]) = Routed(row[x])
                \/ /\ pc[v] \in {"freeing", "again"} /\ x = own[v]
                   /\ draft[x] \in {row[x], [st |-> "idle", w |-> NoWorker]}
            BY <5>1 DEF LockShape
          <5> QED BY <2>2, <3>1, <4>3, <5>1, <5>2
        <4> QED BY <4>1, <4>2, <4>3
      <3> QED BY <3>2, <3>3 DEF LockShape
    <2>12. HealthShape' /\ OperatorShape'
      BY <1>0, <1>1, <2>4, <2>5 DEF HealthShape, OperatorShape, healthVars
    <2>13. SessionHasSlot'
      BY <1>0, <1>1, <2>2 DEF SessionHasSlot, Served
    <2> QED BY <2>3, <2>7, <2>8, <2>9, <2>10, <2>11, <2>12, <2>13
  <1>2. ASSUME \/ rules' = [rules EXCEPT ![s] = @ \cup {w}] /\ strayed' = strayed \cup {s}
                  /\ Event
               \/ UNCHANGED <<rules, strayed, events>>,
               Write(w, s, View(w, s)),
               own' = [own EXCEPT ![w] = IF pc[w] = "matched" THEN s ELSE NoSlot],
               Move(w, CASE pc[w] = "rotated" -> "match"
                         [] pc[w] = "matched" -> "unassigned"
                         [] pc[w] = "assign" -> "commit")
        PROVE  IInv'
    <2> DEFINE q == View(w, s)
    <2>1. /\ pc'[w] \in {"match", "unassigned", "commit"}
          /\ pc'[w] = "unassigned" => own'[w] \in Slots
          /\ pc'[w] = "commit" => own'[w] = NoSlot
          /\ \A v \in Workers \ {w} : pc'[v] = pc[v] /\ own'[v] = own[v] /\ seen'[v] = seen[v]
      BY <1>0, <1>2 DEF Move, TypeOK
    <2>2. q \in Row
      BY <1>0, RowStates
    <2>3. TypeOK'
      <3>1. pc' \in [Workers -> {"new", "rotate", "rotated", "match", "matched", "pick", "create",
                           "assign", "unassigned", "commit", "live", "freeing", "ended", "again"}]
        BY <1>0, <1>2 DEF TypeOK, Move
      <3>2. /\ rules' \in [Slots -> SUBSET Workers] /\ strayed' \subseteq Slots
            /\ events' \in 0 .. MaxEvents
        BY <1>0, <1>2, SlotsAssumption DEF TypeOK, Event
      <3>3. lock' \in [Slots -> Workers \cup {Health, NoTx}] /\ draft' \in [Slots -> Row]
        BY <1>2, <2>2 DEF TypeOK, Write
      <3> QED BY <1>0, <1>2, <3>1, <3>2, <3>3 DEF TypeOK, States, healthVars
    <2>4. \A x \in Slots : lock[x] \notin {NoTx, w} => lock'[x] = lock[x] /\ draft'[x] = draft[x]
      BY <1>0, <1>2 DEF Write, Free
    <2>5. RequestShape'
      BY <2>1, <2>4, OtherRequests
    <2>6. Open(w)'
      BY <2>1 DEF Open
    <2>7. s \notin strayed' => /\ Sound(q) /\ rules'[s] = rules[s]
                               /\ Routed(q) = Routed(row[s]) /\ Routed(q) = Routed(Latest(s))
      <3> SUFFICES ASSUME s \notin strayed'
                   PROVE  /\ Sound(q) /\ rules'[s] = rules[s]
                          /\ Routed(q) = Routed(row[s]) /\ Routed(q) = Routed(Latest(s))
        OBVIOUS
      <3>1. s \notin strayed /\ rules'[s] = rules[s]
        BY <1>2
      <3>2. CASE lock[s] = w
        <4>1. Routed(draft[s]) = Routed(row[s])
          BY <1>0, <1>p, <3>1, <3>2, OwnDraft
        <4> QED BY <1>0, <3>1, <3>2, <4>1 DEF View, Latest, RowsAreSound
      <3>3. CASE lock[s] = NoTx
        BY <1>0, <3>1, <3>3 DEF View, Latest, RowsAreSound
      <3> QED BY <1>0, <3>2, <3>3 DEF Free
    <2>8. /\ \A x \in Slots \ {s} : rules'[x] = rules[x]
          /\ strayed \subseteq strayed'
      BY <1>2 DEF TypeOK
    <2>9. UNCHANGED <<row, healthVars, parted>>
      BY <1>0
    <2>10. /\ RouteFollowsWrite' /\ RowsAreSound' /\ NamedIsServed'
           /\ LockShape' /\ HealthShape' /\ OperatorShape' /\ SessionHasSlot'
      <3> HIDE DEF s
      <3> QED BY <1>0, <1>p, <1>2, <2>1, <2>2, <2>6, <2>7, <2>8, <2>9, SameRoutes
    <2> QED BY <2>3, <2>5, <2>10
  <1> QED BY <1>1, <1>2 DEF AssignToWorker, AssignUnheard

\* What a transaction's end and its commit keep of the types.
LEMMA UnlockType ==
    ASSUME TypeOK, NEW t, Unlock(t)
    PROVE  lock' \in [Slots -> Workers \cup {Health, NoTx}] /\ draft' \in [Slots -> Row]
  <1>1. NoRow \in Row
    BY DEF NoRow, Row, States
  <1> QED BY <1>1 DEF Unlock, TypeOK

\* What its commit keeps of them.
LEMMA CommitType ==
    ASSUME TypeOK, NEW t, CommitRows(t)
    PROVE  /\ row' \in [Slots -> Row] /\ parted' \subseteq Workers
           /\ lock' \in [Slots -> Workers \cup {Health, NoTx}] /\ draft' \in [Slots -> Row]
  BY UnlockType DEF CommitRows, View, TypeOK

\* The commit of a request: the drafts become the rows, and whoever loses a slot
\* by it is recorded.
LEMMA RequestCommit ==
    ASSUME IInv, NEW w \in Workers, CommitRows(w),
           Served(w)',
           \A v \in Workers \ {w} : pc'[v] = pc[v] /\ own'[v] = own[v],
           UNCHANGED <<rules, healthVars, strayed>>,
           own'[w] # NoSlot => own[w] = own'[w] /\ (pc[w] = "commit" \/ Served(w))
    PROVE  /\ RouteFollowsWrite' /\ RowsAreSound' /\ NamedIsServed'
           /\ LockShape' /\ HealthShape' /\ OperatorShape' /\ SessionHasSlot'
  <1> USE OwnersAssumption DEF IInv, healthVars
  <1>a. /\ \A x \in Slots : lock[x] = w => lock'[x] = NoTx /\ row'[x] = draft[x]
        /\ \A x \in Slots : lock[x] # w => /\ lock'[x] = lock[x] /\ draft'[x] = draft[x]
                                           /\ row'[x] = row[x]
    BY DEF CommitRows, Unlock, View
  <1>b. \A v \in Workers : Served(v) => Served(v)'
    BY DEF Served
  <1>c. \A v \in Workers \ {w} : Open(v)' = Open(v)
    BY DEF Open
  <1>1. RouteFollowsWrite'
    <2> SUFFICES ASSUME NEW x \in Slots \ strayed
                 PROVE  rules[x] = Routed(Latest(x))' \ (Gone(x) \cup Lost(x))
      BY DEF RouteFollowsWrite, Gone, Dropped, Lost, Cut
    <2>1. Latest(x)' = Latest(x)
      BY <1>a DEF Latest
    <2> QED BY <2>1 DEF RouteFollowsWrite
  <1>2. RowsAreSound'
    BY <1>a DEF RowsAreSound
  <1>3. NamedIsServed'
    <2> SUFFICES ASSUME NEW x \in Slots, NEW v \in Workers
                 PROVE  /\ row'[x].w = v \/ hseen[x].w = v \/ oseen.w = v => Served(v)'
                        /\ lock'[x] # NoTx /\ draft'[x].w = v
                              => Served(v)' \/ (lock'[x] = v /\ pc'[v] = "commit")
      BY DEF NamedIsServed
    <2>1. CASE lock[x] = w
      BY <1>a, <1>b DEF NamedIsServed
    <2>2. CASE lock[x] # w
      BY <1>a, <1>b DEF NamedIsServed
    <2> QED BY <2>1, <2>2
  <1>4. LockShape'
    <2>1. ASSUME NEW x \in Slots
          PROVE  /\ lock'[x] = Health => hpc = "warm"
                 /\ lock'[x] = Health /\ x \notin strayed =>
                      Routed(draft'[x]) = Routed(row'[x]) \/ hseen[x].w # hnew[x].w
      <3>1. lock'[x] = Health =>
               lock[x] = Health /\ draft'[x] = draft[x] /\ row'[x] = row[x]
        BY <1>a
      <3> QED BY <3>1 DEF LockShape
    <2>2. ASSUME NEW x \in Slots, NEW v \in Workers, lock'[x] = v
          PROVE  \/ /\ Open(v)'
                    /\ x \in strayed \/ draft'[x] = [st |-> "assigned", w |-> v]
                       \/ Routed(draft'[x]) = Routed(row'[x])
                 \/ /\ pc'[v] \in {"freeing", "again"} /\ x = own'[v]
                    /\ draft'[x] \in {row'[x], [st |-> "idle", w |-> NoWorker]}
      <3>1. lock[x] = v /\ v # w /\ draft'[x] = draft[x] /\ row'[x] = row[x]
        BY <2>2, <1>a
      <3> QED BY <3>1, <1>c DEF LockShape
    <2> QED BY <2>1, <2>2 DEF LockShape
  <1>5. HealthShape' /\ OperatorShape'
    BY <1>a DEF HealthShape, OperatorShape
  <1>6. SessionHasSlot'
    <2> SUFFICES ASSUME NEW v \in Workers, Served(v)', own'[v] # NoSlot
                 PROVE  own'[v] \in strayed \/ v \in parted' \/ row'[own'[v]].w = v
      BY DEF SessionHasSlot
    <2>1. own[v] \in Slots /\ own'[v] = own[v]
      BY DEF TypeOK
    <2>2. CASE v = w /\ pc[w] = "commit"
      <3>1. lock[own[w]] = w /\ draft[own[w]] = [st |-> "assigned", w |-> w]
        BY <2>1, <2>2 DEF RequestShape
      <3>2. row'[own[w]] = draft[own[w]]
        BY <1>a, <2>1, <2>2, <3>1
      <3> QED BY <2>1, <2>2, <3>1, <3>2
    <2>3. CASE ~(v = w /\ pc[w] = "commit")
      <3>1. Served(v)
        BY <2>3 DEF Served
      <3>2. own[v] \in strayed \/ v \in parted \/ row[own[v]].w = v
        BY <2>1, <3>1 DEF SessionHasSlot
      <3> QED BY <2>1, <3>2 DEF CommitRows
    <2> QED BY <2>2, <2>3
  <1> QED BY <1>1, <1>2, <1>3, <1>4, <1>5, <1>6

\* create_session commits: the worker has its slot, or none.
LEMMA CommitSessionIInv ==
    ASSUME IInv, NEW w \in Workers, CommitSession(w)
    PROVE  IInv'
  <1> USE SlotFacts, OwnersAssumption DEF IInv
  <1>0. /\ pc[w] \in {"commit", "unassigned"} /\ Open(w) /\ CommitRows(w)
        /\ own' = [own EXCEPT ![w] = IF pc[w] = "unassigned" THEN NoSlot ELSE @]
        /\ pc' = [pc EXCEPT ![w] = "live"]
        /\ bound' = IF w \in Pinned /\ own[w] # NoSlot THEN own[w] ELSE bound
        /\ UNCHANGED <<vm, rules, seen, healthVars, events, razing, strayed>>
    BY DEF CommitSession, Move, Open
  <1>1. /\ pc'[w] = "live" /\ Served(w)'
        /\ own'[w] # NoSlot => own[w] = own'[w] /\ pc[w] = "commit"
        /\ \A v \in Workers \ {w} : pc'[v] = pc[v] /\ own'[v] = own[v] /\ seen'[v] = seen[v]
    BY <1>0 DEF TypeOK, Served
  <1>2. TypeOK'
    BY <1>0, CommitType DEF TypeOK, healthVars
  <1>3. \A x \in Slots : lock[x] \notin {NoTx, w} => lock'[x] = lock[x] /\ draft'[x] = draft[x]
    BY <1>0 DEF CommitRows, Unlock
  <1>4. RequestShape'
    BY <1>1, <1>3, OtherRequests
  <1>5. UNCHANGED <<rules, healthVars, strayed>>
    BY <1>0
  <1> QED BY <1>0, <1>1, <1>2, <1>4, <1>5, RequestCommit

\* create_session fails: the slots that it was about to get stray.
LEMMA AbortSessionIInv ==
    ASSUME IInv, NEW w \in Workers, AbortSession(w)
    PROVE  IInv'
  <1> USE SlotFacts, OwnersAssumption, SlotsAssumption DEF IInv
  <1>0. /\ Open(w) /\ Event /\ Unlock(w)
        /\ strayed' = strayed \cup {s \in Slots : lock[s] = w /\ draft[s].w = w}
        /\ own' = [own EXCEPT ![w] = NoSlot]
        /\ seen' = [seen EXCEPT ![w] = "none"]
        /\ pc' = [pc EXCEPT ![w] = "new"]
        /\ UNCHANGED <<row, vm, rules, bound, healthVars, razing, parted>>
    BY DEF AbortSession, Move
  <1>1. /\ pc'[w] = "new"
        /\ \A v \in Workers \ {w} : pc'[v] = pc[v] /\ own'[v] = own[v] /\ seen'[v] = seen[v]
    BY <1>0 DEF TypeOK
  <1>2. TypeOK'
    <2>1. events' \in 0 .. MaxEvents
      BY <1>0 DEF TypeOK, Event
    <2> QED BY <1>0, <2>1, UnlockType DEF TypeOK, States, healthVars
  <1>3. \A x \in Slots : lock[x] \notin {NoTx, w} => lock'[x] = lock[x] /\ draft'[x] = draft[x]
    BY <1>0 DEF Unlock
  <1>4. RequestShape'
    BY <1>1, <1>3, OtherRequests
  <1>5. UNCHANGED <<row, rules, healthVars, parted>> /\ strayed \subseteq strayed'
        /\ \A s \in Slots : lock[s] = w /\ draft[s].w = w => s \in strayed'
    BY <1>0
  <1> QED BY <1>0, <1>1, <1>2, <1>4, <1>5, RequestRollBack

\* terminate_session takes the slot back: the route of the worker that the row
\* names is removed with the row's write, or both stay, or the slot strays.
LEMMA ReleaseIInv ==
    ASSUME IInv, NEW w \in Workers, NEW reached \in BOOLEAN, ReleaseFromWorker(w, reached)
    PROVE  IInv'
  <1> USE SlotFacts, OwnersAssumption, SlotsAssumption DEF IInv
  <1>0. PICK s \in Slots :
           /\ s = own[w] /\ pc[w] \in {"live", "ended"} /\ lock[s] = NoTx
           /\ rules' = [rules EXCEPT ![s] = IF reached THEN @ \ {row[s].w} ELSE @]
           /\ \/ /\ Write(w, s, [st |-> "idle", w |-> NoWorker])
                 /\ strayed' = IF reached \/ row[s].w \notin rules[s] THEN strayed
                               ELSE strayed \cup {s}
              \/ /\ Write(w, s, row[s])
                 /\ strayed' = IF reached /\ row[s].w \in rules[s] THEN strayed \cup {s}
                               ELSE strayed
           /\ pc' = [pc EXCEPT ![w] = IF pc[w] = "live" THEN "freeing" ELSE "again"]
           /\ UNCHANGED <<row, vm, bound, own, seen, healthVars, razing, parted>>
    BY DEF ReleaseFromWorker, ReleaseRoute, ReleaseRaises, Move, TypeOK
  <1>1. /\ pc'[w] \in {"freeing", "again"} /\ (pc'[w] = "freeing" => pc[w] = "live")
        /\ \A v \in Workers \ {w} : pc'[v] = pc[v]
    BY <1>0 DEF TypeOK
  <1>2. /\ lock'[s] = w /\ draft'[s] \in {row[s], [st |-> "idle", w |-> NoWorker]}
        /\ strayed \subseteq strayed'
        /\ \A x \in Slots \ {s} : lock'[x] = lock[x] /\ draft'[x] = draft[x]
                                  /\ rules'[x] = rules[x]
    BY <1>0 DEF Write, TypeOK
  <1>3. \A v \in Workers : Served(v)' = Served(v) /\ Open(v)' = Open(v)
    BY <1>0 DEF Served, Open
  <1>4. TypeOK'
    <2>1. events' \in 0 .. MaxEvents
      BY DEF TypeOK, ReleaseFromWorker, Event
    <2>2. [st |-> "idle", w |-> NoWorker] \in Row /\ row[s] \in Row
      BY DEF Row, States, TypeOK
    <2>3. rules' \in [Slots -> SUBSET Workers] /\ strayed' \subseteq Slots
      BY <1>0 DEF TypeOK
    <2>5. lock' \in [Slots -> Workers \cup {Health, NoTx}] /\ draft' \in [Slots -> Row]
      BY <1>0, <2>2 DEF TypeOK, Write
    <2> QED BY <1>0, <2>1, <2>3, <2>5 DEF TypeOK, healthVars
  <1>5. RouteFollowsWrite'
    <2> SUFFICES ASSUME NEW x \in Slots \ strayed'
                 PROVE  rules'[x] = Routed(Latest(x))' \ (Gone(x) \cup Lost(x))
      BY <1>0 DEF RouteFollowsWrite, Gone, Dropped, Lost, Cut, healthVars
    <2>1. CASE x = s
      <3>1. /\ s \notin strayed /\ rules[s] \subseteq {row[s].w}
            /\ rules[s] = Routed(row[s]) \ (Gone(s) \cup Lost(s))
        <4>1. s \notin strayed /\ Latest(s) = row[s]
          BY <1>0, <1>2, <2>1 DEF Latest
        <4>2. rules[s] = Routed(row[s]) \ (Gone(s) \cup Lost(s))
          BY <4>1 DEF RouteFollowsWrite
        <4> QED BY <4>1, <4>2 DEF Routed
      <3>2. CASE /\ Write(w, s, [st |-> "idle", w |-> NoWorker])
                 /\ strayed' = IF reached \/ row[s].w \notin rules[s] THEN strayed
                               ELSE strayed \cup {s}
        <4>1. rules'[s] = {}
          BY <1>0, <2>1, <3>1, <3>2 DEF TypeOK
        <4>2. Routed(Latest(x))' = {}
          BY <1>2, <2>1, <3>2 DEF Latest, Routed, Write, TypeOK
        <4> QED BY <2>1, <4>1, <4>2
      <3>3. CASE /\ Write(w, s, row[s])
                 /\ strayed' = IF reached /\ row[s].w \in rules[s] THEN strayed \cup {s}
                               ELSE strayed
        <4>1. rules'[s] = rules[s]
          BY <1>0, <2>1, <3>3 DEF TypeOK
        <4>2. Routed(Latest(x))' = Routed(row[s])
          BY <1>2, <2>1, <3>3 DEF Latest, Routed, Write, TypeOK
        <4> QED BY <2>1, <3>1, <4>1, <4>2
      <3> QED BY <1>0, <3>2, <3>3
    <2>2. CASE x # s
      BY <1>0, <1>2, <2>2 DEF RouteFollowsWrite, Latest, Routed
    <2> QED BY <2>1, <2>2
  <1>6. RowsAreSound'
    BY <1>0, <1>2 DEF RowsAreSound, Sound, healthVars
  <1>7. NamedIsServed'
    <2> SUFFICES ASSUME NEW x \in Slots, NEW v \in Workers
                 PROVE  /\ row[x].w = v \/ hseen[x].w = v \/ oseen.w = v => Served(v)
                        /\ lock'[x] # NoTx /\ draft'[x].w = v
                              => Served(v) \/ (lock'[x] = v /\ pc'[v] = "commit")
      BY <1>0, <1>3 DEF NamedIsServed, healthVars
    <2>1. CASE x = s
      <3>1. draft'[x].w = v => row[x].w = v
        BY <2>1, <1>2, OwnersAssumption
      <3> QED BY <3>1 DEF NamedIsServed
    <2>2. CASE x # s
      BY <2>2, <1>0, <1>1, <1>2 DEF NamedIsServed
    <2> QED BY <2>1, <2>2
  <1>8. RequestShape'
    <2>1. \A x \in Slots : lock[x] \notin {NoTx, w} => lock'[x] = lock[x] /\ draft'[x] = draft[x]
      BY <1>0, <1>2
    <2> QED BY <1>0, <1>1, <2>1, OtherRequests
  <1>9. LockShape'
    <2>1. ASSUME NEW x \in Slots
          PROVE  /\ lock'[x] = Health => hpc' = "warm"
                 /\ lock'[x] = Health /\ x \notin strayed' =>
                      Routed(draft'[x]) = Routed(row'[x]) \/ hseen'[x].w # hnew'[x].w
      <3>1. lock'[x] = Health => lock[x] = Health /\ draft'[x] = draft[x] /\ row'[x] = row[x]
        BY <1>0, <1>2
      <3> QED BY <1>0, <3>1 DEF LockShape, healthVars
    <2>2. ASSUME NEW x \in Slots, NEW v \in Workers, lock'[x] = v
          PROVE  \/ /\ Open(v)'
                    /\ x \in strayed' \/ draft'[x] = [st |-> "assigned", w |-> v]
                       \/ Routed(draft'[x]) = Routed(row'[x])
                 \/ /\ pc'[v] \in {"freeing", "again"} /\ x = own'[v]
                    /\ draft'[x] \in {row'[x], [st |-> "idle", w |-> NoWorker]}
      <3>1. CASE x = s
        BY <1>0, <1>1, <1>2, <2>2, <3>1
      <3>2. CASE x # s
        <4>1. lock[x] = v /\ draft'[x] = draft[x] /\ row' = row /\ own' = own
              /\ strayed \subseteq strayed'
          BY <1>0, <1>2, <2>2, <3>2
        <4>2. v # w
          BY <1>0, <4>1 DEF LockShape, Open
        <4>3. pc'[v] = pc[v] /\ Open(v)' = Open(v)
          BY <1>1, <1>3, <4>2
        <4> QED BY <4>1, <4>3 DEF LockShape
      <3> QED BY <3>1, <3>2
    <2> QED BY <2>1, <2>2 DEF LockShape
  <1>10. HealthShape' /\ OperatorShape'
    BY <1>0, <1>2 DEF HealthShape, OperatorShape, healthVars
  <1>11. SessionHasSlot'
    BY <1>0, <1>2, <1>3 DEF SessionHasSlot
  <1> QED BY <1>4, <1>5, <1>6, <1>7, <1>8, <1>9, <1>10, <1>11

\* terminate_session commits.
LEMMA CommitTerminationIInv ==
    ASSUME IInv, NEW w \in Workers, CommitTermination(w)
    PROVE  IInv'
  <1> USE SlotFacts, OwnersAssumption DEF IInv
  <1>0. /\ pc[w] \in {"freeing", "again", "live"} /\ CommitRows(w)
        /\ pc' = [pc EXCEPT ![w] = "ended"]
        /\ UNCHANGED <<vm, rules, bound, own, seen, healthVars, events, razing, strayed>>
    BY DEF CommitTermination, Move
  <1>1. /\ pc'[w] = "ended" /\ Served(w)' /\ Served(w)
        /\ \A v \in Workers \ {w} : pc'[v] = pc[v] /\ own'[v] = own[v] /\ seen'[v] = seen[v]
    BY <1>0 DEF TypeOK, Served
  <1>2. TypeOK'
    BY <1>0, CommitType DEF TypeOK, healthVars
  <1>3. \A x \in Slots : lock[x] \notin {NoTx, w} => lock'[x] = lock[x] /\ draft'[x] = draft[x]
    BY <1>0 DEF CommitRows, Unlock
  <1>4. RequestShape'
    BY <1>1, <1>3, OtherRequests
  <1>5. UNCHANGED <<rules, healthVars, strayed>>
    BY <1>0
  <1> QED BY <1>0, <1>1, <1>2, <1>4, <1>5, RequestCommit

\* terminate_session fails: where it had taken a worker's slot back the route is
\* gone, so the slot strays.
LEMMA AbortTerminationIInv ==
    ASSUME IInv, NEW w \in Workers, AbortTermination(w)
    PROVE  IInv'
  <1> USE SlotFacts, OwnersAssumption, SlotsAssumption DEF IInv
  <1>0. PICK s \in Slots :
           /\ s = own[w] /\ pc[w] \in {"freeing", "again"} /\ Event /\ Unlock(w)
           /\ strayed' = strayed \cup (IF draft[s].w = row[s].w THEN {} ELSE {s})
           /\ pc' = [pc EXCEPT ![w] = IF pc[w] = "freeing" THEN "live" ELSE "ended"]
           /\ UNCHANGED <<row, vm, rules, bound, own, seen, healthVars, razing, parted>>
    BY DEF AbortTermination, Move, RequestShape
  <1>1. /\ pc'[w] \in {"live", "ended"} /\ (pc'[w] = "live" => pc[w] = "freeing")
        /\ \A v \in Workers \ {w} : pc'[v] = pc[v]
    BY <1>0 DEF TypeOK
  <1>2. /\ \A x \in Slots : lock[x] = w => lock'[x] = NoTx
        /\ \A x \in Slots : lock[x] # w => lock'[x] = lock[x] /\ draft'[x] = draft[x]
    BY <1>0 DEF Unlock
  <1>3. \A v \in Workers : Served(v)' = Served(v) /\ Open(v)' = Open(v)
    BY <1>0 DEF Served, Open
  <1>4. \A x \in Slots : lock[x] = w => x = s /\ draft[x] \in {row[x], [st |-> "idle", w |-> NoWorker]}
    BY <1>0 DEF LockShape, Open
  <1>5. TypeOK'
    <2>1. events' \in 0 .. MaxEvents
      BY <1>0 DEF TypeOK, Event
    <2>2. lock' \in [Slots -> Workers \cup {Health, NoTx}] /\ draft' \in [Slots -> Row]
      BY <1>0, UnlockType
    <2>3. pc' \in [Workers -> {"new", "rotate", "rotated", "match", "matched", "pick", "create",
                              "assign", "unassigned", "commit", "live", "freeing", "ended",
                              "again"}]
      BY <1>0 DEF TypeOK
    <2>4. strayed' \subseteq Slots
      BY <1>0 DEF TypeOK
    <2> QED BY <1>0, <2>1, <2>2, <2>3, <2>4 DEF TypeOK, healthVars
  <1>6. RouteFollowsWrite'
    <2> SUFFICES ASSUME NEW x \in Slots \ strayed'
                 PROVE  rules[x] = Routed(Latest(x))' \ (Gone(x) \cup Lost(x))
      BY <1>0 DEF RouteFollowsWrite, Gone, Dropped, Lost, Cut, healthVars
    <2>1. CASE lock[x] = w
      <3>1. x = s /\ x \notin strayed /\ draft[x].w = row[x].w
        BY <1>0, <1>4, <2>1
      <3>2. Routed(row[x]) = Routed(draft[x])
        <4>1. Sound(row[x]) /\ Sound(draft[x])
          BY <2>1, <3>1 DEF RowsAreSound
        <4> QED BY <3>1, <4>1 DEF Sound, Routed
      <3>3. rules[x] = Routed(draft[x]) \ (Gone(x) \cup Lost(x))
        BY <2>1, <3>1 DEF RouteFollowsWrite, Latest
      <3>4. Routed(Latest(x))' = Routed(row[x])
        BY <1>0, <1>2, <2>1 DEF Latest, Routed
      <3> QED BY <3>2, <3>3, <3>4
    <2>2. CASE lock[x] # w
      BY <1>0, <1>2, <2>2 DEF RouteFollowsWrite, Latest
    <2> QED BY <2>1, <2>2
  <1>7. RowsAreSound'
    BY <1>0, <1>2 DEF RowsAreSound, healthVars
  <1>8. NamedIsServed'
    <2> SUFFICES ASSUME NEW x \in Slots, NEW v \in Workers
                 PROVE  /\ row[x].w = v \/ hseen[x].w = v \/ oseen.w = v => Served(v)
                        /\ lock'[x] # NoTx /\ draft'[x].w = v
                              => Served(v) \/ (lock'[x] = v /\ pc'[v] = "commit")
      BY <1>0, <1>3 DEF NamedIsServed, healthVars
    <2>1. CASE lock[x] = w
      BY <2>1, <1>2 DEF NamedIsServed
    <2>2. CASE lock[x] # w
      BY <1>1, <1>2 DEF NamedIsServed
    <2> QED BY <2>1, <2>2
  <1>9. RequestShape'
    <2>1. \A x \in Slots : lock[x] \notin {NoTx, w} => lock'[x] = lock[x] /\ draft'[x] = draft[x]
      BY <1>2
    <2> QED BY <1>0, <1>1, <2>1, OtherRequests
  <1>10. LockShape'
    <2>1. ASSUME NEW x \in Slots
          PROVE  /\ lock'[x] = Health => hpc' = "warm"
                 /\ lock'[x] = Health /\ x \notin strayed' =>
                      Routed(draft'[x]) = Routed(row'[x]) \/ hseen'[x].w # hnew'[x].w
      <3>1. lock'[x] = Health => lock[x] = Health /\ draft'[x] = draft[x] /\ row'[x] = row[x]
        BY <1>0, <1>2
      <3> QED BY <1>0, <3>1 DEF LockShape, healthVars
    <2>2. ASSUME NEW x \in Slots, NEW v \in Workers, lock'[x] = v
          PROVE  \/ /\ Open(v)'
                    /\ x \in strayed' \/ draft'[x] = [st |-> "assigned", w |-> v]
                       \/ Routed(draft'[x]) = Routed(row'[x])
                 \/ /\ pc'[v] \in {"freeing", "again"} /\ x = own'[v]
                    /\ draft'[x] \in {row'[x], [st |-> "idle", w |-> NoWorker]}
      <3>1. lock[x] = v /\ v # w /\ draft'[x] = draft[x] /\ row' = row /\ own' = own
            /\ strayed \subseteq strayed'
        BY <1>0, <1>2, <2>2
      <3>2. pc'[v] = pc[v] /\ Open(v)' = Open(v)
        BY <1>1, <1>3, <3>1
      <3> QED BY <3>1, <3>2 DEF LockShape
    <2> QED BY <2>1, <2>2 DEF LockShape
  <1>11. HealthShape' /\ OperatorShape'
    BY <1>0, <1>2 DEF HealthShape, OperatorShape, healthVars
  <1>12. SessionHasSlot'
    BY <1>0, <1>3 DEF SessionHasSlot
  <1> QED BY <1>5, <1>6, <1>7, <1>8, <1>9, <1>10, <1>11, <1>12

\* Before the tick flushes, nothing that it does concerns a locked row.
LEMMA LocksBeforeFlush ==
    ASSUME IInv, hpc \in {"idle", "check"},
           UNCHANGED <<row, lock, draft, pc, own>>, strayed \subseteq strayed'
    PROVE  LockShape'
  <1>2. \A w \in Workers : Open(w)' = Open(w)
    BY DEF Open
  <1> QED BY <1>2 DEF IInv, LockShape

\* The tick loads the checked rows: nothing is dropped yet.
LEMMA BeginHealthIInv == IInv /\ BeginHealth => IInv'
  <1> SUFFICES ASSUME IInv, BeginHealth PROVE IInv'
    OBVIOUS
  <1> USE OwnersAssumption DEF IInv
  <1>n. NoRow \in Row /\ NoRow.st = "none" /\ NoRow.w = NoWorker
    BY DEF NoRow, Row, States
  <1>0. /\ hpc = "idle" /\ hpc' = "check" /\ hnew' = hseen' /\ htodo' \subseteq Slots
        /\ \A s \in Slots : hseen'[s] \in {row[s], NoRow}
        /\ hseen' \in [Slots -> Row]
        /\ UNCHANGED <<row, lock, draft, vm, rules, workerVars, hleft, cap, operatorVars,
                       events, razing, strayed, parted>>
    BY <1>n DEF BeginHealth, TypeOK
  <1>1. TypeOK'
    BY <1>0 DEF TypeOK, workerVars, operatorVars
  <1>2. RouteFollowsWrite'
    <2>1. \A s \in Slots : Gone(s) = {} /\ Gone(s)' = {} /\ Lost(s)' = Lost(s)
      BY <1>0 DEF Gone, Dropped, Lost, Cut, operatorVars
    <2> QED BY <1>0, <2>1 DEF RouteFollowsWrite, Latest
  <1>3. RowsAreSound'
    <2>1. Sound(NoRow)
      BY <1>n DEF Sound
    <2> QED BY <1>0, <2>1 DEF RowsAreSound
  <1>4. NamedIsServed'
    <2>1. \A v \in Workers : Served(v)' = Served(v) /\ NoRow.w # v
      BY <1>0, <1>n DEF Served, workerVars
    <2>2. \A s \in Slots, v \in Workers : hseen'[s].w = v => row[s].w = v
      BY <1>0, <2>1
    <2>4. UNCHANGED <<row, lock, draft, pc, oseen>>
      BY <1>0 DEF workerVars, operatorVars
    <2> QED BY <2>1, <2>2, <2>4 DEF NamedIsServed
  <1>5. RequestShape'
    BY <1>0 DEF RequestShape, workerVars
  <1>6. LockShape'
    BY <1>0, LocksBeforeFlush DEF workerVars
  <1>7. HealthShape' /\ OperatorShape'
    BY <1>0 DEF HealthShape, OperatorShape, operatorVars
  <1>8. SessionHasSlot'
    BY <1>0 DEF SessionHasSlot, Served, workerVars
  <1> QED BY <1>1, <1>2, <1>3, <1>4, <1>5, <1>6, <1>7, <1>8

\* What the tick makes of the row that it loaded.
LEMMA JudgedShape ==
    ASSUME NEW r \in Row, NEW link, NEW late \in BOOLEAN
    PROVE  /\ Judged(r, link, late) \in Row
           /\ Judged(r, link, late).w \in {r.w, NoWorker}
           /\ r.st = "assigned" /\ link # "up" =>
                Judged(r, link, late) = [st |-> "reconnecting", w |-> NoWorker]
           /\ r.st = "assigned" /\ link = "up" => Judged(r, link, late) = r
           /\ r.st # "assigned" => Judged(r, link, late).st # "assigned"
                                   /\ Judged(r, link, late).w = r.w
  <1>1. /\ {"idle", "reconnecting", "down"} \subseteq States
        /\ [st |-> "reconnecting", w |-> NoWorker] \in Row
    BY DEF States, Row
  <1>2. CASE link = "up"
    <2>1. Judged(r, link, late) = [r EXCEPT !.st = IF @ = "reconnecting" THEN "idle" ELSE @]
      BY <1>2 DEF Judged
    <2> QED BY <1>1, <1>2, <2>1 DEF Row
  <1>3. CASE link # "up" /\ r.st = "assigned"
    BY <1>1, <1>3 DEF Judged
  <1>4. CASE link # "up" /\ r.st = "idle"
    BY <1>1, <1>4, StateChange DEF Judged
  <1>5. CASE link # "up" /\ r.st \notin {"assigned", "idle"}
    BY <1>1, <1>5, StateChange DEF Judged
  <1> QED BY <1>2, <1>3, <1>4, <1>5

\* One node is checked: when its link counts as down and it was loaded as
\* assigned, its route goes before its row does.
LEMMA CheckNodeIInv ==
    ASSUME IInv, NEW s \in Slots, NEW late \in BOOLEAN, NEW reached \in BOOLEAN,
           NEW answer \in Answers, CheckNode(s, late, answer, reached)
    PROVE  IInv'
  <1> USE OwnersAssumption, SlotsAssumption DEF IInv
  <1>0. PICK r \in Row :
           /\ r = hseen[s] /\ hpc = "check" /\ s \in htodo
           /\ \/ hnew' = hnew /\ UNCHANGED <<rules, strayed>>
              \/ /\ hnew' = [hnew EXCEPT ![s] = Judged(r, Reported(s, answer), late)]
                 /\ IF Reported(s, answer) # "up" /\ r.st = "assigned"
                    THEN ReleaseRoute(s, r.w, reached)
                    ELSE UNCHANGED <<rules, strayed>>
           /\ htodo' = htodo \ {s}
           /\ UNCHANGED <<row, lock, draft, vm, workerVars, hpc, hseen, hleft, cap, operatorVars,
                          razing, parted>>
    BY DEF CheckNode, TypeOK
  <1> DEFINE link == Reported(s, answer)
  <1>1. hnew[s] = hseen[s] /\ hpc' = "check" /\ hseen' = hseen
    BY <1>0 DEF HealthShape
  <1>2. /\ hnew'[s] \in {r, Judged(r, link, late)}
        /\ \A x \in Slots \ {s} : hnew'[x] = hnew[x] /\ rules'[x] = rules[x]
        /\ strayed \subseteq strayed' /\ strayed' \subseteq strayed \cup {s}
    BY <1>0, <1>1 DEF ReleaseRoute, TypeOK
  <1>3. /\ hnew'[s] \in Row /\ r \in Row
        /\ hnew'[s].w \in {r.w, NoWorker}
        /\ \/ hnew'[s] = r
           \/ r.st = "assigned" /\ hnew'[s] = [st |-> "reconnecting", w |-> NoWorker]
           \/ r.st # "assigned" /\ hnew'[s].st # "assigned" /\ hnew'[s].w = r.w
    <2> HIDE DEF link
    <2> QED BY <1>2, JudgedShape
  <1>4. TypeOK'
    <2>1. events' \in 0 .. MaxEvents
      BY DEF TypeOK, CheckNode, Event
    <2>2. rules' \in [Slots -> SUBSET Workers] /\ strayed' \subseteq Slots
      BY <1>0 DEF TypeOK, ReleaseRoute
    <2>3. hnew' \in [Slots -> Row]
      BY <1>0, <1>3 DEF TypeOK
    <2> QED BY <1>0, <2>1, <2>2, <2>3 DEF TypeOK, workerVars, operatorVars
  <1>5. RouteFollowsWrite'
    <2> SUFFICES ASSUME NEW x \in Slots \ strayed'
                 PROVE  rules'[x] = Routed(Latest(x)) \ (Gone(x)' \cup Lost(x))
      BY <1>0 DEF RouteFollowsWrite, Latest, Lost, Cut, operatorVars
    <2>1. x \notin strayed /\ rules[x] = Routed(Latest(x)) \ (Gone(x) \cup Lost(x))
      BY <1>2 DEF RouteFollowsWrite
    <2>2. CASE x # s
      BY <1>0, <1>2, <2>1, <2>2 DEF Gone, Dropped
    <2>3. CASE x = s /\ link # "up" /\ r.st = "assigned" /\ ReleaseRoute(s, r.w, reached)
                     /\ hnew'[s] = Judged(r, link, late)
      <3>1. hnew'[s] = [st |-> "reconnecting", w |-> NoWorker]
        <4> HIDE DEF link
        <4> QED BY <2>3, JudgedShape
      <3>2. hnew'[s] # r
        BY <2>3, <3>1
      <3>3. Gone(s)' = {r.w} /\ Gone(s) = {}
        BY <1>0, <1>1, <2>3, <3>2 DEF Gone, Dropped
      <3>4. rules'[s] = rules[s] \ {r.w}
        BY <1>0, <2>3 DEF ReleaseRoute, TypeOK
      <3> QED BY <2>1, <2>3, <3>3, <3>4
    <2>4. CASE x = s /\ UNCHANGED rules /\ (r.st = "assigned" => hnew'[s] = r)
      <3>1. Gone(s)' = {} /\ Gone(s) = {}
        BY <1>0, <1>1, <2>4 DEF Gone, Dropped
      <3> QED BY <2>1, <2>4, <3>1
    <2>5. r.st = "assigned" /\ link = "up" => Judged(r, link, late) = r
      <3> HIDE DEF link
      <3> QED BY JudgedShape
    <2>6. hnew' = hnew \/ hnew'[s] = Judged(r, link, late)
      BY <1>0 DEF TypeOK
    <2>7. CASE x = s /\ hnew' = hnew /\ UNCHANGED rules
      BY <1>0, <1>1, <2>4, <2>7
    <2>8. CASE x = s /\ hnew'[s] = Judged(r, link, late) /\ link # "up" /\ r.st = "assigned"
               /\ ReleaseRoute(s, r.w, reached)
      BY <2>3, <2>8
    <2>9. CASE x = s /\ hnew'[s] = Judged(r, link, late)
               /\ ~(link # "up" /\ r.st = "assigned") /\ UNCHANGED rules
      BY <2>4, <2>5, <2>9
    <2>10. \/ hnew' = hnew /\ UNCHANGED rules
           \/ /\ hnew'[s] = Judged(r, link, late)
              /\ IF link # "up" /\ r.st = "assigned" THEN ReleaseRoute(s, r.w, reached)
                 ELSE UNCHANGED rules
      BY <1>0, <1>1, <2>6 DEF TypeOK
    <2> HIDE DEF link
    <2> QED BY <2>2, <2>7, <2>8, <2>9, <2>10
  <1>6. RowsAreSound'
    BY <1>0, <1>2 DEF RowsAreSound
  <1>7. NamedIsServed'
    BY <1>0 DEF NamedIsServed, Served, workerVars, operatorVars
  <1>8. RequestShape'
    BY <1>0 DEF RequestShape, workerVars
  <1>9. LockShape'
    BY <1>0, <1>2, LocksBeforeFlush DEF workerVars
  <1>10. HealthShape' /\ OperatorShape'
    <2>1. \A x \in Slots :
             /\ x \in htodo' => hpc' = "check" /\ hnew'[x] = hseen'[x]
             /\ hpc' = "warm" /\ hseen'[x] # NoRow => lock'[x] = Health
      BY <1>0, <1>2 DEF HealthShape
    <2>2. \A x \in Slots : hnew'[x].w \in {hseen'[x].w, NoWorker}
      BY <1>0, <1>2, <1>3 DEF HealthShape
    <2>3. ASSUME NEW x \in Slots \ strayed'
          PROVE  \/ hnew'[x] = hseen'[x]
                 \/ /\ hseen'[x].st = "assigned"
                    /\ hnew'[x] = [st |-> "reconnecting", w |-> NoWorker]
                 \/ /\ hseen'[x].st # "assigned" /\ hnew'[x].st # "assigned"
                    /\ hnew'[x].w = hseen'[x].w
      <3>1. CASE x = s
        BY <1>0, <1>3, <3>1
      <3>2. CASE x # s
        BY <1>0, <1>2, <3>2 DEF HealthShape
      <3> QED BY <3>1, <3>2
    <2>4. OperatorShape'
      BY <1>0 DEF OperatorShape, operatorVars
    <2> QED BY <2>1, <2>2, <2>3, <2>4 DEF HealthShape
  <1>11. SessionHasSlot'
    BY <1>0, <1>2 DEF SessionHasSlot, Served, workerVars
  <1> QED BY <1>4, <1>5, <1>6, <1>7, <1>8, <1>9, <1>10, <1>11

\* Sets of slots are finite.
LEMMA SlotCount ==
    ASSUME NEW S \in SUBSET Slots
    PROVE  Cardinality(S) \in 0 .. MaxSlots
  <1>1. IsFiniteSet(Slots) /\ Cardinality(Slots) = MaxSlots
    BY SlotsAssumption, FS_Interval DEF Slots
  <1>2. IsFiniteSet(S) /\ Cardinality(S) <= MaxSlots
    BY <1>1, FS_Subset
  <1> QED BY <1>2, FS_CardinalityType, SlotsAssumption

\* The flush, node by node: a changed node whose row is still as it was loaded
\* becomes what the tick made of it, a node without a change keeps its row.
LEMMA FlushEffect ==
    ASSUME IInv, FlushHealth, NEW s \in Slots
    PROVE  \/ /\ hseen[s] = NoRow
              /\ lock'[s] = lock[s] /\ draft'[s] = draft[s]
              /\ s \in strayed' <=> s \in strayed
           \/ /\ hseen[s] # NoRow
              /\ lock[s] = NoTx /\ lock'[s] = Health
              /\ draft'[s] \in Row
              /\ draft'[s].w \in {row[s].w, hnew[s].w}
              /\ hnew[s] = hseen[s] => draft'[s] = row[s]
              /\ s \notin strayed' /\ hnew[s] # hseen[s] =>
                    draft'[s].st = hnew[s].st /\ draft'[s].w = hnew[s].w /\ row[s] = hseen[s]
              /\ s \in strayed => s \in strayed'
  <1>1. CASE hseen[s] = NoRow
    BY <1>1 DEF FlushHealth
  <1>2. CASE hseen[s] # NoRow
    <2> DEFINE m == [st |-> IF hnew[s].st = hseen[s].st THEN row[s].st ELSE hnew[s].st,
                     w  |-> IF hnew[s].w = hseen[s].w THEN row[s].w ELSE hnew[s].w]
    <2>1. lock[s] = NoTx /\ lock'[s] = Health /\ draft'[s] = m
      BY <1>2 DEF FlushHealth, Merged
    <2>2. strayed' = strayed \cup {x \in {y \in Slots : hseen[y] # NoRow} :
                                      hnew[x] # hseen[x] /\ row[x] # hseen[x]}
      BY DEF FlushHealth
    <2>3. row[s] \in Row /\ hnew[s] \in Row
      BY DEF IInv, TypeOK
    <2>4. m \in Row /\ m.w \in {row[s].w, hnew[s].w}
      BY <2>3 DEF Row
    <2>5. hnew[s] = hseen[s] => m = row[s]
      BY <2>3 DEF Row
    <2>6. s \notin strayed' /\ hnew[s] # hseen[s] => row[s] = hseen[s]
      BY <1>2, <2>2
    <2>7. row[s] = hseen[s] => m.st = hnew[s].st /\ m.w = hnew[s].w
      OBVIOUS
    <2> HIDE DEF m
    <2> QED BY <1>2, <2>1, <2>2, <2>4, <2>5, <2>6, <2>7
  <1> QED BY <1>1, <1>2

\* The flush keeps the invariant: whom the tick dropped has lost its route.
LEMMA FlushHealthIInv == IInv /\ FlushHealth => IInv'
  <1> SUFFICES ASSUME IInv, FlushHealth PROVE IInv'
    OBVIOUS
  <1> USE OwnersAssumption, SlotsAssumption DEF IInv
  <1>n. NoRow.st = "none"
    BY DEF NoRow
  <1>0. /\ hpc = "check" /\ hpc' = "warm" /\ htodo = {}
        /\ UNCHANGED <<row, vm, rules, workerVars, hseen, hnew, htodo, cap, operatorVars,
                       events, razing, parted>>
    BY DEF FlushHealth
  <1>e. \A x \in Slots :
           \/ /\ hseen[x] = NoRow
              /\ lock'[x] = lock[x] /\ draft'[x] = draft[x]
              /\ x \in strayed' <=> x \in strayed
           \/ /\ hseen[x] # NoRow
              /\ lock[x] = NoTx /\ lock'[x] = Health
              /\ draft'[x] \in Row
              /\ draft'[x].w \in {row[x].w, hnew[x].w}
              /\ hnew[x] = hseen[x] => draft'[x] = row[x]
              /\ x \notin strayed' /\ hnew[x] # hseen[x] =>
                    draft'[x].st = hnew[x].st /\ draft'[x].w = hnew[x].w /\ row[x] = hseen[x]
              /\ x \in strayed => x \in strayed'
    BY FlushEffect
  <1>1. TypeOK'
    <2>1. hleft' \in 0 .. BatchSize
      <3>1. PICK n \in 0 .. MaxSlots :
               \/ hleft' = 0
               \/ hleft' = IF (IF Target > n THEN Target - n ELSE 0) < BatchSize
                           THEN (IF Target > n THEN Target - n ELSE 0) ELSE BatchSize
        BY SlotCount DEF FlushHealth
      <3> QED BY <3>1
    <2>2. lock' \in [Slots -> Workers \cup {Health, NoTx}] /\ draft' \in [Slots -> Row]
      BY <1>e DEF FlushHealth, TypeOK
    <2>3. strayed' \subseteq Slots
      BY DEF FlushHealth, TypeOK
    <2> QED BY <1>0, <2>1, <2>2, <2>3 DEF TypeOK, workerVars, operatorVars
  <1>2. ASSUME NEW x \in Slots \ strayed', hseen[x] # NoRow
        PROVE  /\ Sound(draft'[x])
               /\ rules[x] = Routed(draft'[x]) \ Lost(x)
               /\ Routed(draft'[x]) = Routed(row[x]) \/ hseen[x].w # hnew[x].w
    <2>1. /\ x \notin strayed /\ lock[x] = NoTx
          /\ hnew[x] = hseen[x] => draft'[x] = row[x]
          /\ hnew[x] # hseen[x] =>
                draft'[x].st = hnew[x].st /\ draft'[x].w = hnew[x].w /\ row[x] = hseen[x]
      BY <1>e, <1>2
    <2>2. rules[x] = Routed(row[x]) \ (Gone(x) \cup Lost(x)) /\ Sound(row[x]) /\ Sound(hseen[x])
      BY <2>1 DEF RouteFollowsWrite, Latest, RowsAreSound
    <2>3. CASE hnew[x] = hseen[x]
      BY <2>1, <2>2, <2>3 DEF Gone, Dropped
    <2>4. CASE hseen[x].st = "assigned" /\ hnew[x] = [st |-> "reconnecting", w |-> NoWorker]
      <3>1. hnew[x] # hseen[x] /\ hnew[x].st = "reconnecting" /\ hnew[x].w = NoWorker
        BY <2>4
      <3>2. Gone(x) = {hseen[x].w}
        BY <1>0, <2>4 DEF Gone, Dropped
      <3>3. Routed(row[x]) = {hseen[x].w} /\ hseen[x].w # NoWorker
        BY <2>1, <2>2, <2>4 DEF Routed, Sound
      <3>4. draft'[x].st = "reconnecting" /\ draft'[x].w = NoWorker
        BY <2>1, <3>1
      <3>5. Routed(draft'[x]) = {} /\ Sound(draft'[x])
        BY <3>4 DEF Routed, Sound
      <3> QED BY <2>2, <3>1, <3>2, <3>3, <3>5
    <2>5. CASE hseen[x].st # "assigned" /\ hnew[x].st # "assigned" /\ hnew[x].w = hseen[x].w
               /\ hnew[x] # hseen[x]
      <3>1. Routed(row[x]) = {}
        BY <2>1, <2>5 DEF Routed
      <3>2. draft'[x].st # "assigned" /\ draft'[x].w = NoWorker
        BY <2>1, <2>2, <2>5 DEF Sound
      <3>3. Routed(draft'[x]) = {} /\ Sound(draft'[x])
        BY <3>2 DEF Routed, Sound
      <3> QED BY <2>2, <3>1, <3>3
    <2> QED BY <2>1, <2>3, <2>4, <2>5 DEF HealthShape, OperatorShape
  <1>3. RouteFollowsWrite'
    <2> SUFFICES ASSUME NEW x \in Slots \ strayed'
                 PROVE  rules'[x] = Routed(Latest(x))' \ (Gone(x)' \cup Lost(x)')
      BY DEF RouteFollowsWrite
    <2>1. Gone(x)' = {} /\ rules' = rules /\ Lost(x)' = Lost(x)
      BY <1>0 DEF Gone, Dropped, Lost, Cut, operatorVars
    <2>2. CASE hseen[x] = NoRow
      <3>1. Latest(x)' = Latest(x) /\ x \notin strayed /\ Gone(x) = {}
        BY <1>0, <1>e, <1>n, <2>2 DEF Latest, Gone, Dropped
      <3> QED BY <2>1, <3>1 DEF RouteFollowsWrite
    <2>3. CASE hseen[x] # NoRow
      <3>1. Latest(x)' = draft'[x]
        BY <1>e, <2>3 DEF Latest
      <3> QED BY <1>2, <2>1, <2>3, <3>1
    <2> QED BY <2>2, <2>3
  <1>4. RowsAreSound'
    <2> SUFFICES ASSUME NEW x \in Slots \ strayed'
                 PROVE  Sound(row[x]) /\ Sound(hseen[x]) /\ (lock'[x] # NoTx => Sound(draft'[x]))
      BY <1>0 DEF RowsAreSound
    <2>1. x \notin strayed
      BY <1>e
    <2>2. CASE hseen[x] = NoRow
      BY <1>e, <2>2 DEF RowsAreSound
    <2>3. CASE hseen[x] # NoRow
      BY <1>2, <2>1, <2>3 DEF RowsAreSound
    <2> QED BY <2>2, <2>3
  <1>5. NamedIsServed'
    <2> SUFFICES ASSUME NEW x \in Slots, NEW v \in Workers
                 PROVE  /\ row[x].w = v \/ hseen[x].w = v \/ oseen.w = v => Served(v)
                        /\ lock'[x] # NoTx /\ draft'[x].w = v
                              => Served(v) \/ (lock'[x] = v /\ pc[v] = "commit")
      BY <1>0 DEF NamedIsServed, Served, workerVars, operatorVars
    <2>1. CASE hseen[x] = NoRow
      BY <1>e, <2>1 DEF NamedIsServed
    <2>2. CASE hseen[x] # NoRow
      <3>1. draft'[x].w \in {row[x].w, hseen[x].w, NoWorker}
        BY <1>e, <2>2 DEF HealthShape, OperatorShape
      <3> QED BY <3>1 DEF NamedIsServed
    <2> QED BY <2>1, <2>2
  <1>6. RequestShape'
    <2>1. \A x \in Slots : lock[x] # NoTx => lock'[x] = lock[x] /\ draft'[x] = draft[x]
      BY <1>e
    <2>2. ASSUME NEW v \in Workers, pc[v] = "commit", own[v] # NoSlot
          PROVE  lock'[own[v]] = v /\ draft'[own[v]] = [st |-> "assigned", w |-> v]
      <3>1. own[v] \in Slots
        BY <2>2 DEF TypeOK
      <3>2. lock[own[v]] = v /\ draft[own[v]] = [st |-> "assigned", w |-> v]
        BY <2>2 DEF RequestShape
      <3> QED BY <2>1, <3>1, <3>2
    <2> QED BY <1>0, <2>2 DEF RequestShape, workerVars
  <1>7. LockShape'
    <2>1. \A x \in Slots : Routed(draft[x])' = Routed(draft'[x]) /\ Routed(row[x])' = Routed(row[x])
      BY <1>0
    <2>2. \A v \in Workers : Open(v)' = Open(v)
      BY <1>0 DEF Open, workerVars
    <2>3. ASSUME NEW x \in Slots \ strayed', lock'[x] = Health
          PROVE  Routed(draft'[x]) = Routed(row[x]) \/ hseen[x].w # hnew[x].w
      <3>1. lock[x] # Health
        BY <1>0 DEF LockShape
      <3>2. hseen[x] # NoRow
        BY <1>e, <2>3, <3>1
      <3> QED BY <1>2, <3>2
    <2>4. ASSUME NEW x \in Slots, NEW v \in Workers, lock'[x] = v
          PROVE  \/ /\ Open(v)
                    /\ x \in strayed' \/ draft'[x] = [st |-> "assigned", w |-> v]
                       \/ Routed(draft'[x]) = Routed(row[x])
                 \/ /\ pc[v] \in {"freeing", "again"} /\ x = own[v]
                    /\ draft'[x] \in {row'[x], [st |-> "idle", w |-> NoWorker]}
      <3>1. lock[x] = v /\ draft'[x] = draft[x] /\ (x \in strayed => x \in strayed')
        BY <1>e, <2>4
      <3> QED BY <1>0, <3>1 DEF LockShape
    <2> HIDE DEF IInv
    <2> QED BY <1>0, <2>1, <2>2, <2>3, <2>4 DEF LockShape, workerVars
  <1>8. HealthShape' /\ OperatorShape'
    <2>1. \A x \in Slots : hseen[x] # NoRow => lock'[x] = Health
      BY <1>e
    <2>2. \A x \in Slots : x \notin strayed' => x \notin strayed
      BY <1>e
    <2> QED BY <1>0, <2>1, <2>2 DEF HealthShape, OperatorShape, operatorVars
  <1>9. SessionHasSlot'
    <2>1. \A x \in Slots : x \in strayed => x \in strayed'
      BY <1>e
    <2>2. \A v \in Workers : own[v] \in Slots \cup {NoSlot}
      BY DEF TypeOK
    <2> QED BY <1>0, <2>1, <2>2 DEF SessionHasSlot, Served, workerVars
  <1> QED BY <1>1, <1>3, <1>4, <1>5, <1>6, <1>7, <1>8, <1>9

\* The forced warm-pool round writes rows of slots that nobody uses.
LEMMA WarmIInv ==
    ASSUME IInv, NEW link \in Links, WarmInHealth(link)
    PROVE  IInv'
  <1> USE OwnersAssumption, SlotsAssumption DEF IInv
  <1>0. PICK s \in Slots :
           /\ hpc = "warm" /\ hleft > 0 /\ Free(Health, s)
           /\ View(Health, s).st \in {"none", "destroyed"}
           /\ vm' = [vm EXCEPT ![s] = link]
           /\ Write(Health, s, [View(Health, s) EXCEPT !.st = StateOf(link)])
           /\ hleft' = hleft - 1
           /\ UNCHANGED <<row, rules, workerVars, hpc, hseen, hnew, htodo, cap,
                          operatorVars, events, razing, strayed, parted>>
    BY NextFreeSlotIsUnused DEF WarmInHealth, Created, Unused
  <1>a. /\ lock'[s] = Health /\ draft'[s] \in Row
        /\ draft'[s].st \in {"idle", "connecting"} /\ draft'[s].w = View(Health, s).w
        /\ \A x \in Slots \ {s} : lock'[x] = lock[x] /\ draft'[x] = draft[x]
    <2>1. StateOf(link) \in States /\ StateOf(link) \in {"idle", "connecting"}
      BY DEF StateOf, States
    <2>2. View(Health, s) \in Row
      BY RowStates
    <2>3. lock'[s] = Health /\ draft'[s] = [View(Health, s) EXCEPT !.st = StateOf(link)]
      BY <1>0 DEF Write, TypeOK
    <2>4. \A x \in Slots \ {s} : lock'[x] = lock[x] /\ draft'[x] = draft[x]
      BY <1>0 DEF Write
    <2> QED BY <2>1, <2>2, <2>3, <2>4, StateChange
  <1>b. lock[s] \in {NoTx, Health} /\ Health # NoTx /\ Health \notin Workers
        /\ View(Health, s) = Latest(s)
    BY <1>0 DEF Free, View, Latest
  <1>c. \A x \in Slots : Routed(draft[x])' = Routed(draft'[x]) /\ Routed(row[x])' = Routed(row[x])
    BY <1>0
  <1>1. TypeOK'
    <2>1. lock' \in [Slots -> Workers \cup {Health, NoTx}] /\ draft' \in [Slots -> Row]
      BY <1>0, <1>a DEF Write, TypeOK
    <2>2. vm' \in [Slots -> {"absent", "down", "up"}] /\ hleft' \in 0 .. BatchSize
      BY <1>0 DEF TypeOK, Links
    <2> QED BY <1>0, <2>1, <2>2 DEF TypeOK, workerVars, operatorVars
  <1>2. ASSUME s \notin strayed
        PROVE  /\ View(Health, s).w = NoWorker /\ Routed(Latest(s)) = {}
               /\ Routed(draft'[s]) = {} /\ Sound(draft'[s])
    <2>1. Sound(Latest(s))
      BY <1>2 DEF RowsAreSound, Latest
    <2>2. View(Health, s).w = NoWorker
      BY <1>0, <1>b, <2>1 DEF Sound
    <2> QED BY <1>0, <1>a, <1>b, <2>2 DEF Routed, Sound
  <1>3. RouteFollowsWrite'
    <2> SUFFICES ASSUME NEW x \in Slots \ strayed
                 PROVE  rules[x] = Routed(Latest(x))' \ (Gone(x) \cup Lost(x))
      BY <1>0 DEF RouteFollowsWrite, Gone, Dropped, Lost, Cut, operatorVars
    <2>1. CASE x = s
      <3>1. Routed(Latest(x))' = {}
        BY <1>a, <1>2, <2>1 DEF Latest
      <3> QED BY <1>0, <1>2, <2>1, <3>1 DEF RouteFollowsWrite
    <2>2. CASE x # s
      BY <1>0, <1>a, <2>2 DEF RouteFollowsWrite, Latest
    <2> QED BY <2>1, <2>2
  <1>4. RowsAreSound'
    <2> SUFFICES ASSUME NEW x \in Slots \ strayed
                 PROVE  Sound(row[x]) /\ Sound(hseen[x]) /\ (lock'[x] # NoTx => Sound(draft'[x]))
      BY <1>0 DEF RowsAreSound
    <2>1. CASE x = s
      BY <1>2, <2>1 DEF RowsAreSound
    <2>2. CASE x # s
      BY <1>a, <2>2 DEF RowsAreSound
    <2> QED BY <2>1, <2>2
  <1>5. NamedIsServed'
    <2> SUFFICES ASSUME NEW x \in Slots, NEW v \in Workers
                 PROVE  /\ row[x].w = v \/ hseen[x].w = v \/ oseen.w = v => Served(v)
                        /\ lock'[x] # NoTx /\ draft'[x].w = v
                              => Served(v) \/ (lock'[x] = v /\ pc[v] = "commit")
      BY <1>0 DEF NamedIsServed, Served, workerVars, operatorVars
    <2>1. CASE x = s
      BY <1>a DEF NamedIsServed, View
    <2>2. CASE x # s
      BY <1>a, <2>2 DEF NamedIsServed
    <2> QED BY <2>1, <2>2
  <1>6. RequestShape'
    <2>1. ASSUME NEW v \in Workers, pc[v] = "commit", own[v] # NoSlot
          PROVE  lock'[own[v]] = v /\ draft'[own[v]] = [st |-> "assigned", w |-> v]
      <3>1. own[v] \in Slots /\ lock[own[v]] = v
            /\ draft[own[v]] = [st |-> "assigned", w |-> v]
        BY <2>1 DEF TypeOK, RequestShape
      <3> QED BY <1>a, <1>b, <3>1
    <2> QED BY <1>0, <2>1 DEF RequestShape, workerVars
  <1>7. LockShape'
    <2>1. \A v \in Workers : Open(v)' = Open(v)
      BY <1>0 DEF Open, workerVars
    <2>2. ASSUME NEW x \in Slots \ strayed, lock'[x] = Health
          PROVE  Routed(draft'[x]) = Routed(row[x]) \/ hseen[x].w # hnew[x].w
      <3>1. CASE x # s
        BY <1>a, <2>2, <3>1 DEF LockShape
      <3>2. CASE x = s /\ lock[s] = NoTx
        BY <1>2, <3>2 DEF Latest
      <3>3. CASE x = s /\ lock[s] = Health
        <4>1. Routed(draft[s]) = {} /\ Routed(draft'[s]) = {}
          BY <1>2, <3>3 DEF Latest
        <4> QED BY <3>3, <4>1 DEF LockShape
      <3> QED BY <1>b, <3>1, <3>2, <3>3
    <2>3. ASSUME NEW x \in Slots, NEW v \in Workers, lock'[x] = v
          PROVE  \/ /\ Open(v)
                    /\ x \in strayed \/ draft'[x] = [st |-> "assigned", w |-> v]
                       \/ Routed(draft'[x]) = Routed(row[x])
                 \/ /\ pc[v] \in {"freeing", "again"} /\ x = own[v]
                    /\ draft'[x] \in {row'[x], [st |-> "idle", w |-> NoWorker]}
      <3>1. lock[x] = v /\ draft'[x] = draft[x]
        BY <1>a, <1>b, <2>3
      <3> QED BY <1>0, <3>1 DEF LockShape
    <2>4. \A x \in Slots : lock'[x] = Health => hpc' = "warm"
      BY <1>0
    <2>5. UNCHANGED <<hseen, hnew, strayed, row, pc, own>>
      BY <1>0 DEF workerVars
    <2>6. ASSUME NEW x \in Slots
          PROVE  /\ lock'[x] = Health => hpc' = "warm"
                 /\ lock'[x] = Health /\ x \notin strayed' =>
                       Routed(draft[x])' = Routed(row[x])' \/ hseen'[x].w # hnew'[x].w
      BY <1>c, <2>2, <2>4, <2>5
    <2> QED BY <2>1, <2>3, <2>5, <2>6 DEF LockShape
  <1>8. HealthShape' /\ OperatorShape'
    BY <1>0, <1>a DEF HealthShape, OperatorShape, operatorVars
  <1>9. SessionHasSlot'
    BY <1>0 DEF SessionHasSlot, Served, workerVars
  <1> QED BY <1>1, <1>3, <1>4, <1>5, <1>6, <1>7, <1>8, <1>9

\* The tick ends: its ORM objects are gone.
LEMMA EndHealthEffect ==
    ASSUME TypeOK, EndHealth
    PROVE  /\ hpc' = "idle" /\ htodo' = {} /\ hleft' \in 0 .. BatchSize
           /\ hseen' \in [Slots -> Row] /\ hnew' \in [Slots -> Row]
           /\ HealthShape'
           /\ \A s \in Slots : Sound(hseen[s])' /\ hseen'[s].w = NoWorker /\ Gone(s)' = {}
  <1>1. NoRow \in Row /\ NoRow.w = NoWorker /\ NoRow.st = "none"
    BY DEF NoRow, Row, States
  <1>2. /\ hpc' = "idle" /\ htodo' = {} /\ hleft' \in 0 .. BatchSize
        /\ hseen' \in [Slots -> Row] /\ hnew' \in [Slots -> Row]
        /\ \A s \in Slots : hseen'[s] = NoRow /\ hnew'[s] = NoRow
    BY <1>1, SlotsAssumption DEF EndHealth
  <1>3. HealthShape'
    BY <1>2 DEF HealthShape
  <1> QED BY <1>1, <1>2, <1>3 DEF Sound, Gone, Dropped

\* The tick's transaction ends: nobody else's lock changes, and requests stand
\* where they stood.
LEMMA HealthUnlock ==
    ASSUME IInv, Unlock(Health), UNCHANGED workerVars
    PROVE  /\ \A x \in Slots : lock[x] = Health => lock'[x] = NoTx
           /\ \A x \in Slots : lock[x] # Health => lock'[x] = lock[x] /\ draft'[x] = draft[x]
           /\ RequestShape'
  <1> USE OwnersAssumption DEF IInv, workerVars
  <1>1. /\ \A x \in Slots : lock[x] = Health => lock'[x] = NoTx
        /\ \A x \in Slots : lock[x] # Health => lock'[x] = lock[x] /\ draft'[x] = draft[x]
    BY DEF Unlock
  <1>2. ASSUME NEW v \in Workers, pc[v] = "commit", own[v] # NoSlot
        PROVE  lock'[own[v]] = v /\ draft'[own[v]] = [st |-> "assigned", w |-> v]
    <2>1. own[v] \in Slots /\ lock[own[v]] = v
          /\ draft[own[v]] = [st |-> "assigned", w |-> v]
      BY <1>2 DEF TypeOK, RequestShape
    <2> QED BY <1>1, <2>1
  <1>3. RequestShape'
    BY <1>2 DEF RequestShape
  <1> QED BY <1>1, <1>3

\* The locks that are left are requests', on rows that the tick does not write.
LEMMA HealthLockShape ==
    ASSUME IInv, Unlock(Health), UNCHANGED workerVars, strayed \subseteq strayed',
           \A x \in Slots : lock[x] # Health => row'[x] = row[x]
    PROVE  LockShape'
  <1> USE OwnersAssumption DEF IInv
  <1>1. \A x \in Slots : lock'[x] # Health
    BY DEF Unlock
  <1>2. \A v \in Workers : Open(v)' = Open(v)
    BY DEF Open, workerVars
  <1>4. ASSUME NEW x \in Slots, NEW v \in Workers, lock'[x] = v
        PROVE  \/ /\ Open(v)
                  /\ x \in strayed' \/ draft'[x] = [st |-> "assigned", w |-> v]
                     \/ Routed(draft'[x]) = Routed(row'[x])
               \/ /\ pc[v] \in {"freeing", "again"} /\ x = own[v]
                  /\ draft'[x] \in {row'[x], [st |-> "idle", w |-> NoWorker]}
    <2>1. lock[x] = v /\ lock[x] # Health
      BY <1>4 DEF Unlock
    <2>2. draft'[x] = draft[x] /\ row'[x] = row[x]
      BY <2>1 DEF Unlock
    <2> QED BY <2>1, <2>2 DEF LockShape
  <1>5. UNCHANGED <<pc, own>>
    BY DEF workerVars
  <1> QED BY <1>1, <1>2, <1>4, <1>5 DEF LockShape

\* The tick's commit: its drafts become the rows, and whoever loses a slot by it
\* is recorded.
LEMMA HealthCommit ==
    ASSUME IInv, hpc = "warm", CommitRows(Health), EndHealth,
           UNCHANGED <<rules, workerVars, operatorVars, strayed>>
    PROVE  /\ RouteFollowsWrite' /\ RowsAreSound' /\ NamedIsServed'
           /\ LockShape' /\ OperatorShape' /\ SessionHasSlot'
  <1> USE OwnersAssumption DEF IInv
  <1>a. /\ Unlock(Health)
        /\ \A x \in Slots : lock[x] = Health => lock'[x] = NoTx /\ row'[x] = draft[x]
        /\ \A x \in Slots : lock[x] # Health => /\ lock'[x] = lock[x] /\ draft'[x] = draft[x]
                                                /\ row'[x] = row[x]
    BY DEF CommitRows, Unlock, View
  <1>b. \A x \in Slots : /\ Gone(x) = {} /\ Gone(x)' = {} /\ Lost(x)' = Lost(x)
                         /\ Sound(hseen[x])' /\ hseen'[x].w = NoWorker
    BY EndHealthEffect DEF Gone, Dropped, Lost, Cut, operatorVars
  <1>1. RouteFollowsWrite'
    <2> SUFFICES ASSUME NEW x \in Slots \ strayed
                 PROVE  rules[x] = Routed(Latest(x))' \ (Gone(x)' \cup Lost(x)')
      BY DEF RouteFollowsWrite
    <2>1. Latest(x)' = Latest(x)
      BY <1>a DEF Latest
    <2> QED BY <1>b, <2>1 DEF RouteFollowsWrite
  <1>2. RowsAreSound'
    <2>1. \A x \in Slots \ strayed :
             Sound(row'[x]) /\ (lock'[x] # NoTx => Sound(draft'[x]))
      BY <1>a DEF RowsAreSound
    <2> QED BY <1>b, <2>1 DEF RowsAreSound
  <1>3. NamedIsServed'
    <2> SUFFICES ASSUME NEW x \in Slots, NEW v \in Workers
                 PROVE  /\ row'[x].w = v => Served(v)
                        /\ lock'[x] # NoTx /\ draft'[x].w = v
                              => Served(v) \/ (lock'[x] = v /\ pc[v] = "commit")
      BY <1>b DEF NamedIsServed, Served, workerVars, operatorVars
    <2>1. CASE lock[x] = Health
      BY <1>a DEF NamedIsServed
    <2>2. CASE lock[x] # Health
      BY <1>a DEF NamedIsServed
    <2> QED BY <2>1, <2>2
  <1>4. LockShape'
    BY <1>a, HealthLockShape
  <1>5. SessionHasSlot'
    <2> SUFFICES ASSUME NEW v \in Workers, Served(v), own[v] # NoSlot
                 PROVE  own[v] \in strayed \/ v \in parted' \/ row'[own[v]].w = v
      BY DEF SessionHasSlot, Served, workerVars
    <2>1. own[v] \in Slots
      BY DEF TypeOK
    <2>2. own[v] \in strayed \/ v \in parted \/ row[own[v]].w = v
      BY DEF SessionHasSlot, Served
    <2> QED BY <2>1, <2>2 DEF CommitRows
  <1>6. OperatorShape'
    BY DEF OperatorShape, operatorVars
  <1> QED BY <1>1, <1>2, <1>3, <1>4, <1>5, <1>6

\* The tick's transaction is rolled back: where it had dropped a session the slot
\* strays, elsewhere its drafts stood for the same routes as the rows.
LEMMA HealthRollBack ==
    ASSUME IInv, Unlock(Health), EndHealth, UNCHANGED <<row, rules, workerVars, operatorVars, parted>>,
           strayed' = strayed \cup {s \in Slots : hseen[s].w # hnew[s].w}
    PROVE  /\ RouteFollowsWrite' /\ RowsAreSound' /\ NamedIsServed'
           /\ LockShape' /\ OperatorShape' /\ SessionHasSlot'
  <1> USE OwnersAssumption DEF IInv
  <1>a. /\ \A x \in Slots : lock[x] = Health => lock'[x] = NoTx
        /\ \A x \in Slots : lock[x] # Health => lock'[x] = lock[x] /\ draft'[x] = draft[x]
    BY HealthUnlock
  <1>b. \A x \in Slots : /\ Gone(x)' = {} /\ Lost(x)' = Lost(x)
                         /\ Sound(hseen[x])' /\ hseen'[x].w = NoWorker
    BY EndHealthEffect DEF Lost, Cut, operatorVars
  <1>c. ASSUME NEW x \in Slots \ strayed'
        PROVE  x \notin strayed /\ hseen[x].w = hnew[x].w
    BY <1>c
  <1>1. RouteFollowsWrite'
    <2> SUFFICES ASSUME NEW x \in Slots \ strayed'
                 PROVE  rules[x] = Routed(Latest(x))' \ (Gone(x)' \cup Lost(x)')
      BY DEF RouteFollowsWrite
    <2>1. Gone(x) = {}
      <3>1. Sound(hseen[x])
        BY DEF RowsAreSound
      <3> QED BY <3>1 DEF HealthShape, Gone, Dropped, Sound
    <2>2. rules[x] = Routed(Latest(x)) \ Lost(x)
      BY <2>1 DEF RouteFollowsWrite
    <2>3. CASE lock[x] = Health
      <3>1. Routed(draft[x]) = Routed(row[x])
        BY <2>3 DEF LockShape
      <3>2. Latest(x) = draft[x] /\ Latest(x)' = row[x]
        BY <1>a, <2>3 DEF Latest
      <3> QED BY <1>b, <2>2, <3>1, <3>2
    <2>4. CASE lock[x] # Health
      <3>1. Latest(x)' = Latest(x)
        BY <1>a, <2>4 DEF Latest
      <3> QED BY <1>b, <2>2, <3>1
    <2> QED BY <2>3, <2>4
  <1>2. RowsAreSound'
    <2>1. \A x \in Slots \ strayed' :
             Sound(row[x]) /\ (lock'[x] # NoTx => Sound(draft'[x]))
      BY <1>a DEF RowsAreSound
    <2> QED BY <1>b, <2>1 DEF RowsAreSound
  <1>3. NamedIsServed'
    <2> SUFFICES ASSUME NEW x \in Slots, NEW v \in Workers
                 PROVE  /\ row[x].w = v => Served(v)
                        /\ lock'[x] # NoTx /\ draft'[x].w = v
                              => Served(v) \/ (lock'[x] = v /\ pc[v] = "commit")
      BY <1>b DEF NamedIsServed, Served, workerVars, operatorVars
    <2>1. CASE lock[x] = Health
      BY <1>a DEF NamedIsServed
    <2>2. CASE lock[x] # Health
      BY <1>a DEF NamedIsServed
    <2> QED BY <2>1, <2>2
  <1>4. LockShape'
    BY HealthLockShape
  <1>5. SessionHasSlot'
    BY DEF SessionHasSlot, Served, workerVars
  <1>6. OperatorShape'
    BY DEF OperatorShape, operatorVars
  <1> QED BY <1>1, <1>2, <1>3, <1>4, <1>5, <1>6

\* reconcile_pool_capacity commits the tick, or leaves it to be rolled back.
LEMMA ReconcileIInv ==
    ASSUME IInv, ReconcilePoolCapacity
    PROVE  IInv'
  <1> USE SlotsAssumption DEF IInv
  <1>0. /\ hpc = "warm" /\ EndHealth
        /\ UNCHANGED <<vm, rules, bound, pc, own, seen, workerVars, opc, oslot, oup, oseen, asked,
                       operatorVars, events, razing>>
    BY DEF ReconcilePoolCapacity, workerVars, operatorVars
  <1>1. CASE /\ cap' = Capacity(Health) /\ CommitRows(Health) /\ UNCHANGED strayed
    <2>1. Capacity(Health) \in 0 .. MaxSlots
      BY SlotCount DEF Capacity
    <2>2. TypeOK'
      BY <1>0, <1>1, <2>1, CommitType, EndHealthEffect DEF TypeOK
    <2>3. RequestShape'
      BY <1>0, <1>1, HealthUnlock DEF CommitRows
    <2> QED BY <1>0, <1>1, <2>2, <2>3, HealthCommit, EndHealthEffect
  <1>2. CASE /\ Unlock(Health) /\ strayed' = strayed \cup {s \in Slots : hseen[s].w # hnew[s].w}
             /\ UNCHANGED <<cap, row, parted>>
    <2>1. TypeOK'
      BY <1>0, <1>2, UnlockType, EndHealthEffect DEF TypeOK
    <2>2. RequestShape'
      BY <1>0, <1>2, HealthUnlock
    <2> QED BY <1>0, <1>2, <2>1, <2>2, HealthRollBack, EndHealthEffect
  <1> QED BY <1>1, <1>2 DEF ReconcilePoolCapacity

\* The worker process dies in a tick.
LEMMA AbortHealthIInv ==
    ASSUME IInv, AbortHealth
    PROVE  IInv'
  <1> USE SlotsAssumption DEF IInv
  <1>0. /\ Unlock(Health) /\ EndHealth /\ Event
        /\ strayed' = strayed \cup {s \in Slots : hseen[s].w # hnew[s].w}
        /\ UNCHANGED <<row, vm, rules, bound, pc, own, seen, workerVars, cap, opc, oslot, oup,
                       oseen, asked, operatorVars, razing, parted>>
    BY DEF AbortHealth, workerVars, operatorVars
  <1>1. TypeOK'
    BY <1>0, UnlockType, EndHealthEffect DEF TypeOK, Event
  <1>2. RequestShape'
    BY <1>0, HealthUnlock
  <1> QED BY <1>0, <1>1, <1>2, HealthRollBack, EndHealthEffect

\* An operator's request writes and commits one row that no transaction holds.
LEMMA OperatorWrite ==
    ASSUME IInv, NEW s \in Slots, NEW r \in Row, lock[s] = NoTx,
           row' = [row EXCEPT ![s] = r], r.w \in {row[s].w, NoWorker},
           UNCHANGED <<lock, draft, workerVars, tickVars>>,
           oseen'.w \in {oseen.w, NoWorker},
           \A x \in Slots \ {s} : Lost(x)' = Lost(x),
           strayed \subseteq strayed',
           parted' = parted \cup {v \in Workers : row[s].w = v /\ r.w # v},
           \A x \in Slots \ {s} : rules'[x] = rules[x],
           s \notin strayed' => Sound(r) /\ rules'[s] = Routed(r) \ (Gone(s) \cup Lost(s)')
    PROVE  /\ RouteFollowsWrite' /\ RowsAreSound' /\ NamedIsServed' /\ RequestShape'
           /\ LockShape' /\ HealthShape' /\ SessionHasSlot' /\ parted' \subseteq Workers
           /\ row' \in [Slots -> Row]
  <1> USE OwnersAssumption DEF IInv, workerVars, tickVars
  <1>a. /\ row'[s] = r /\ row' \in [Slots -> Row]
        /\ \A x \in Slots \ {s} : row'[x] = row[x]
    BY DEF TypeOK
  <1>b. \A x \in Slots : /\ Sound(row[x])' = Sound(row'[x]) /\ Routed(row[x])' = Routed(row'[x])
                         /\ Gone(x)' = Gone(x)
    BY DEF Gone, Dropped
  <1>1. RouteFollowsWrite'
    <2> SUFFICES ASSUME NEW x \in Slots \ strayed'
                 PROVE  rules'[x] = Routed(Latest(x))' \ (Gone(x) \cup Lost(x)')
      BY <1>b DEF RouteFollowsWrite
    <2>1. CASE x = s
      <3>1. Latest(x)' = r
        BY <1>a, <2>1 DEF Latest
      <3> QED BY <2>1, <3>1
    <2>2. CASE x # s
      <3>1. Latest(x)' = Latest(x)
        BY <2>2 DEF Latest
      <3> QED BY <2>2, <3>1 DEF RouteFollowsWrite
    <2> QED BY <2>1, <2>2
  <1>2. RowsAreSound'
    <2> SUFFICES ASSUME NEW x \in Slots \ strayed'
                 PROVE  Sound(row'[x]) /\ Sound(hseen[x]) /\ (lock[x] # NoTx => Sound(draft[x]))
      BY DEF RowsAreSound
    <2>1. CASE x = s
      <3>1. Sound(hseen[s]) \/ s \in strayed
        BY DEF RowsAreSound
      <3> QED BY <1>a, <2>1, <3>1
    <2>2. CASE x # s
      BY DEF RowsAreSound
    <2> QED BY <2>1, <2>2
  <1>3. NamedIsServed'
    <2> SUFFICES ASSUME NEW x \in Slots, NEW v \in Workers
                 PROVE  /\ row'[x].w = v \/ hseen[x].w = v \/ oseen'.w = v => Served(v)
                        /\ lock[x] # NoTx /\ draft[x].w = v
                              => Served(v) \/ (lock[x] = v /\ pc[v] = "commit")
      BY DEF NamedIsServed, Served
    <2> QED BY DEF NamedIsServed
  <1>4. RequestShape'
    BY DEF RequestShape
  <1>5. LockShape'
    <2>2. \A v \in Workers : Open(v)' = Open(v)
      BY DEF Open
    <2>4. ASSUME NEW x \in Slots
          PROVE  /\ lock'[x] = Health => hpc' = "warm"
                 /\ lock'[x] = Health /\ x \notin strayed' =>
                       Routed(draft[x])' = Routed(row[x])' \/ hseen'[x].w # hnew'[x].w
      BY DEF LockShape
    <2>5. ASSUME NEW x \in Slots, NEW v \in Workers, lock[x] = v
          PROVE  \/ /\ Open(v)'
                    /\ x \in strayed' \/ draft'[x] = [st |-> "assigned", w |-> v]
                       \/ Routed(draft[x])' = Routed(row[x])'
                 \/ /\ pc'[v] \in {"freeing", "again"} /\ x = own'[v]
                    /\ draft'[x] \in {row'[x], [st |-> "idle", w |-> NoWorker]}
      <3> QED BY <2>2, <2>5 DEF LockShape
    <2> QED BY <2>4, <2>5 DEF LockShape
  <1>6. HealthShape'
    BY DEF HealthShape
  <1>7. SessionHasSlot'
    <2> SUFFICES ASSUME NEW v \in Workers, Served(v), own[v] # NoSlot
                 PROVE  own[v] \in strayed' \/ v \in parted' \/ row'[own[v]].w = v
      BY DEF SessionHasSlot, Served
    <2>1. own[v] \in Slots
      BY DEF TypeOK
    <2>2. own[v] \in strayed \/ v \in parted \/ row[own[v]].w = v
      BY DEF SessionHasSlot, Served
    <2> QED BY <1>a, <2>1, <2>2
  <1>8. parted' \subseteq Workers
    BY DEF TypeOK
  <1> QED BY <1>a, <1>1, <1>2, <1>3, <1>4, <1>5, <1>6, <1>7, <1>8

\* An operator's request goes on without writing a row: the routes need only be
\* looked at where it touched them.
LEMMA OperatorMove ==
    ASSUME IInv, UNCHANGED <<row, lock, draft, workerVars, tickVars, parted>>,
           \A v \in Workers : oseen'.w = v => Served(v),
           strayed \subseteq strayed',
           \A x \in Slots \ strayed' :
              rules'[x] = Routed(Latest(x)) \ (Gone(x) \cup Lost(x)')
    PROVE  /\ RouteFollowsWrite' /\ RowsAreSound' /\ NamedIsServed' /\ RequestShape'
           /\ LockShape' /\ HealthShape' /\ SessionHasSlot'
  <1> USE DEF IInv, workerVars, tickVars
  <1>1. RouteFollowsWrite'
    BY DEF RouteFollowsWrite, Latest, Gone, Dropped, Routed
  <1>2. RowsAreSound'
    BY DEF RowsAreSound
  <1>3. NamedIsServed'
    BY DEF NamedIsServed, Served
  <1>4. RequestShape'
    BY DEF RequestShape
  <1>5. LockShape'
    <2>1. \A w \in Workers : Open(w)' = Open(w)
      BY DEF Open
    <2>2. LockShape
      OBVIOUS
    <2>3. \A x \in Slots : Routed(draft[x])' = Routed(draft[x]) /\ Routed(row[x])' = Routed(row[x])
      BY DEF Routed
    <2> HIDE DEF IInv
    <2>4. ASSUME NEW x \in Slots, NEW w \in Workers, lock[x] = w
          PROVE  \/ /\ Open(w)'
                    /\ x \in strayed' \/ draft'[x] = [st |-> "assigned", w |-> w]
                       \/ Routed(draft[x])' = Routed(row[x])'
                 \/ /\ pc'[w] \in {"freeing", "again"} /\ x = own'[w]
                    /\ draft'[x] \in {row'[x], [st |-> "idle", w |-> NoWorker]}
      BY <2>1, <2>2, <2>3, <2>4 DEF LockShape
    <2> QED BY <2>2, <2>3, <2>4 DEF LockShape
  <1>6. HealthShape'
    BY DEF HealthShape
  <1>7. SessionHasSlot'
    BY DEF SessionHasSlot, Served
  <1> QED BY <1>1, <1>2, <1>3, <1>4, <1>5, <1>6, <1>7

\* destroy_slot in the database: the row names nobody, and a slot whose route
\* was left strays.
LEMMA DestroyRowIInv ==
    ASSUME IInv, NEW s \in Slots, DestroyRow(s)
    PROVE  IInv'
  <1> USE OwnersAssumption DEF IInv
  <1> DEFINE r == IF row[s] = NoRow THEN row[s] ELSE [st |-> "destroyed", w |-> NoWorker]
  <1>0. /\ lock[s] = NoTx /\ row' = [row EXCEPT ![s] = r]
        /\ razing' = razing \ {s} /\ strayed \subseteq strayed' /\ strayed' \subseteq Slots
        /\ parted' = parted \cup {w \in Workers : row[s].w = w}
        /\ UNCHANGED <<lock, draft, vm, rules, bound, pc, own, seen, workerVars, hpc, hseen,
                       hnew, htodo, hleft, cap, tickVars, opc, oslot, oup, oseen, asked, events>>
    BY DEF DestroyRow, workerVars, healthVars, tickVars, TypeOK
  <1>1. r \in Row /\ r.w = NoWorker /\ r.st # "assigned"
    BY DEF Row, States, NoRow
  <1>2. parted' = parted \cup {v \in Workers : row[s].w = v /\ r.w # v}
    BY <1>0, <1>1
  <1>3. s \notin strayed' => Sound(r) /\ rules'[s] = Routed(r) \ (Gone(s) \cup Lost(s)')
    <2>1. s \notin strayed' => rules[s] = {}
      BY DEF DestroyRow
    <2> QED BY <1>0, <1>1, <2>1 DEF Sound, Routed
  <1>4. \A x \in Slots : Lost(x)' = Lost(x)
    BY <1>0 DEF Lost, Cut
  <1>5. /\ RouteFollowsWrite' /\ RowsAreSound' /\ NamedIsServed' /\ RequestShape'
        /\ LockShape' /\ HealthShape' /\ SessionHasSlot' /\ parted' \subseteq Workers
        /\ row' \in [Slots -> Row]
    <2> HIDE DEF r
    <2> QED BY <1>0, <1>1, <1>2, <1>3, <1>4, OperatorWrite
  <1>6. TypeOK'
    BY <1>0, <1>5 DEF TypeOK
  <1>7. OperatorShape'
    BY <1>0 DEF OperatorShape
  <1> QED BY <1>5, <1>6, <1>7

\* destroy_slot's scripts fail.
LEMMA DestroyFailsIInv ==
    ASSUME IInv, NEW s \in Slots, DestroyFails(s)
    PROVE  IInv'
  <1> USE DEF IInv
  <1>0. /\ UNCHANGED <<row, lock, draft, vm, rules, bound, pc, own, seen, workerVars, hpc, hseen,
                       hnew, htodo, hleft, cap, tickVars, opc, oslot, oup, oseen, asked, events,
                       strayed, parted>>
        /\ razing' = razing \ {s}
    BY DEF DestroyFails, workerVars, healthVars, tickVars
  <1>1. \A x \in Slots : Lost(x)' = Lost(x)
    BY <1>0 DEF Lost, Cut
  <1>2. TypeOK' /\ OperatorShape'
    BY <1>0 DEF TypeOK, OperatorShape
  <1>3. \A v \in Workers : oseen'.w = v => Served(v)
    BY <1>0, SlotFacts DEF NamedIsServed
  <1> QED BY <1>0, <1>1, <1>2, <1>3, OperatorMove DEF RouteFollowsWrite

\* The end of an operator's request: its node is gone.
LEMMA EndRequestEffect ==
    ASSUME EndRequest
    PROVE  /\ opc' = "idle" /\ oslot' \in Slots \cup {NoSlot} /\ oup' \in BOOLEAN
           /\ oseen' \in Row /\ oseen'.w = NoWorker /\ asked' = asked
           /\ OperatorShape' /\ \A x \in Slots : Lost(x)' = {}
  <1>1. NoRow \in Row /\ NoRow.w = NoWorker
    BY DEF NoRow, Row, States
  <1> QED BY <1>1 DEF EndRequest, OperatorShape, Lost, Cut

\* An operator's provision or health check begins.
LEMMA BeginRequestIInv ==
    ASSUME IInv, NEW s \in Slots,
           BeginProvision(s) \/ \E up \in BOOLEAN : CheckSlot(s, up)
    PROVE  IInv'
  <1> USE SlotsAssumption DEF IInv
  <1>0. /\ opc = "idle" /\ opc' \in {"create", "asked"} /\ oslot' = s
        /\ oup' \in BOOLEAN /\ oseen' \in {oseen, row[s]} /\ asked' \in 0 .. MaxAsked
        /\ opc' = "create" => oseen'.st \in {"none", "down", "destroyed"}
        /\ UNCHANGED <<row, lock, draft, vm, rules, bound, pc, own, seen, workerVars, hpc, hseen,
                       hnew, htodo, hleft, cap, tickVars, events, razing, strayed, parted>>
    BY DEF BeginProvision, CheckSlot, Ask, workerVars, tickVars, TypeOK
  <1>1. \A x \in Slots : Lost(x)' = {} /\ Lost(x) = {}
    BY <1>0 DEF Lost, Cut
  <1>2. TypeOK' /\ OperatorShape'
    BY <1>0 DEF TypeOK, OperatorShape
  <1>3. \A v \in Workers : oseen'.w = v => Served(v)
    BY <1>0 DEF NamedIsServed
  <1> QED BY <1>0, <1>1, <1>2, <1>3, OperatorMove DEF RouteFollowsWrite

\* health_check_slot loads the node.
LEMMA LoadNodeIInv ==
    ASSUME IInv, LoadNode
    PROVE  IInv'
  <1> USE DEF IInv
  <1>0. PICK s \in Slots :
           /\ s = oslot /\ opc = "asked" /\ oseen' = row[s]
           /\ opc' = IF ~oup /\ row[s].st = "assigned" THEN "drop" ELSE "flush"
           /\ UNCHANGED <<row, lock, draft, vm, rules, bound, pc, own, seen, workerVars, hpc,
                          hseen, hnew, htodo, hleft, cap, tickVars, oslot, oup, asked, events,
                          razing, strayed, parted>>
    BY DEF LoadNode, workerVars, tickVars, OperatorShape
  <1>1. \A x \in Slots : Lost(x)' = {} /\ Lost(x) = {}
    BY <1>0 DEF Lost, Cut
  <1>2. TypeOK' /\ OperatorShape'
    BY <1>0 DEF TypeOK, OperatorShape
  <1>3. \A v \in Workers : oseen'.w = v => Served(v)
    BY <1>0 DEF NamedIsServed
  <1> QED BY <1>0, <1>1, <1>2, <1>3, OperatorMove DEF RouteFollowsWrite

\* health_check_slot removes the route of the worker that it loaded the node with.
LEMMA DropRouteIInv ==
    ASSUME IInv, NEW reached \in BOOLEAN, DropRoute(reached)
    PROVE  IInv'
  <1> USE DEF IInv
  <1>0. PICK s \in Slots :
           /\ s = oslot /\ opc = "drop" /\ opc' = "flush" /\ ~oup /\ oseen.st = "assigned"
           /\ rules' = [rules EXCEPT ![s] = IF reached THEN @ \ {oseen.w} ELSE @]
           /\ strayed' = IF reached \/ oseen.w \notin rules[s] THEN strayed ELSE strayed \cup {s}
           /\ UNCHANGED <<row, lock, draft, vm, bound, pc, own, seen, workerVars, hpc,
                          hseen, hnew, htodo, hleft, cap, tickVars, oslot, oup, oseen, asked,
                          events, razing, parted>>
    BY DEF DropRoute, ReleaseRoute, workerVars, tickVars, OperatorShape
  <1>1. \A x \in Slots : Lost(x) = {} /\ Lost(x)' = IF x = s THEN {oseen.w} ELSE {}
    BY <1>0 DEF Lost, Cut
  <1>2. TypeOK' /\ OperatorShape'
    BY <1>0 DEF TypeOK, OperatorShape
  <1>3. \A v \in Workers : oseen'.w = v => Served(v)
    BY <1>0 DEF NamedIsServed
  <1>4. ASSUME NEW x \in Slots \ strayed'
        PROVE  rules'[x] = Routed(Latest(x)) \ (Gone(x) \cup Lost(x)')
    <2>1. rules[x] = Routed(Latest(x)) \ Gone(x)
      BY <1>0, <1>1 DEF RouteFollowsWrite
    <2>2. rules'[x] = IF x = s THEN rules[x] \ {oseen.w} ELSE rules[x]
      BY <1>0 DEF TypeOK
    <2> QED BY <1>1, <2>1, <2>2
  <1>5. strayed \subseteq strayed'
    BY <1>0
  <1> QED BY <1>0, <1>2, <1>3, <1>4, <1>5, OperatorMove

\* An operator's request fails: where it had removed a route the slot strays.
LEMMA AbortRequestIInv ==
    ASSUME IInv, NEW reached \in BOOLEAN, AbortRequest(reached)
    PROVE  IInv'
  <1> USE DEF IInv
  <1>0. /\ opc # "idle" /\ oslot \in Slots /\ EndRequest
        /\ UNCHANGED <<row, lock, draft, vm, bound, pc, own, seen, workerVars, hpc,
                       hseen, hnew, htodo, hleft, cap, tickVars, events, razing, parted>>
    BY DEF AbortRequest, workerVars, tickVars, OperatorShape
  <1>1. /\ \A x \in Slots \ strayed' : x \notin strayed /\ rules'[x] = rules[x] /\ Lost(x) = {}
        /\ rules' \in [Slots -> SUBSET Workers] /\ strayed \subseteq strayed'
        /\ strayed' \subseteq Slots
    <2>1. CASE opc = "drop"
      <3>1. ReleaseRaises(oslot, oseen.w, reached)
        BY <2>1 DEF AbortRequest
      <3>2. \A x \in Slots : Lost(x) = {}
        BY <2>1 DEF Lost, Cut
      <3>3. \A x \in Slots \ strayed' : x \notin strayed /\ rules'[x] = rules[x]
        <4>1. SUFFICES ASSUME NEW x \in Slots \ strayed'
                       PROVE  x \notin strayed /\ rules'[x] = rules[x]
          OBVIOUS
        <4>2. CASE reached /\ oseen.w \in rules[oslot]
          BY <1>0, <3>1, <4>1, <4>2 DEF ReleaseRaises, TypeOK
        <4>3. CASE ~(reached /\ oseen.w \in rules[oslot])
          BY <1>0, <3>1, <4>1, <4>3 DEF ReleaseRaises, TypeOK
        <4> QED BY <4>2, <4>3
      <3> QED BY <1>0, <3>1, <3>2, <3>3 DEF ReleaseRaises, TypeOK
    <2>2. CASE opc # "drop"
      BY <2>2 DEF AbortRequest, Lost, TypeOK
    <2> QED BY <2>1, <2>2
  <1>2. TypeOK' /\ OperatorShape'
    BY <1>0, <1>1, EndRequestEffect DEF TypeOK
  <1>3. \A v \in Workers : oseen'.w # v
    BY <1>0, EndRequestEffect, OwnersAssumption
  <1>4. ASSUME NEW x \in Slots \ strayed'
        PROVE  rules'[x] = Routed(Latest(x)) \ (Gone(x) \cup Lost(x)')
    BY <1>0, <1>1, EndRequestEffect DEF RouteFollowsWrite
  <1> QED BY <1>0, <1>1, <1>2, <1>3, <1>4, OperatorMove

\* The provision endpoint: a slot that nobody has gets a state, and no worker; or
\* its INSERT comes second, and changes nothing.
LEMMA ProvisionIInv ==
    ASSUME IInv, NEW link \in Links, ProvisionSlot(link)
    PROVE  IInv'
  <1> USE OwnersAssumption DEF IInv
  <1>0. PICK s \in Slots :
           /\ s = oslot /\ opc = "create" /\ oseen.st \in {"none", "down", "destroyed"}
           /\ lock[s] = NoTx /\ vm' = [vm EXCEPT ![s] = link]
           /\ \/ UNCHANGED <<row, strayed>>
              \/ /\ row' = [row EXCEPT ![s] = [row[s] EXCEPT !.st = StateOf(link)]]
                 /\ strayed' = IF row[s].st = oseen.st THEN strayed ELSE strayed \cup {s}
           /\ EndRequest
           /\ UNCHANGED <<lock, draft, rules, bound, pc, own, seen, workerVars, hpc, hseen,
                          hnew, htodo, hleft, cap, tickVars, events, razing, parted>>
    BY DEF ProvisionSlot, Created, workerVars, tickVars, OperatorShape
  <1>1. \A x \in Slots : Lost(x) = {} /\ Lost(x)' = {}
    BY <1>0, EndRequestEffect DEF Lost, Cut
  <1>2. vm' \in [Slots -> {"absent", "down", "up"}] /\ OperatorShape'
    BY <1>0, EndRequestEffect DEF TypeOK, Links
  <1>3. CASE UNCHANGED <<row, strayed>>
    <2>1. TypeOK'
      BY <1>0, <1>2, <1>3, EndRequestEffect DEF TypeOK
    <2>2. \A v \in Workers : oseen'.w # v
      BY <1>0, EndRequestEffect
    <2> QED BY <1>0, <1>1, <1>2, <1>3, <2>1, <2>2, OperatorMove DEF RouteFollowsWrite
  <1>4. CASE /\ row' = [row EXCEPT ![s] = [row[s] EXCEPT !.st = StateOf(link)]]
             /\ strayed' = IF row[s].st = oseen.st THEN strayed ELSE strayed \cup {s}
    <2> DEFINE r == [row[s] EXCEPT !.st = StateOf(link)]
    <2>1. r \in Row /\ r.w = row[s].w /\ r.st # "assigned"
      <3>1. StateOf(link) \in States /\ StateOf(link) # "assigned"
        BY DEF StateOf, States
      <3> QED BY <3>1, RowStates, StateChange
    <2>2. s \notin strayed' => Sound(r) /\ rules'[s] = Routed(r) \ (Gone(s) \cup Lost(s)')
      <3> SUFFICES ASSUME s \notin strayed'
                   PROVE  Sound(r) /\ rules'[s] = Routed(r) \ (Gone(s) \cup Lost(s)')
        OBVIOUS
      <3>1. s \notin strayed /\ row[s].st \in {"none", "down", "destroyed"}
        BY <1>0, <1>4
      <3>2. row[s].w = NoWorker
        BY <3>1 DEF RowsAreSound, Sound
      <3>3. rules[s] = {}
        BY <1>0, <3>1 DEF RouteFollowsWrite, Latest, Routed
      <3> QED BY <1>0, <2>1, <3>2, <3>3 DEF Sound, Routed
    <2>3. /\ parted' = parted \cup {v \in Workers : row[s].w = v /\ r.w # v}
          /\ oseen'.w = NoWorker /\ strayed \subseteq strayed' /\ strayed' \subseteq Slots
      BY <1>0, <1>4, <2>1, EndRequestEffect DEF TypeOK
    <2>4. /\ RouteFollowsWrite' /\ RowsAreSound' /\ NamedIsServed' /\ RequestShape'
          /\ LockShape' /\ HealthShape' /\ SessionHasSlot' /\ row' \in [Slots -> Row]
      <3> HIDE DEF r
      <3> QED BY <1>0, <1>1, <1>4, <2>1, <2>2, <2>3, OperatorWrite DEF r
    <2>5. TypeOK'
      BY <1>0, <1>2, <2>3, <2>4, EndRequestEffect DEF TypeOK
    <2> QED BY <1>2, <2>4, <2>5
  <1> QED BY <1>0, <1>3, <1>4

\* What health_check_slot makes of the node that it loaded.
LEMMA CheckedShape ==
    ASSUME NEW r \in Row, NEW up \in BOOLEAN
    PROVE  /\ Checked(r, up) \in Row
           /\ Checked(r, up).w \in {r.w, NoWorker}
           /\ r.st = "assigned" /\ ~up => Checked(r, up).st = "reconnecting"
                                          /\ Checked(r, up).w = NoWorker
           /\ r.st = "assigned" /\ up => Checked(r, up) = r
           /\ r.st # "assigned" => Checked(r, up).st # "assigned" /\ Checked(r, up).w = r.w
  <1>1. /\ {"idle", "reconnecting", "down"} \subseteq States
        /\ [st |-> "reconnecting", w |-> NoWorker] \in Row
    BY DEF States, Row
  <1>2. CASE up /\ r.st \in {"reconnecting", "connecting", "down"}
    BY <1>1, <1>2, StateChange DEF Checked
  <1>3. CASE up /\ r.st \notin {"reconnecting", "connecting", "down"}
    BY <1>3 DEF Checked
  <1>4. CASE ~up /\ r.st = "assigned"
    BY <1>1, <1>4 DEF Checked
  <1>5. CASE ~up /\ r.st = "idle"
    BY <1>1, <1>5, StateChange DEF Checked
  <1>6. CASE ~up /\ r.st \notin {"assigned", "idle"}
    BY <1>1, <1>6, StateChange DEF Checked
  <1> QED BY <1>2, <1>3, <1>4, <1>5, <1>6

\* health_check_slot flushes and commits: the session of a slot without a link
\* loses it, its route being gone; a node that others changed meanwhile strays.
LEMMA FlushNodeIInv ==
    ASSUME IInv, FlushNode
    PROVE  IInv'
  <1> USE OwnersAssumption DEF IInv
  <1> DEFINE new == Checked(oseen, oup)
  <1>s. PICK s \in Slots : s = oslot
    BY DEF FlushNode, OperatorShape
  <1> DEFINE r == Merged(oseen, new, row[s])
  <1>0. /\ s = oslot /\ opc = "flush" /\ lock[s] = NoTx
        /\ row' = [row EXCEPT ![s] = r]
        /\ parted' = parted \cup {w \in Workers : row[s].w = w /\ row'[s].w # w}
        /\ strayed' = IF new = oseen \/ row[s] = oseen THEN strayed ELSE strayed \cup {s}
        /\ EndRequest
        /\ UNCHANGED <<lock, draft, vm, rules, bound, pc, own, seen, workerVars, hpc, hseen,
                       hnew, htodo, hleft, cap, tickVars, events, razing>>
    BY <1>s DEF FlushNode, workerVars, tickVars
  <1>1. /\ oseen \in Row /\ row[s] \in Row /\ oup \in BOOLEAN /\ new \in Row
        /\ new.w \in {oseen.w, NoWorker}
        /\ oseen.st = "assigned" /\ ~oup => new.st = "reconnecting" /\ new.w = NoWorker
        /\ oseen.st = "assigned" /\ oup => new = oseen
        /\ oseen.st # "assigned" => new.st # "assigned" /\ new.w = oseen.w
    BY <1>0, CheckedShape DEF TypeOK
  <1> HIDE DEF new
  <1>2. /\ r \in Row /\ r.w \in {row[s].w, NoWorker}
        /\ new = oseen => r = row[s]
        /\ row[s] = oseen => r.st = new.st /\ r.w = new.w
    BY <1>1 DEF Merged, Row
  <1> HIDE DEF r
  <1>3. /\ parted' = parted \cup {v \in Workers : row[s].w = v /\ r.w # v}
        /\ oseen'.w = NoWorker /\ strayed \subseteq strayed' /\ strayed' \subseteq Slots
    BY <1>0, EndRequestEffect DEF TypeOK
  <1>4. \A x \in Slots : Lost(x)' = {} /\ (x # s => Lost(x) = {})
    BY <1>0, EndRequestEffect DEF Lost, Cut
  <1>5. s \notin strayed' => Sound(r) /\ rules'[s] = Routed(r) \ (Gone(s) \cup Lost(s)')
    <2> SUFFICES ASSUME s \notin strayed'
                 PROVE  Sound(r) /\ rules[s] = Routed(r) \ Gone(s)
      BY <1>0, <1>4
    <2>1. /\ s \notin strayed /\ Sound(row[s])
          /\ rules[s] = Routed(row[s]) \ (Gone(s) \cup Lost(s))
      BY <1>0, <1>3 DEF RouteFollowsWrite, RowsAreSound, Latest
    <2>2. CASE new = oseen
      <3>1. Lost(s) = {}
        BY <1>1, <2>2 DEF Lost, Cut
      <3> QED BY <1>2, <2>1, <2>2, <3>1
    <2>3. CASE row[s] = oseen /\ oseen.st = "assigned" /\ ~oup
      <3>1. Lost(s) = {oseen.w} /\ Routed(row[s]) = {oseen.w}
        BY <1>0, <2>3 DEF Lost, Cut, Routed
      <3>2. Sound(r) /\ Routed(r) = {}
        BY <1>1, <1>2, <2>3 DEF Sound, Routed
      <3> QED BY <2>1, <3>1, <3>2
    <2>4. CASE row[s] = oseen /\ oseen.st # "assigned"
      <3>1. Routed(row[s]) = {} /\ row[s].w = NoWorker
        BY <2>1, <2>4 DEF Routed, Sound
      <3>2. Sound(r) /\ Routed(r) = {}
        BY <1>1, <1>2, <2>4, <3>1 DEF Sound, Routed
      <3> QED BY <2>1, <3>1, <3>2
    <2> QED BY <1>0, <1>1, <2>2, <2>3, <2>4
  <1>6. /\ RouteFollowsWrite' /\ RowsAreSound' /\ NamedIsServed' /\ RequestShape'
        /\ LockShape' /\ HealthShape' /\ SessionHasSlot' /\ parted' \subseteq Workers
        /\ row' \in [Slots -> Row]
    <2>1. /\ \A x \in Slots \ {s} : Lost(x)' = Lost(x) /\ rules'[x] = rules[x]
          /\ UNCHANGED <<lock, draft, workerVars, tickVars>>
      BY <1>0, <1>4
    <2> QED BY <1>0, <1>2, <1>3, <1>5, <2>1, OperatorWrite
  <1>7. TypeOK' /\ OperatorShape'
    BY <1>0, <1>3, <1>6, EndRequestEffect DEF TypeOK
  <1> QED BY <1>6, <1>7

\* Every step preserves the invariant.
LEMMA NextIInv == IInv /\ [Next]_vars => IInv'
  <1> SUFFICES ASSUME IInv, [Next]_vars PROVE IInv'
    OBVIOUS
  <1>1. ASSUME NEW w \in Workers, Request(w) PROVE IInv'
    <2>1. CASE BeginAcquire(w) \/ Match(w)
      BY <2>1, ReadIInv
    <2>2. CASE Rotate(w)
      BY <2>2, RotateIInv
    <2>3. CASE Pick(w)
      BY <2>3, PickIInv
    <2>4. CASE \E link \in Links : Create(w, link)
      BY <2>4, CreateIInv
    <2>5. CASE AssignToWorker(w)
      BY <2>5, AssignIInv
    <2>6. CASE CommitSession(w)
      BY <2>6, CommitSessionIInv
    <2>7. CASE AbortSession(w)
      BY <2>7, AbortSessionIInv
    <2>8. CASE CommitTermination(w)
      BY <2>8, CommitTerminationIInv
    <2>9. CASE AbortTermination(w)
      BY <2>9, AbortTerminationIInv
    <2>10. CASE \E reached \in BOOLEAN : ReleaseFromWorker(w, reached)
      BY <2>10, ReleaseIInv
    <2> QED BY <1>1, <2>1, <2>2, <2>3, <2>4, <2>5, <2>6, <2>7, <2>8, <2>9, <2>10 DEF Request,
           Acquiring
  <1>2. CASE BeginHealth
    BY <1>2, BeginHealthIInv
  <1>3. CASE HealthStep
    <2>1. CASE \E s \in Slots, late, reached \in BOOLEAN, answer \in Answers :
                  CheckNode(s, late, answer, reached)
      BY <2>1, CheckNodeIInv
    <2>2. CASE \E link \in Links : WarmInHealth(link)
      BY <2>2, WarmIInv
    <2> QED BY <1>3, <2>1, <2>2, FlushHealthIInv, ReconcileIInv DEF HealthStep
  <1>4. CASE AbortHealth
    BY <1>4, AbortHealthIInv
  <1>5. CASE TickWarmpool
    BY <1>5, LinkIInv
  <1>6. ASSUME NEW s \in Slots, LinkDown(s) \/ LinkUp(s) PROVE IInv'
    BY <1>6, LinkIInv
  <1>7. ASSUME NEW s \in Slots, DestroyOnVm(s) PROVE IInv'
    BY <1>7, DestroyOnVmIInv
  <1>8. ASSUME NEW s \in Slots, DestroyRow(s) PROVE IInv'
    BY <1>8, DestroyRowIInv
  <1>9. ASSUME NEW s \in Slots, DestroyFails(s) PROVE IInv'
    BY <1>9, DestroyFailsIInv
  <1>10. CASE Operator
    <2>1. ASSUME NEW s \in Slots, BeginProvision(s) \/ \E up \in BOOLEAN : CheckSlot(s, up)
          PROVE  IInv'
      BY <2>1, BeginRequestIInv
    <2>2. ASSUME NEW link \in Links, ProvisionSlot(link) PROVE IInv'
      BY <2>2, ProvisionIInv
    <2>3. ASSUME NEW reached \in BOOLEAN, DropRoute(reached) PROVE IInv'
      BY <2>3, DropRouteIInv
    <2>4. ASSUME NEW reached \in BOOLEAN, AbortRequest(reached) PROVE IInv'
      BY <2>4, AbortRequestIInv
    <2> QED BY <1>10, <2>1, <2>2, <2>3, <2>4, LoadNodeIInv, FlushNodeIInv DEF Operator
  <1>11. CASE UNCHANGED vars
    <2> USE <1>11 DEF vars, IInv
    <2>1. TypeOK'
      BY DEF TypeOK
    <2>2. RouteFollowsWrite' /\ RowsAreSound'
      BY DEF RouteFollowsWrite, RowsAreSound, Latest, Gone, Dropped, Lost, Cut
    <2>3. NamedIsServed' /\ RequestShape'
      BY DEF NamedIsServed, RequestShape, Served
    <2>4. LockShape'
      BY DEF LockShape, Open
    <2>5. HealthShape' /\ OperatorShape' /\ SessionHasSlot'
      BY DEF HealthShape, OperatorShape, SessionHasSlot, Served
    <2> QED BY <2>1, <2>2, <2>3, <2>4, <2>5
  <1> QED BY <1>1, <1>2, <1>3, <1>4, <1>5, <1>6, <1>7, <1>8, <1>9, <1>10, <1>11 DEF Next

\* The invariant holds in every state of every behaviour: request transactions,
\* the health tick, the warm pool, operators and the network never bring a slot's
\* row and its routes apart other than by the events that `strayed` records.
THEOREM Invariance == Spec => []IInv
  BY InitIInv, NextIInv, PTL DEF Spec

\* Rows, drafts, routes and the tick's ORM objects keep their types; the warm-pool
\* round's and the events' bounds are kept.
THEOREM TypeCorrectness == Spec => []TypeOK
  <1>1. IInv => TypeOK
    BY DEF IInv
  <1> QED BY <1>1, Invariance, PTL

\* acquire_any, assign_to_worker, release_from_worker and the health tick never
\* route two workers through one residential address, for any number of slots,
\* workers and disturbances, unless the slot strayed.
THEOREM ExitIsOneWorkers == Spec => []OneWorkerPerExit
  <1>1. IInv => OneWorkerPerExit
    BY DEF IInv, RouteFollowsWrite, OneWorkerPerExit, Routed
  <1> QED BY <1>1, Invariance, PTL

\* While nobody is at work on a slot, the VM routes exactly the worker that the
\* committed row says is assigned.
THEOREM RoutesAreRecorded == Spec => []RouteAsRecorded
  <1>1. IInv => RouteAsRecorded
    BY DEF IInv, RouteFollowsWrite, RouteAsRecorded, Latest, Gone, Dropped, Lost, Cut, Routed
  <1> QED BY <1>1, Invariance, PTL

\* A first or a repeated termination takes the slot of another session only from
\* a worker whose own session had parted with it before.
THEOREM EvictorsHadParted == Spec => EvictorHadParted
  <1>1. ASSUME IInv, [Next]_vars
        PROVE  [\A w \in Workers :
                  /\ <<pc[w], pc'[w]>> \in {<<"live", "freeing">>, <<"ended", "again">>}
                  /\ own[w] \notin strayed
                  /\ row[own[w]].w \notin {w, NoWorker}
                  => w \in parted]_vars
    <2> SUFFICES ASSUME NEW w \in Workers,
                        <<pc[w], pc'[w]>> \in {<<"live", "freeing">>, <<"ended", "again">>},
                        own[w] \notin strayed, row[own[w]].w \notin {w, NoWorker}, Next
                 PROVE  w \in parted
      BY <1>1
    <2>0. pc[w] \in {"live", "ended"} /\ pc'[w] \in {"freeing", "again"}
      OBVIOUS
    <2>1. own'[w] = own[w]
      <3>1. ASSUME NEW v \in Workers, Request(v)
            PROVE  own'[w] = own[w]
        <4>1. CASE BeginAcquire(v) \/ Rotate(v) \/ Match(v) \/ Pick(v)
          BY <1>1, <2>0, <4>1 DEF BeginAcquire, Rotate, Match, Pick, IInv, TypeOK
        <4>2. CASE AssignToWorker(v) \/ CommitSession(v) \/ AbortSession(v)
          BY <1>1, <2>0, <4>2 DEF AssignToWorker, CommitSession, AbortSession, Open, IInv, TypeOK
        <4>3. CASE \E link \in Links : Create(v, link)
          BY <1>1, <2>0, <4>3 DEF Create, IInv, TypeOK
        <4>4. CASE \/ CommitTermination(v) \/ AbortTermination(v)
                   \/ \E reached \in BOOLEAN : ReleaseFromWorker(v, reached)
          BY <4>4 DEF CommitTermination, AbortTermination, ReleaseFromWorker
        <4> QED BY <3>1, <4>1, <4>2, <4>3, <4>4 DEF Request, Acquiring
      <3>2. CASE BeginHealth \/ HealthStep \/ AbortHealth \/ TickWarmpool
        BY <3>2 DEF BeginHealth, HealthStep, CheckNode, FlushHealth, WarmInHealth,
               ReconcilePoolCapacity, AbortHealth, TickWarmpool, workerVars
      <3>3. ASSUME NEW s \in Slots,
                   \/ DestroyOnVm(s) \/ DestroyRow(s) \/ DestroyFails(s)
                   \/ LinkDown(s) \/ LinkUp(s)
            PROVE  own'[w] = own[w]
        BY <3>3 DEF DestroyOnVm, DestroyRow, DestroyFails, LinkDown, LinkUp, workerVars
      <3>4. CASE Operator
        BY <3>4 DEF Operator, CheckSlot, BeginProvision, ProvisionSlot, LoadNode, FlushNode,
               DropRoute, AbortRequest, workerVars
      <3> QED BY <3>1, <3>2, <3>3, <3>4 DEF Next
    <2>2. own[w] # NoSlot
      <3>1. IInv'
        BY <1>1, NextIInv
      <3>2. own'[w] \in Slots
        BY <2>0, <3>1 DEF IInv, RequestShape
      <3> QED BY <2>1, <3>2, SlotFacts
    <2>3. Served(w)
      BY <2>0 DEF Served
    <2> QED BY <1>1, <2>2, <2>3 DEF IInv, SessionHasSlot
  <1> QED BY <1>1, Invariance, PTL DEF Spec, EvictorHadParted
=============================================================================
