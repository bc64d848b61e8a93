--------------------------- MODULE CronTickerProofs ---------------------------
(* Proofs about CronTicker, for every set of triggers, tickers and requests   *)
(* and every cron period.                                                     *)
EXTENDS CronTicker, TLAPS

\* get_prev() returns a slot strictly before the time it is asked for.
LEMMA PrevSlotIsBefore ==
    ASSUME NEW n \in Nat \ {0}
    PROVE  PrevSlot(n) \in Nat /\ PrevSlot(n) < n
  <1>1. /\ (n - 1) \div Period \in Nat
        /\ ((n - 1) \div Period) * Period \in Nat
        /\ ((n - 1) \div Period) * Period <= n - 1
    BY PeriodAssumption, SMT
  <1> QED BY <1>1 DEF PrevSlot

\* Slots are natural numbers.
LEMMA SlotsAreNat == Slots \subseteq Nat
  BY PrevSlotIsBefore DEF Slots

\* The inductive invariant holds initially.
LEMMA InitIInv == Init => IInv
  BY SkewAssumption, MaxTimeAssumption DEF Init, IInv, TypeOK, Times, NULL, TickFollowsClock,
         TimesArePast, ClosedHasNothing, LocksAreApart, SelectedIsDue, ClaimedIsDue, FiredIsPast

\* Time passes.
LEMMA AdvanceIInv == IInv /\ Advance => IInv'
  BY SkewAssumption, MaxTimeAssumption, SlotsAreNat DEF Advance, tickVars, IInv, TypeOK, Times,
         NULL, TickFollowsClock, TimesArePast, ClosedHasNothing, LocksAreApart, SelectedIsDue,
         ClaimedIsDue, FiredIsPast

\* A tick begins, or comes back after an abort.
LEMMA ReadClockIInv ==
    ASSUME IInv, NEW w \in Workers, ReadClock(w) \/ Recover(w)
    PROVE  IInv'
  <1> USE SkewAssumption, MaxTimeAssumption DEF IInv, TypeOK, ReadClock, Recover
  <1>1. TypeOK'
    <2>1. clock + Skew \in 0..(MaxTime + Skew)
      BY DEF Times
    <2>2. wpc' \in [Workers -> {"idle", "begun", "firing", "down"}]
      OBVIOUS
    <2>3. wnow' \in [Workers -> 0..(MaxTime + Skew)]
      BY <2>1
    <2> QED BY <2>2, <2>3
  <1>2. TickFollowsClock'
    BY DEF TickFollowsClock, Times
  <1>3. TimesArePast'
    <2>1. \A v \in Workers : wpc'[v] = "firing" => wpc[v] = "firing"
      OBVIOUS
    <2>2. UNCHANGED <<clock, last, ctx, wtx, seen, mine>> /\ TimesArePast
      OBVIOUS
    <2> HIDE DEF IInv, TypeOK, ReadClock, Recover
    <2> QED BY <2>1, <2>2 DEF TimesArePast
  <1>4. ClosedHasNothing'
    BY DEF ClosedHasNothing
  <1>5. LocksAreApart'
    BY DEF LocksAreApart
  <1>6. SelectedIsDue'
    BY DEF SelectedIsDue, ClosedHasNothing
  <1>7. ClaimedIsDue'
    BY DEF ClaimedIsDue, ClosedHasNothing
  <1>8. FiredIsPast'
    BY DEF FiredIsPast
  <1> QED BY <1>1, <1>2, <1>3, <1>4, <1>5, <1>6, <1>7, <1>8

\* The SELECT keeps the triggers that are due by the time the tick read.
LEMMA SelectIInv ==
    ASSUME IInv, NEW w \in Workers, NEW S \in Batches, SelectTriggers(w, S)
    PROVE  IInv'
  <1> USE SkewAssumption, MaxTimeAssumption DEF IInv, TypeOK, SelectTriggers
  <1>1. TypeOK'
    BY DEF Batches
  <1>2. TickFollowsClock'
    BY DEF TickFollowsClock
  <1>3. TimesArePast'
    BY DEF TimesArePast, Times
  <1>4. ClosedHasNothing'
    BY DEF ClosedHasNothing
  <1>5. LocksAreApart'
    BY DEF LocksAreApart
  <1>6. SelectedIsDue'
    BY DEF SelectedIsDue
  <1>7. ClaimedIsDue'
    BY DEF ClaimedIsDue
  <1>8. FiredIsPast'
    BY DEF FiredIsPast
  <1> QED BY <1>1, <1>2, <1>3, <1>4, <1>5, <1>6, <1>7, <1>8

\* The UPDATE hits only when last_fired_at is still what the SELECT returned, or
\* NULL; either way it lies before the slot.
LEMMA ClaimIInv ==
    ASSUME IInv, NEW w \in Workers, NEW t \in Triggers, Claim(w, t)
    PROVE  IInv'
  <1> USE SkewAssumption, MaxTimeAssumption DEF IInv, TypeOK, Claim
  <1>1. TypeOK'
    OBVIOUS
  <1>2. TickFollowsClock'
    BY DEF TickFollowsClock
  <1>a. last[t] = NULL \/ last[t] = seen[w][t] => last[t] <= wtx[w]
    BY DEF TimesArePast, NULL, Times
  <1>b. PrevSlot(wnow[w]) \in Nat
    BY PrevSlotIsBefore DEF TickFollowsClock
  <1>c. last[t] = NULL \/ last[t] = seen[w][t] => last[t] < PrevSlot(wnow[w])
    BY <1>b DEF SelectedIsDue, IsDue, NULL
  <1>3. TimesArePast'
    BY <1>a DEF TimesArePast
  <1>4. ClosedHasNothing'
    BY DEF ClosedHasNothing
  <1>5. LocksAreApart'
    BY DEF LocksAreApart, LockedFor
  <1>6. SelectedIsDue'
    BY DEF SelectedIsDue
  <1>7. ClaimedIsDue'
    BY <1>c DEF ClaimedIsDue
  <1>8. FiredIsPast'
    BY DEF FiredIsPast
  <1> QED BY <1>1, <1>2, <1>3, <1>4, <1>5, <1>6, <1>7, <1>8

\* The commit moves last_fired_at past the slot that it fires.
LEMMA CommitIInv ==
    ASSUME IInv, NEW w \in Workers, CommitTick(w)
    PROVE  IInv'
  <1> USE SkewAssumption, MaxTimeAssumption DEF IInv, TypeOK, CommitTick, ForgetTick
  <1>a. wnow[w] \in 1..(MaxTime + Skew)
    BY DEF TickFollowsClock
  <1>b. PrevSlot(wnow[w]) \in Slots
    BY <1>a DEF Slots
  <1>1. TypeOK'
    BY <1>b DEF Times
  <1>2. TickFollowsClock'
    BY DEF TickFollowsClock
  <1>3. TimesArePast'
    <2>2. \A v \in Workers \ {w} : \A t \in mine[v] : t \notin mine[w]
      BY DEF LocksAreApart
    <2> QED BY <2>2 DEF TimesArePast
  <1>4. ClosedHasNothing'
    BY DEF ClosedHasNothing
  <1>5. LocksAreApart'
    BY DEF LocksAreApart
  <1>6. SelectedIsDue'
    BY DEF SelectedIsDue
  <1>7. ClaimedIsDue'
    BY DEF ClaimedIsDue, LocksAreApart
  <1>8. FiredIsPast'
    <2> SUFFICES ASSUME NEW t \in Triggers \ byHand', NEW s \in Slots, fires'[t][s] > 0
                 PROVE  s < last'[t] + Skew
      BY DEF FiredIsPast
    <2>1. CASE t \notin mine[w]
      BY <2>1 DEF FiredIsPast
    <2>2. CASE t \in mine[w] /\ s = PrevSlot(wnow[w])
      <3>1. s < wnow[w] /\ s \in Nat
        BY <2>2, <1>a, PrevSlotIsBefore
      <3>2. wnow[w] <= wtx[w] + Skew /\ last'[t] = wtx[w]
        BY <2>2 DEF TickFollowsClock
      <3> QED BY <3>1, <3>2 DEF Times
    <2>3. CASE t \in mine[w] /\ s # PrevSlot(wnow[w])
      <3>1. s < last[t] + Skew
        BY <2>3 DEF FiredIsPast
      <3>2. last[t] <= wtx[w] /\ last'[t] = wtx[w]
        BY <2>3 DEF TimesArePast
      <3>3. s \in Int /\ last[t] \in Int /\ wtx[w] \in Int
        BY SlotsAreNat DEF Times, NULL
      <3> QED BY <3>1, <3>2, <3>3
    <2> QED BY <2>1, <2>2, <2>3
  <1> QED BY <1>1, <1>2, <1>3, <1>4, <1>5, <1>6, <1>7, <1>8

\* An aborted tick leaves no row locked and nothing written.
LEMMA AbortIInv ==
    ASSUME IInv, NEW w \in Workers, AbortTick(w)
    PROVE  IInv'
  <1> USE SkewAssumption, MaxTimeAssumption DEF IInv, TypeOK, AbortTick, ForgetTick
  <1>1. TypeOK'
    BY DEF Times
  <1>2. TickFollowsClock'
    BY DEF TickFollowsClock
  <1>3. TimesArePast'
    BY DEF TimesArePast
  <1>4. ClosedHasNothing'
    BY DEF ClosedHasNothing
  <1>5. LocksAreApart'
    BY DEF LocksAreApart
  <1>6. SelectedIsDue'
    BY DEF SelectedIsDue
  <1>7. ClaimedIsDue'
    BY DEF ClaimedIsDue
  <1>8. FiredIsPast'
    BY DEF FiredIsPast
  <1> QED BY <1>1, <1>2, <1>3, <1>4, <1>5, <1>6, <1>7, <1>8

\* fire_now waits for the row lock, so it leaves every claimed trigger alone.
LEMMA RequestIInv ==
    ASSUME IInv,
           \/ \E c \in Clients : FireNow(c) \/ \E t \in Triggers : BeginFireNow(c, t)
           \/ \E t \in Triggers, on \in BOOLEAN : SetEnabled(t, on)
    PROVE  IInv'
  <1> USE SkewAssumption, MaxTimeAssumption DEF IInv, TypeOK, tickVars
  <1>1. ASSUME NEW c \in Clients, FireNow(c) PROVE IInv'
    <2> USE <1>1 DEF FireNow
    <2>1. TypeOK'
      BY DEF Times
    <2>2. \A v \in Workers : \A t \in mine[v] : last'[t] = last[t]
      BY DEF LockedRow
    <2>3. TickFollowsClock'
      BY DEF TickFollowsClock
    <2>4. TimesArePast'
      <3>1. ctx'[c] <= clock /\ ctx[c] <= clock
        BY DEF TimesArePast, Times
      <3>3. \A d \in Clients : ctx'[d] <= clock
        BY <3>1 DEF TimesArePast
      <3> QED BY <2>2, <3>3 DEF TimesArePast
    <2>5. ClosedHasNothing' /\ LocksAreApart' /\ SelectedIsDue'
      BY DEF ClosedHasNothing, LocksAreApart, SelectedIsDue
    <2>6. ClaimedIsDue'
      BY <2>2 DEF ClaimedIsDue
    <2>7. FiredIsPast'
      BY DEF FiredIsPast
    <2> QED BY <2>1, <2>3, <2>4, <2>5, <2>6, <2>7
  <1>2. ASSUME NEW c \in Clients, NEW t \in Triggers, BeginFireNow(c, t) PROVE IInv'
    BY <1>2 DEF BeginFireNow, TickFollowsClock, TimesArePast, ClosedHasNothing, LocksAreApart,
           SelectedIsDue, ClaimedIsDue, FiredIsPast, Times
  <1>3. ASSUME NEW t \in Triggers, NEW on \in BOOLEAN, SetEnabled(t, on) PROVE IInv'
    BY <1>3 DEF SetEnabled, TickFollowsClock, TimesArePast, ClosedHasNothing, LocksAreApart,
           SelectedIsDue, ClaimedIsDue, FiredIsPast
  <1> QED BY <1>1, <1>2, <1>3

\* The inductive invariant is preserved by every step.
LEMMA NextIInv == IInv /\ [Next]_vars => IInv'
  <1> SUFFICES ASSUME IInv, [Next]_vars PROVE IInv'
    OBVIOUS
  <1>1. CASE Advance
    BY <1>1, AdvanceIInv
  <1>2. ASSUME NEW w \in Workers, WorkerStep(w) PROVE IInv'
    BY <1>2, ReadClockIInv, SelectIInv, ClaimIInv, CommitIInv DEF WorkerStep
  <1>3. ASSUME NEW w \in Workers, AbortTick(w) PROVE IInv'
    BY <1>3, AbortIInv
  <1>4. CASE \/ \E c \in Clients : FireNow(c) \/ \E t \in Triggers : BeginFireNow(c, t)
             \/ \E t \in Triggers, on \in BOOLEAN : SetEnabled(t, on)
    BY <1>4, RequestIInv
  <1>5. CASE UNCHANGED vars
    BY <1>5 DEF vars, IInv, TypeOK, TickFollowsClock, TimesArePast, ClosedHasNothing,
           LocksAreApart, SelectedIsDue, ClaimedIsDue, FiredIsPast
  <1> QED BY <1>1, <1>2, <1>3, <1>4, <1>5 DEF Next

\* The inductive invariant holds in every reachable state, whatever the skew.
THEOREM Invariance == Spec => []IInv
  BY InitIInv, NextIInv, PTL DEF Spec

\* Every variable keeps its type.
THEOREM TypeCorrectness == Spec => []TypeOK
  <1>1. IInv => TypeOK
    BY DEF IInv
  <1> QED BY <1>1, Invariance, PTL

\* With the workers' and the database's clocks in step, concurrent tickers
\* create at most one scheduled run per slot of a trigger that nobody fires by
\* hand: by ClaimedIsDue a ticker that commits replaces a time before its slot,
\* by FiredIsPast the slot was then not fired yet.
THEOREM SlotFiresOnce == Skew = 0 => (Spec => []OncePerSlot)
  <1> SUFFICES ASSUME Skew = 0 PROVE Spec => []OncePerSlot
    OBVIOUS
  <1>1. Init => OncePerSlot
    BY DEF Init, OncePerSlot
  <1>2. IInv /\ OncePerSlot /\ [Next]_vars => OncePerSlot'
    <2> SUFFICES ASSUME IInv, OncePerSlot, [Next]_vars,
                        NEW t \in Triggers \ byHand', NEW s \in Slots
                 PROVE  fires'[t][s] <= 1
      BY DEF OncePerSlot
    <2>1. t \in Triggers \ byHand /\ fires[t][s] <= 1
      BY DEF OncePerSlot, Next, Advance, WorkerStep, ReadClock, SelectTriggers, Claim,
             CommitTick, AbortTick, Recover, BeginFireNow, FireNow, SetEnabled, vars
    <2>2. ASSUME NEW w \in Workers, CommitTick(w) PROVE fires'[t][s] <= 1
      <3>1. CASE t \in mine[w] /\ s = PrevSlot(wnow[w])
        <4>1. last[t] < s
          BY <3>1 DEF IInv, ClaimedIsDue
        <4>2. last[t] \in Int /\ s \in Int
          BY SlotsAreNat DEF IInv, TypeOK, Times, NULL
        <4>3. fires[t][s] = 0
          BY <2>1, <4>1, <4>2 DEF IInv, TypeOK, FiredIsPast
        <4> QED BY <2>2, <4>3 DEF CommitTick
      <3>2. CASE ~(t \in mine[w] /\ s = PrevSlot(wnow[w]))
        BY <2>1, <2>2, <3>2 DEF CommitTick
      <3> QED BY <3>1, <3>2
    <2>3. CASE ~\E w \in Workers : CommitTick(w)
      BY <2>1, <2>3 DEF Next, Advance, WorkerStep, ReadClock, SelectTriggers, Claim, AbortTick,
             Recover, BeginFireNow, FireNow, SetEnabled, vars
    <2> QED BY <2>2, <2>3
  <1> QED BY <1>1, <1>2, Invariance, PTL DEF Spec

\* Whatever the skew of the clocks, last_fired_at of a trigger only moves forward
\* until somebody fires the trigger by hand: a ticker that commits has read and
\* locked the row, and replaces a time before the start of its own transaction.
THEOREM TickersMoveForward == Spec => LastMovesForward
  <1>1. IInv /\ [Next]_vars => [\A t \in Triggers \ byHand' : last'[t] >= last[t]]_vars
    <2> SUFFICES ASSUME IInv, Next, NEW t \in Triggers \ byHand' PROVE last'[t] >= last[t]
      OBVIOUS
    <2>1. last[t] \in Int
      BY DEF IInv, TypeOK, Times, NULL
    <2>2. ASSUME NEW w \in Workers, CommitTick(w) PROVE last'[t] >= last[t]
      <3>1. CASE t \in mine[w]
        <4>1. last'[t] = wtx[w]
          BY <2>2, <3>1 DEF CommitTick
        <4>2. last[t] <= wtx[w] /\ wtx[w] \in Int
          BY <2>2, <3>1 DEF CommitTick, IInv, TypeOK, Times, TimesArePast
        <4> QED BY <2>1, <4>1, <4>2
      <3>2. CASE t \notin mine[w]
        BY <2>1, <2>2, <3>2 DEF CommitTick
      <3> QED BY <3>1, <3>2
    <2>3. ASSUME NEW c \in Clients, FireNow(c) PROVE last'[t] >= last[t]
      <3>1. t \notin ctrig[c]
        BY <2>3 DEF FireNow
      <3> QED BY <2>1, <2>3, <3>1 DEF FireNow
    <2>4. CASE UNCHANGED last
      BY <2>1, <2>4
    <2> QED BY <2>2, <2>3, <2>4 DEF Next, Advance, WorkerStep, ReadClock, SelectTriggers, Claim,
           AbortTick, Recover, BeginFireNow, SetEnabled
  <1> QED BY <1>1, Invariance, PTL DEF Spec, LastMovesForward
=============================================================================
