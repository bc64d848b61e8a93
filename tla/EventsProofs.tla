----------------------------- MODULE EventsProofs -----------------------------
(***************************************************************************)
(* Proofs about the two consumers of the events table: WebhookDelivery,    *)
(* for every number of rows, dispatchers, attempts and rolled-back         *)
(* batches, and EventRouter, for every set of events and evaluators and    *)
(* every limit and window.  The two specifications share no variable.      *)
(***************************************************************************)
EXTENDS WebhookDelivery, EventRouter, FiniteSetTheorems, WellFoundedInduction, TLAPS

------------------------------------------------------------------------------
\* WebhookDelivery

\* A non-empty set of natural numbers has a least member.
LEMMA MinIsMember ==
    ASSUME NEW S \in SUBSET Nat, S # {}
    PROVE  Min(S) \in S
  <1>1. IsWellFoundedOn(OpToRel(<, Nat), Nat)
    BY NatLessThanWellFounded
  <1>2. \A x, y \in Nat : y < x => <<y, x>> \in OpToRel(<, Nat)
    BY DEF OpToRel
  <1>3. PICK R : IsWellFoundedOn(R, Nat) /\ \A x, y \in Nat : y < x => <<y, x>> \in R
    BY <1>1, <1>2, Zenon
  <1>4. PICK x \in S : \A y \in S : <<y, x>> \notin R
    BY <1>3, WFMin
  <1>5. \A y \in S : ~(y < x)
    BY <1>3, <1>4, Zenon
  <1>6. \A y \in S : x <= y
    BY <1>5
  <1> QED BY <1>6 DEF Min

\* The next row of a batch is one of the batch.
LEMMA NextRow ==
    ASSUME TypeOK, NEW d \in Dispatchers, queue[d] # {}
    PROVE  Min(queue[d]) \in queue[d] /\ Min(queue[d]) \in Events
  <1>1. queue[d] \in SUBSET Events
    BY DEF TypeOK
  <1>2. Events \subseteq Nat
    BY DEF Events
  <1> QED BY <1>1, <1>2, MinIsMember

\* Sets of dispatchers are finite: how they count, with and without one member.
LEMMA Counting ==
    ASSUME NEW S \in SUBSET Dispatchers, NEW d \in Dispatchers
    PROVE  /\ Cardinality(S) \in Nat /\ Cardinality(Dispatchers) \in Nat
           /\ Cardinality(S) <= Cardinality(Dispatchers)
           /\ Cardinality(S \cup {d}) = IF d \in S THEN Cardinality(S) ELSE Cardinality(S) + 1
           /\ Cardinality(S \ {d}) = IF d \in S THEN Cardinality(S) - 1 ELSE Cardinality(S)
  <1>1. IsFiniteSet(S) /\ Cardinality(S) <= Cardinality(Dispatchers)
    BY DispatchersAssumption, FS_Subset
  <1>2. Cardinality(S) \in Nat /\ Cardinality(Dispatchers) \in Nat
    BY <1>1, DispatchersAssumption, FS_CardinalityType
  <1> QED BY <1>1, <1>2, FS_AddElement, FS_RemoveElement

\* Losing one member costs at most one.
LEMMA LosingOne ==
    ASSUME NEW S \in SUBSET Dispatchers, NEW d \in Dispatchers, NEW T, T = S \/ T = S \ {d}
    PROVE  /\ Cardinality(T) \in Nat
           /\ Cardinality(T) <= Cardinality(S)
           /\ Cardinality(S) <= Cardinality(T) + 1
  <1>1. Cardinality(S) \in Nat
    BY Counting
  <1>2. Cardinality(S \ {d}) = Cardinality(S) \/ Cardinality(S \ {d}) = Cardinality(S) - 1
    BY Counting
  <1>3. Cardinality(S \ {d}) \in Nat
    <2>1. S \ {d} \in SUBSET Dispatchers
      OBVIOUS
    <2> QED BY <2>1, Counting
  <1> QED BY <1>1, <1>2, <1>3

\* A counter goes up by one, or stays where it stopped.
LEMMA BumpBound ==
    ASSUME NEW n \in 0..Cap
    PROVE  Bump(n) \in 0..Cap /\ n <= Bump(n) /\ Bump(n) <= n + 1
  <1>1. Cardinality(Dispatchers) \in Nat
    BY DispatchersAssumption, FS_CardinalityType
  <1>2. Cap \in Nat
    BY <1>1, BoundsAssumption, MaxRollbacksAssumption DEF Cap
  <1> QED BY <1>2 DEF Bump

\* Below MAX_DELIVERY_ATTEMPTS a counter is below the model's cap.
LEMMA BumpCounts ==
    ASSUME NEW n \in Nat, n < MaxAttempts
    PROVE  Bump(n) = n + 1
  <1>1. Cardinality(Dispatchers) \in Nat
    BY DispatchersAssumption, FS_CardinalityType
  <1> QED BY <1>1, BoundsAssumption, MaxRollbacksAssumption DEF Cap, Bump

\* What the invariant counts for a row are natural numbers.
LEMMA RowCounts ==
    ASSUME TypeOK, NEW e \in Events
    PROVE  /\ Waiting(e) \subseteq Dispatchers /\ Cardinality(Waiting(e)) \in Nat
           /\ Having(e) \subseteq Dispatchers /\ Cardinality(Having(e)) \in Nat
           /\ Winning(e) \subseteq Dispatchers /\ Cardinality(Winning(e)) \in Nat
           /\ Cardinality(Dispatchers) \in Nat
           /\ posts[e] \in Nat /\ acked[e] \in Nat /\ failed[e] \in Nat /\ rollbacks \in Nat
           /\ unheard[e] \in Nat
  <1>1. Waiting(e) \subseteq Dispatchers /\ Having(e) \subseteq Dispatchers
        /\ Winning(e) \subseteq Dispatchers
    BY DEF Waiting, Having, Winning
  <1>2. \A S \in SUBSET Dispatchers : Cardinality(S) \in Nat
    BY DispatchersAssumption, FS_Subset, FS_CardinalityType
  <1> QED BY <1>1, <1>2 DEF TypeOK

\* The inductive invariant holds initially.
LEMMA InitIInv == Init => IInv
  <1> SUFFICES ASSUME Init PROVE IInv
    OBVIOUS
  <1>1. TypeOK
    <2>1. Cap \in Nat
      BY DispatchersAssumption, FS_CardinalityType, BoundsAssumption, MaxRollbacksAssumption DEF Cap
    <2> QED BY <2>1, MaxRollbacksAssumption DEF Init, TypeOK
  <1>2. ClosedHasNothing
    BY DEF Init, ClosedHasNothing
  <1>3. ASSUME NEW e \in Events PROVE AttemptsPaid(e) /\ AcksPaid(e)
    <2>1. Waiting(e) = {} /\ Having(e) = {} /\ Winning(e) = {}
      BY DEF Init, Waiting, Having, Winning
    <2>2. Cardinality({}) = 0 /\ Cardinality(Dispatchers) \in Nat
      BY DispatchersAssumption, FS_EmptySet, FS_CardinalityType
    <2> QED BY <2>1, <2>2, BoundsAssumption DEF Init, AttemptsPaid, AcksPaid
  <1> QED BY <1>1, <1>2, <1>3 DEF IInv

\* A row appears, or an operator resolves one: no batch and no count changes.
LEMMA RowIInv ==
    ASSUME IInv, NEW e \in Events, AppendDispatch(e) \/ ResolveDlqWebhook(e)
    PROVE  IInv'
  <1> USE DEF IInv, AppendDispatch, ResolveDlqWebhook, stageVars
  <1>1. TypeOK'
    BY DEF TypeOK
  <1>2. ClosedHasNothing'
    BY DEF ClosedHasNothing
  <1>3. ASSUME NEW f \in Events PROVE AttemptsPaid(f)' /\ AcksPaid(f)'
    <2>1. Waiting(f)' = Waiting(f) /\ Having(f)' = Having(f) /\ Winning(f)' = Winning(f)
      BY DEF Waiting, Having, Winning
    <2> QED BY <2>1 DEF AttemptsPaid, AcksPaid
  <1> QED BY <1>1, <1>2, <1>3

\* A batch is selected among the rows that are neither delivered nor given up.
LEMMA SelectIInv ==
    ASSUME IInv, NEW d \in Dispatchers, SelectBatch(d)
    PROVE  IInv'
  <1> USE DEF IInv, SelectBatch
  <1>1. TypeOK'
    BY DEF TypeOK, Oldest, Pending
  <1>2. ClosedHasNothing'
    BY DEF ClosedHasNothing, TypeOK
  <1>3. ASSUME NEW e \in Events PROVE AttemptsPaid(e)' /\ AcksPaid(e)'
    <2>1. CASE e \notin Oldest(Pending)
      <3>1. Waiting(e)' = Waiting(e) /\ Having(e)' = Having(e) /\ Winning(e)' = Winning(e)
        BY <2>1 DEF Waiting, Having, Winning, ClosedHasNothing
      <3> QED BY <3>1 DEF AttemptsPaid, AcksPaid
    <2>2. CASE e \in Oldest(Pending)
      <3>1. e \notin delivered /\ failed[e] < MaxAttempts
        BY <2>2 DEF Oldest, Pending
      <3>2. /\ Waiting(e)' = Waiting(e) \cup {d} /\ d \notin Waiting(e)
            /\ Having(e)' = Having(e) \cup {d} /\ d \notin Having(e)
            /\ Winning(e)' = Winning(e) \cup {d} /\ d \notin Winning(e)
        BY <2>2 DEF Waiting, Having, Winning, ClosedHasNothing, TypeOK
      <3>3. Cardinality(Having(e)') <= Cardinality(Dispatchers)
            /\ Cardinality(Winning(e)') <= Cardinality(Dispatchers)
        <4>1. Having(e)' \in SUBSET Dispatchers /\ Winning(e)' \in SUBSET Dispatchers
          BY <3>2, RowCounts
        <4> QED BY <4>1, Counting
      <3>4. /\ Cardinality(Waiting(e)') = Cardinality(Waiting(e)) + 1
            /\ Cardinality(Having(e)') = Cardinality(Having(e)) + 1
            /\ Cardinality(Winning(e)') = Cardinality(Winning(e)) + 1
        BY <3>2, RowCounts, Counting
      <3>5. AttemptsPaid(e)'
        BY <3>1, <3>3, <3>4, RowCounts, BoundsAssumption DEF AttemptsPaid
      <3>6. AcksPaid(e)'
        BY <3>1, <3>3, <3>4, RowCounts DEF AcksPaid
      <3> QED BY <3>5, <3>6
    <2> QED BY <2>1, <2>2
  <1> QED BY <1>1, <1>2, <1>3

\* A row without target_url leaves the batch without an attempt.
LEMMA SkipIInv ==
    ASSUME IInv, NEW d \in Dispatchers, SkipBlank(d)
    PROVE  IInv'
  <1> USE DEF IInv, SkipBlank
  <1>1. TypeOK'
    BY DEF TypeOK
  <1>2. ClosedHasNothing'
    BY DEF ClosedHasNothing
  <1>3. ASSUME NEW e \in Events PROVE AttemptsPaid(e)' /\ AcksPaid(e)'
    <2>1. CASE e # Min(queue[d])
      <3>1. Waiting(e)' = Waiting(e) /\ Having(e)' = Having(e) /\ Winning(e)' = Winning(e)
        BY <2>1 DEF Waiting, Having, Winning
      <3> QED BY <3>1 DEF AttemptsPaid, AcksPaid
    <2>2. CASE e = Min(queue[d])
      <3>1. Waiting(e)' = Waiting(e) \ {d} /\ d \in Waiting(e)
        BY <2>2, NextRow DEF Waiting, TypeOK
      <3>2. Having(e)' = Having(e) \/ Having(e)' = Having(e) \ {d}
        BY DEF Having
      <3>3. Winning(e)' = Winning(e) \/ Winning(e)' = Winning(e) \ {d}
        BY DEF Winning
      <3>4. /\ Cardinality(Waiting(e)') = Cardinality(Waiting(e)) - 1
            /\ Cardinality(Having(e)') \in Nat
            /\ Cardinality(Having(e)) <= Cardinality(Having(e)') + 1
            /\ Cardinality(Winning(e)') \in Nat
            /\ Cardinality(Winning(e)) <= Cardinality(Winning(e)') + 1
        BY <3>1, <3>2, <3>3, RowCounts, Counting, LosingOne
      <3>5. AttemptsPaid(e)'
        BY <3>4, RowCounts, BoundsAssumption DEF AttemptsPaid
      <3>6. AcksPaid(e)'
        BY <3>4, RowCounts DEF AcksPaid
      <3> QED BY <3>5, <3>6
    <2> QED BY <2>1, <2>2
  <1> QED BY <1>1, <1>2, <1>3

\* A POST turns a row that waits into one with an uncommitted outcome.
LEMMA PostIInv ==
    ASSUME IInv, NEW d \in Dispatchers, NEW result \in Results, Post(d, result)
    PROVE  IInv'
  <1> USE DEF IInv, Post, Results
  <1>0. PICK m \in Events : m = Min(queue[d]) /\ m \in queue[d]
    BY NextRow
  <1>1. TypeOK'
    <2>1. posts' \in [Events -> 0..Cap] /\ acked' \in [Events -> 0..Cap]
          /\ unheard' \in [Events -> 0..Cap]
      BY BumpBound DEF TypeOK
    <2>2. {queue', good', bad'} \subseteq [Dispatchers -> SUBSET rows']
      BY <1>0 DEF TypeOK
    <2> QED BY <2>1, <2>2 DEF TypeOK
  <1>2. ClosedHasNothing'
    BY DEF ClosedHasNothing
  <1>3. ASSUME NEW e \in Events PROVE AttemptsPaid(e)' /\ AcksPaid(e)'
    <2>1. CASE e # m
      <3>1. Waiting(e)' = Waiting(e) /\ Having(e)' = Having(e) /\ Winning(e)' = Winning(e)
        BY <1>0, <2>1 DEF Waiting, Having, Winning
      <3>2. posts'[e] = posts[e] /\ acked'[e] = acked[e] /\ unheard'[e] = unheard[e]
        BY <1>0, <2>1
      <3> QED BY <3>1, <3>2 DEF AttemptsPaid, AcksPaid
    <2>2. CASE e = m
      <3>1. Waiting(e)' = Waiting(e) \ {d} /\ d \in Waiting(e)
        BY <1>0, <2>2 DEF Waiting, TypeOK
      <3>2. Having(e)' = Having(e)
        BY <1>0 DEF Having, TypeOK
      <3>3. posts'[e] <= posts[e] + 1 /\ posts'[e] \in Nat
        BY BumpBound DEF TypeOK
      <3>4. Cardinality(Waiting(e)') = Cardinality(Waiting(e)) - 1
        BY <3>1, RowCounts, Counting
      <3>5. AttemptsPaid(e)'
        BY <3>2, <3>3, <3>4, RowCounts, BoundsAssumption DEF AttemptsPaid
      <3>6. CASE result = "answered"
        <4>1. Winning(e)' = Winning(e)
          BY <1>0, <3>6 DEF Winning, TypeOK
        <4>2. acked'[e] <= acked[e] + 1 /\ acked'[e] \in Nat /\ unheard'[e] = unheard[e]
          BY <3>6, BumpBound DEF TypeOK
        <4>3. AcksPaid(e)'
          BY <4>1, <4>2, <3>4, RowCounts DEF AcksPaid
        <4> QED BY <3>5, <4>3
      <3>7. CASE result # "answered"
        <4>1. Winning(e)' = Winning(e) \/ Winning(e)' = Winning(e) \ {d}
          BY <3>7 DEF Winning
        <4>2. Cardinality(Winning(e)') \in Nat
              /\ Cardinality(Winning(e)) <= Cardinality(Winning(e)') + 1
          BY <4>1, RowCounts, LosingOne
        <4>3. CASE result = "refused"
          <5>1. acked'[e] = acked[e] /\ unheard'[e] = unheard[e]
            BY <4>3
          <5>2. AcksPaid(e)'
            BY <5>1, <4>2, <3>4, RowCounts DEF AcksPaid
          <5> QED BY <3>5, <5>2
        <4>4. CASE result = "unheard" /\ unheard[e] < Cap
          <5>1. acked'[e] <= acked[e] + 1 /\ acked'[e] \in Nat
            BY BumpBound DEF TypeOK
          <5>2. unheard'[e] = unheard[e] + 1
            BY <1>0, <2>2, <4>4 DEF TypeOK, Bump
          <5>3. AcksPaid(e)'
            BY <5>1, <5>2, <4>2, <3>4, RowCounts DEF AcksPaid
          <5> QED BY <3>5, <5>3
        <4>5. CASE result = "unheard" /\ ~(unheard[e] < Cap)
          <5>1. unheard'[e] = Cap /\ acked'[e] <= Cap /\ acked'[e] \in Nat /\ Cap \in Nat
            <6>1. Cap \in Nat
              BY DispatchersAssumption, FS_CardinalityType, BoundsAssumption,
                 MaxRollbacksAssumption DEF Cap
            <6>2. unheard'[e] \in 0..Cap /\ unheard[e] \in 0..Cap /\ acked'[e] \in 0..Cap
              BY <1>1 DEF TypeOK
            <6>3. unheard'[e] = unheard[e]
              BY <1>0, <2>2, <4>5 DEF TypeOK, Bump
            <6> QED BY <4>5, <6>1, <6>2, <6>3
          <5>2. Cardinality(Waiting(e)') <= Cardinality(Winning(e)')
            <6>1. Waiting(e)' \subseteq Winning(e)' /\ Winning(e)' \subseteq Dispatchers
              BY DEF Waiting, Winning
            <6> QED BY <6>1, DispatchersAssumption, FS_Subset
          <5>3. Cardinality(Waiting(e)') \in Nat
                /\ Cardinality(Waiting(e)') <= Cardinality(Dispatchers)
            <6>1. Waiting(e)' \in SUBSET Dispatchers
              BY DEF Waiting
            <6> QED BY <6>1, Counting
          <5>4. AcksPaid(e)'
            BY <5>1, <5>2, <5>3, <4>2, RowCounts DEF AcksPaid
          <5> QED BY <3>5, <5>4
        <4> QED BY <3>7, <4>3, <4>4, <4>5
      <3> QED BY <3>6, <3>7
    <2> QED BY <2>1, <2>2
  <1> QED BY <1>1, <1>2, <1>3

\* A batch that is rolled back: every row may lose one attempt, and the count of
\* rolled-back batches goes up by one.
LEMMA RollBackIInv ==
    ASSUME IInv, NEW d \in Dispatchers,
           DispatcherCrash(d) \/ \E accepted \in BOOLEAN : PostRaises(d, accepted)
    PROVE  IInv'
  <1> USE DEF IInv, PostRaises, DispatcherCrash, RollBack, Forget
  <1>1. TypeOK'
    <2>1. posts' \in [Events -> 0..Cap] /\ acked' \in [Events -> 0..Cap]
      BY BumpBound DEF TypeOK
    <2> QED BY <2>1, MaxRollbacksAssumption DEF TypeOK
  <1>2. ClosedHasNothing'
    BY DEF ClosedHasNothing, TypeOK
  <1>3. ASSUME NEW e \in Events PROVE AttemptsPaid(e)' /\ AcksPaid(e)'
    <2>1. /\ Waiting(e)' = Waiting(e) \ {d}
          /\ Having(e)' = Having(e) \ {d}
          /\ Winning(e)' = Winning(e) \ {d}
      BY DEF Waiting, Having, Winning, TypeOK
    <2>2. /\ Cardinality(Having(e)') \in Nat
          /\ Cardinality(Having(e)) <= Cardinality(Having(e)') + 1
          /\ Cardinality(Winning(e)') \in Nat
          /\ Cardinality(Winning(e)) <= Cardinality(Winning(e)') + 1
      BY <2>1, RowCounts, LosingOne
    <2>3. /\ Cardinality(Waiting(e)') \in Nat
          /\ posts'[e] \in Nat /\ acked'[e] \in Nat
          /\ posts'[e] + Cardinality(Waiting(e)') <= posts[e] + Cardinality(Waiting(e))
          /\ acked'[e] + Cardinality(Waiting(e)') <= acked[e] + Cardinality(Waiting(e))
      <3>1. CASE DispatcherCrash(d) \/ e # Min(queue[d])
        <4>1. posts'[e] = posts[e] /\ acked'[e] = acked[e]
          BY <3>1 DEF TypeOK
        <4>2. Cardinality(Waiting(e)') \in Nat
              /\ Cardinality(Waiting(e)') <= Cardinality(Waiting(e))
          BY <2>1, RowCounts, LosingOne
        <4> QED BY <4>1, <4>2, RowCounts
      <3>2. CASE (\E accepted \in BOOLEAN : PostRaises(d, accepted)) /\ e = Min(queue[d])
        <4>1. d \in Waiting(e)
          BY <3>2, NextRow DEF Waiting
        <4>2. Cardinality(Waiting(e)') = Cardinality(Waiting(e)) - 1
          BY <2>1, <4>1, RowCounts, Counting
        <4>3. Cardinality(Waiting(e)') \in Nat
          BY <2>1, RowCounts, LosingOne
        <4>4. /\ posts'[e] \in Nat /\ posts'[e] <= posts[e] + 1
              /\ acked'[e] \in Nat /\ acked'[e] <= acked[e] + 1
          BY <3>2, BumpBound DEF TypeOK
        <4> QED BY <4>2, <4>3, <4>4, RowCounts
      <3> QED BY <3>1, <3>2
    <2>5. AttemptsPaid(e)'
      BY <2>2, <2>3, RowCounts, BoundsAssumption DEF AttemptsPaid
    <2>6. AcksPaid(e)'
      BY <2>2, <2>3, RowCounts DEF AcksPaid
    <2> QED BY <2>5, <2>6
  <1> QED BY <1>1, <1>2, <1>3

\* The commit: a row of the batch is delivered, or one failure is recorded for
\* the attempt that the batch made.
LEMMA CommitIInv ==
    ASSUME IInv, NEW d \in Dispatchers, CommitBatch(d)
    PROVE  IInv'
  <1> USE DEF IInv, CommitBatch, Forget
  <1>1. TypeOK'
    <2>1. failed' \in [Events -> 0..Cap]
      BY BumpBound DEF TypeOK
    <2> QED BY <2>1 DEF TypeOK
  <1>2. ClosedHasNothing'
    BY DEF ClosedHasNothing, TypeOK
  <1>3. ASSUME NEW e \in Events PROVE AttemptsPaid(e)' /\ AcksPaid(e)'
    <2>1. Waiting(e)' = Waiting(e)
      BY DEF Waiting
    <2>2. CASE e \in good[d]
      <3>1. e \in delivered'
        BY <2>2
      <3> QED BY <2>1, <3>1 DEF AttemptsPaid, AcksPaid
    <2>3. CASE e \notin good[d]
      <3>1. Winning(e)' = Winning(e)
        BY <2>3 DEF Winning
      <3>2. AcksPaid(e)'
        BY <2>1, <3>1 DEF AcksPaid
      <3>3. CASE e \in bad[d]
        <4>1. failed[e] < MaxAttempts => failed'[e] = failed[e] + 1
          BY <3>3, BumpCounts, RowCounts
        <4>2. failed[e] <= failed'[e]
          BY BumpBound DEF TypeOK
        <4>3. Having(e)' = Having(e) \ {d}
          BY DEF Having, TypeOK
        <4>4. Cardinality(Having(e)') \in Nat
              /\ Cardinality(Having(e)) <= Cardinality(Having(e)') + 1
          BY <4>3, RowCounts, LosingOne
        <4>5. failed'[e] \in Nat
          BY <1>1 DEF TypeOK
        <4>6. AttemptsPaid(e)'
          BY <2>1, <4>1, <4>2, <4>4, <4>5, RowCounts, BoundsAssumption DEF AttemptsPaid
        <4> QED BY <3>2, <4>6
      <3>4. CASE e \notin bad[d]
        <4>1. Having(e)' = Having(e)
          BY <2>3, <3>4 DEF Having
        <4>2. failed'[e] = failed[e]
          BY <3>4
        <4> QED BY <2>1, <3>2, <4>1, <4>2 DEF AttemptsPaid
      <3> QED BY <3>3, <3>4
    <2> QED BY <2>2, <2>3
  <1> QED BY <1>1, <1>2, <1>3

\* The inductive invariant is preserved by every step.
LEMMA NextIInv == IInv /\ [Next]_vars => IInv'
  <1> SUFFICES ASSUME IInv, [Next]_vars PROVE IInv'
    OBVIOUS
  <1>1. ASSUME NEW e \in Events, AppendDispatch(e) \/ ResolveDlqWebhook(e) PROVE IInv'
    BY <1>1, RowIInv
  <1>2. ASSUME NEW d \in Dispatchers, SelectBatch(d) PROVE IInv'
    BY <1>2, SelectIInv
  <1>3. ASSUME NEW d \in Dispatchers, SkipBlank(d) PROVE IInv'
    BY <1>3, SkipIInv
  <1>4. ASSUME NEW d \in Dispatchers, NEW result \in Results, Post(d, result) PROVE IInv'
    BY <1>4, PostIInv
  <1>5. ASSUME NEW d \in Dispatchers,
               DispatcherCrash(d) \/ \E accepted \in BOOLEAN : PostRaises(d, accepted)
        PROVE  IInv'
    BY <1>5, RollBackIInv
  <1>6. ASSUME NEW d \in Dispatchers, CommitBatch(d) PROVE IInv'
    BY <1>6, CommitIInv
  <1>7. CASE UNCHANGED vars \/ \E d \in Dispatchers : Recover(d)
    <2> USE <1>7 DEF IInv, Recover, vars, stageVars
    <2>1. TypeOK'
      BY DEF TypeOK
    <2>2. ClosedHasNothing'
      BY DEF ClosedHasNothing, TypeOK
    <2>3. ASSUME NEW e \in Events PROVE AttemptsPaid(e)' /\ AcksPaid(e)'
      BY DEF AttemptsPaid, AcksPaid, Waiting, Having, Winning
    <2> QED BY <2>1, <2>2, <2>3
  <1> QED BY <1>1, <1>2, <1>3, <1>4, <1>5, <1>6, <1>7 DEF Next, DispatcherStep

\* The inductive invariant holds in every reachable state.
THEOREM Invariance == Spec => []IInv
  BY InitIInv, NextIInv, PTL DEF Spec

\* Every variable keeps its type.
THEOREM TypeCorrectness == Spec => []TypeOK
  <1>1. IInv => TypeOK
    BY DEF IInv
  <1> QED BY <1>1, Invariance, PTL

\* However many dispatchers, crashes and exceptions there are, a row is posted
\* at most MAX_DELIVERY_ATTEMPTS times, once more for each further dispatcher
\* and for each rolled-back batch.
THEOREM AttemptsAreBounded == Spec => []AttemptsBounded
  <1>1. IInv => AttemptsBounded
    BY RowCounts, BoundsAssumption DEF IInv, AttemptsBounded, AttemptsPaid
  <1> QED BY <1>1, Invariance, PTL

\* A subscriber accepts the same event at most once per dispatcher, once per
\* rolled-back batch, and once for each answer that was lost or came too late.
THEOREM DeliveryIsRare == Spec => []RepeatsHaveACause
  <1>1. IInv => RepeatsHaveACause
    BY RowCounts DEF IInv, RepeatsHaveACause, AcksPaid
  <1> QED BY <1>1, Invariance, PTL

\* A row that is given up and in no batch stays so and is not posted again: the
\* SELECT does not return it, and no action takes a failure back.
LEMMA LeftAloneStep ==
    ASSUME IInv, [Next]_vars, NEW e \in Events, LeftAlone(e)
    PROVE  LeftAlone(e)' /\ posts'[e] = posts[e]
  <1> USE DEF IInv, LeftAlone, GivenUp
  <1>1. CASE UNCHANGED vars \/ (\E d \in Dispatchers : Recover(d))
             \/ (\E f \in Events : AppendDispatch(f) \/ ResolveDlqWebhook(f))
    BY <1>1 DEF vars, stageVars, Recover, AppendDispatch, ResolveDlqWebhook
  <1>2. ASSUME NEW d \in Dispatchers, SelectBatch(d) PROVE LeftAlone(e)' /\ posts'[e] = posts[e]
    <2>1. e \notin Oldest(Pending)
      BY RowCounts, BoundsAssumption DEF Oldest, Pending
    <2> QED BY <1>2, <2>1 DEF SelectBatch
  <1>3. ASSUME NEW d \in Dispatchers, SkipBlank(d) PROVE LeftAlone(e)' /\ posts'[e] = posts[e]
    BY <1>3 DEF SkipBlank
  <1>4. ASSUME NEW d \in Dispatchers, queue[d] # {} PROVE e # Min(queue[d])
    BY <1>4, NextRow
  <1>5. ASSUME NEW d \in Dispatchers, NEW result \in Results, Post(d, result)
        PROVE  LeftAlone(e)' /\ posts'[e] = posts[e]
    BY <1>4, <1>5 DEF Post
  <1>6. ASSUME NEW d \in Dispatchers,
               DispatcherCrash(d) \/ \E accepted \in BOOLEAN : PostRaises(d, accepted)
        PROVE  LeftAlone(e)' /\ posts'[e] = posts[e]
    BY <1>4, <1>6 DEF PostRaises, DispatcherCrash, RollBack, Forget, TypeOK
  <1>7. ASSUME NEW d \in Dispatchers, CommitBatch(d) PROVE LeftAlone(e)' /\ posts'[e] = posts[e]
    <2>1. failed[e] <= failed'[e] /\ failed'[e] \in Nat
      BY <1>7, BumpBound DEF CommitBatch, TypeOK
    <2>2. failed'[e] >= MaxAttempts
      BY <2>1, RowCounts, BoundsAssumption
    <2> QED BY <1>7, <2>2 DEF CommitBatch, Forget
  <1> QED BY <1>1, <1>2, <1>3, <1>5, <1>6, <1>7 DEF Next, DispatcherStep

\* Giving up is final, whatever is rolled back afterwards.
THEOREM GivingUpIsFinal == Spec => GivenUpIsFinal
  <1>1. IInv /\ [Next]_vars
          => [\A e \in Events : LeftAlone(e) => LeftAlone(e)' /\ posts'[e] = posts[e]]_vars
    BY LeftAloneStep
  <1> QED BY <1>1, Invariance, PTL DEF Spec, GivenUpIsFinal

------------------------------------------------------------------------------
\* EventRouter

\* The initial state is well typed.
LEMMA InitRouterTypeOK == RouterInit => RouterTypeOK
  BY RouterBoundsAssumption DEF RouterInit, RouterTypeOK, Times

\* A tick of an evaluator keeps every variable in its type: it selects events
\* of the trigger only, and its runs carry the time at which it began.
LEMMA TickTypeOK ==
    ASSUME RouterTypeOK, NEW w \in Workers, WorkerStep(w) \/ AbortTick(w)
    PROVE  RouterTypeOK'
  <1> USE DEF RouterTypeOK
  <1>1. 0 \in Times
    BY RouterBoundsAssumption DEF Times
  <1>2. CASE BeginTick(w)
    BY <1>2 DEF BeginTick, evtVars
  <1>3. CASE SelectMatches(w)
    <2>1. PICK S : S \in Batches(wtx[w]) /\ batch' = [batch EXCEPT ![w] = S]
      BY <1>3 DEF SelectMatches
    <2>2. S \subseteq TriggerEvents
      BY <2>1 DEF Batches, Matches
    <2>3. batch' \in [Workers -> SUBSET TriggerEvents]
      BY <2>1, <2>2
    <2> QED BY <1>3, <2>3 DEF SelectMatches, evtVars
  <1>4. CASE CommitTick(w)
    <2>1. made' \in [TriggerEvents -> 0..2]
      BY <1>4 DEF CommitTick
    <2>2. started' \subseteq Times
      BY <1>4 DEF CommitTick
    <2> QED BY <1>1, <1>4, <2>1, <2>2 DEF CommitTick, EndTick, evtVars
  <1>5. CASE AbortTick(w)
    BY <1>1, <1>5 DEF AbortTick, EndTick, evtVars
  <1> QED BY <1>2, <1>3, <1>4, <1>5 DEF WorkerStep

\* Every variable keeps its type at a step.
LEMMA NextRouterTypeOK == RouterTypeOK /\ [RouterNext]_routerVars => RouterTypeOK'
  <1> SUFFICES ASSUME RouterTypeOK, [RouterNext]_routerVars PROVE RouterTypeOK'
    OBVIOUS
  <1>1. CASE UNCHANGED routerVars
    BY <1>1 DEF routerVars, RouterTypeOK
  <1>2. CASE Advance
    BY <1>2, RouterBoundsAssumption DEF Advance, RouterTypeOK, Times, evtVars, wrkVars
  <1>3. ASSUME NEW e \in TriggerEvents, AppendEvent(e) \/ CommitEvent(e) PROVE RouterTypeOK'
    BY <1>3 DEF AppendEvent, CommitEvent, RouterTypeOK, wrkVars
  <1>4. CASE FireNow
    <2>1. PICK began \in 0..clock : started' = started \cup {began}
      BY <1>4 DEF FireNow
    <2>2. began \in Times
      BY RouterBoundsAssumption DEF RouterTypeOK, Times
    <2> QED BY <1>4, <2>1, <2>2 DEF FireNow, RouterTypeOK, evtVars, wrkVars
  <1> QED BY <1>1, <1>2, <1>3, <1>4, TickTypeOK DEF RouterNext

\* Every variable of the events, the runs and the evaluators keeps its type.
THEOREM RouterTypeCorrectness == RouterSpec => []RouterTypeOK
  BY InitRouterTypeOK, NextRouterTypeOK, PTL DEF RouterSpec

\* Runs are only added, and what is written of an event stays written: an
\* answered event remains one.
LEMMA AnswersStay ==
    ASSUME RouterTypeOK, [RouterNext]_routerVars,
           NEW e \in TriggerEvents, estate[e] # "absent", Answered(e)
    PROVE  estate'[e] # "absent" /\ Answered(e)'
  <1>1. started \subseteq started'
    BY DEF RouterNext, routerVars, Advance, AppendEvent, CommitEvent, WorkerStep, BeginTick,
           SelectMatches, CommitTick, AbortTick, FireNow
  <1>2. estate'[e] # "absent" /\ created'[e] = created[e]
    BY DEF RouterTypeOK, RouterNext, routerVars, evtVars, Advance, AppendEvent, CommitEvent,
           WorkerStep, BeginTick, SelectMatches, CommitTick, AbortTick, FireNow
  <1> QED BY <1>1, <1>2 DEF Answered

\* Once an event is answered and every tick that selected it earlier has ended,
\* no tick of any evaluator selects it again or creates a run for it, whatever
\* the clocks, the order of the commits and the operators' manual fires.
THEOREM AnsweredForGood == RouterSpec => NoRunAfterAnswer
  <1>1. RouterTypeOK /\ [RouterNext]_routerVars
          => [\A e \in TriggerEvents : Quiesced(e) => Quiesced(e)' /\ made'[e] = made[e]]_routerVars
    <2> SUFFICES ASSUME RouterTypeOK, RouterNext, NEW e \in TriggerEvents, Quiesced(e)
                 PROVE  Quiesced(e)' /\ made'[e] = made[e]
      OBVIOUS
    <2>1. /\ estate[e] # "absent" /\ Answered(e)
          /\ \A w \in Workers : e \notin batch[w]
      BY DEF Quiesced
    <2>2. estate'[e] # "absent" /\ Answered(e)'
      BY <2>1, AnswersStay
    <2>3. \A w \in Workers : e \notin batch'[w]
      <3>1. ASSUME NEW v \in Workers, SelectMatches(v) PROVE \A w \in Workers : e \notin batch'[w]
        <4>1. PICK S : S \in Batches(wtx[v]) /\ batch' = [batch EXCEPT ![v] = S]
          BY <3>1 DEF SelectMatches
        <4>2. e \notin S
          BY <2>1, <4>1 DEF Batches, Matches
        <4> QED BY <2>1, <4>1, <4>2 DEF RouterTypeOK
      <3>2. ASSUME NEW v \in Workers, EndTick(v) PROVE \A w \in Workers : e \notin batch'[w]
        BY <2>1, <3>2 DEF EndTick, RouterTypeOK
      <3> QED BY <2>1, <3>1, <3>2 DEF RouterNext, Advance, AppendEvent, CommitEvent, WorkerStep,
             BeginTick, CommitTick, AbortTick, FireNow, wrkVars
    <2>4. made'[e] = made[e]
      <3>1. ASSUME NEW w \in Workers, CommitTick(w) PROVE made'[e] = made[e]
        BY <2>1, <3>1 DEF CommitTick, RouterTypeOK
      <3> QED BY <3>1 DEF RouterNext, Advance, AppendEvent, CommitEvent, WorkerStep, BeginTick,
             SelectMatches, AbortTick, FireNow
    <2> QED BY <2>2, <2>3, <2>4 DEF Quiesced
  <1> QED BY <1>1, RouterTypeCorrectness, PTL DEF RouterSpec, NoRunAfterAnswer
===============================================================================
