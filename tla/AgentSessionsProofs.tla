------------------------- MODULE AgentSessionsProofs -------------------------
(* Proofs about AgentSessions, for every number of session ids, launches    *)
(* and events, every capacity and every threshold.                          *)
EXTENDS AgentSessions, FiniteSetTheorems, TLAPS

\* Nobody is not a launch.
LEMMA NobodyIsNoLaunch == Nobody \notin Launches
  BY DEF Nobody, Launches

\* Every value the code writes into the dictionary is an entry.
LEMMA EntryType ==
    /\ NoEntry \in Entry
    /\ \A l \in Launches, kind \in {"reserving", "live"} :
          [kind |-> kind, by |-> l, guard |-> Nobody] \in Entry
    /\ [kind |-> "uc", by |-> Nobody, guard |-> Nobody] \in Entry
  BY DEF NoEntry, Entry

\* The ids that count for the capacity.
Counted == {s \in Sessions : Present(s)} \ intruders

\* A step that adds no counted id keeps the capacity.
LEMMA FewerIsKept ==
    ASSUME CapacityIsKept, Counted' \subseteq Counted
    PROVE  CapacityIsKept'
  <1>1. IsFiniteSet(Counted)
    BY SessionsAssumption, FS_Subset DEF Counted
  <1>2. Cardinality(Counted') <= Cardinality(Counted)
    BY <1>1, FS_Subset
  <1>3. Cardinality(Counted) \in Nat /\ Cardinality(Counted') \in Nat
    BY <1>1, FS_Subset, FS_CardinalityType
  <1> QED BY <1>2, <1>3, LimitsAssumption DEF CapacityIsKept, Counted

\* The inductive invariant holds initially.
LEMMA InitIInv == Init => IInv
  <1> SUFFICES ASSUME Init PROVE IInv
    OBVIOUS
  <1>1. TypeOK
    BY SessionsAssumption, LimitsAssumption DEF Init, TypeOK, Entry, NoEntry
  <1>2. LaunchShape /\ FailuresCount /\ FiredIsLost
    BY DEF Init, LaunchShape, FailuresCount, FiredIsLost
  <1>3. EntriesFit /\ ReservationStays /\ OwnGuardRuns
    BY DEF Init, NoEntry, EntriesFit, ReservationStays, OwnGuardRuns
  <1>4. CapacityIsKept
    <2>1. {s \in Sessions : Present(s)} \ intruders = {}
      BY DEF Init, Present, NoEntry
    <2> QED BY <2>1, FS_EmptySet, LimitsAssumption DEF CapacityIsKept
  <1> QED BY <1>1, <1>2, <1>3, <1>4 DEF IInv

\* Stuttering preserves the invariant.
LEMMA StutterIInv == IInv /\ UNCHANGED vars => IInv'
  BY DEF IInv, vars, TypeOK, LaunchShape, FailuresCount, FiredIsLost, EntriesFit,
         ReservationStays, OwnGuardRuns, CapacityIsKept, Present

\* A slot is reserved for an id that has no entry, below the capacity.
LEMMA ReserveIInv ==
    ASSUME IInv, NEW l \in Launches, NEW s \in Sessions, Reserve(l, s)
    PROVE  IInv'
  <1> USE LimitsAssumption, NobodyIsNoLaunch DEF IInv, TypeOK, Reserve, Move
  <1>0. \/ /\ lpc' = [lpc EXCEPT ![l] = "refused"]
           /\ UNCHANGED <<reg, sid>>
        \/ /\ ~Present(s)
           /\ sid' = [sid EXCEPT ![l] = s]
           /\ reg' = [reg EXCEPT ![s] = [kind |-> "reserving", by |-> l, guard |-> Nobody]]
           /\ lpc' = [lpc EXCEPT ![l] = "reserved"]
    OBVIOUS
  <1>1. TypeOK'
    <2>1. reg' \in [Sessions -> Entry]
      <3>1. [kind |-> "reserving", by |-> l, guard |-> Nobody] \in Entry
        BY EntryType
      <3> QED BY <1>0, <3>1
    <2>2. sid' \in [Launches -> Sessions]
      BY <1>0
    <2> QED BY <1>0, <2>1, <2>2
  <1>2. LaunchShape'
    BY DEF LaunchShape, Begun
  <1>3. FailuresCount'
    BY DEF FailuresCount
  <1>4. FiredIsLost'
    BY DEF FiredIsLost
  <1>5. EntriesFit'
    <2>2. CASE lpc' = [lpc EXCEPT ![l] = "refused"] /\ UNCHANGED <<reg, sid>>
      BY <2>2 DEF EntriesFit
    <2>3. CASE lpc' = [lpc EXCEPT ![l] = "reserved"] /\ sid' = [sid EXCEPT ![l] = s]
               /\ reg' = [reg EXCEPT ![s] = [kind |-> "reserving", by |-> l, guard |-> Nobody]]
      <3>1. ASSUME NEW x \in Sessions, x # s PROVE EntriesFit!(x)'
        BY <2>3 DEF EntriesFit
      <3>2. EntriesFit!(s)'
        BY <2>3
      <3> QED BY <3>1, <3>2 DEF EntriesFit
    <2> QED BY <1>0, <2>2, <2>3
  <1>6. ReservationStays'
    <2>1. CASE lpc' = [lpc EXCEPT ![l] = "refused"] /\ UNCHANGED <<reg, sid>>
      BY DEF ReservationStays, Present
    <2>2. CASE /\ ~Present(s) /\ sid' = [sid EXCEPT ![l] = s]
               /\ reg' = [reg EXCEPT ![s] = [kind |-> "reserving", by |-> l, guard |-> Nobody]]
               /\ lpc' = [lpc EXCEPT ![l] = "reserved"]
      BY DEF ReservationStays, Present
    <2> QED BY <1>0, <2>1, <2>2
  <1>7. OwnGuardRuns'
    BY DEF OwnGuardRuns, EntriesFit, Begun, Present
  <1>8. CapacityIsKept'
    <2>1. CASE Counted' \subseteq Counted
      BY <2>1, FewerIsKept
    <2>2. CASE ~(Counted' \subseteq Counted)
      <3> DEFINE P == {x \in Sessions : Present(x)}
      <3>1. Cardinality(P) < MaxSessions /\ Counted' \subseteq P \cup {s}
        BY <2>2 DEF Counted, Present
      <3>2. IsFiniteSet(P)
        BY SessionsAssumption, FS_Subset
      <3>3. IsFiniteSet(P \cup {s}) /\ Cardinality(P \cup {s}) <= Cardinality(P) + 1
        <4>1. Cardinality(P) \in Nat
          BY <3>2, FS_CardinalityType
        <4>2. /\ IsFiniteSet(P \cup {s})
              /\ Cardinality(P \cup {s}) = IF s \in P THEN Cardinality(P) ELSE Cardinality(P) + 1
          BY <3>2, FS_AddElement
        <4> HIDE DEF P
        <4> QED BY <4>1, <4>2
      <3>4. Cardinality(Counted') <= Cardinality(P \cup {s})
        BY <3>1, <3>3, FS_Subset
      <3>5. /\ Cardinality(P) \in Nat /\ Cardinality(P \cup {s}) \in Nat
            /\ Cardinality(Counted') \in Nat
        BY <3>1, <3>2, <3>3, FS_Subset, FS_CardinalityType
      <3> HIDE DEF P
      <3> QED BY <3>1, <3>3, <3>4, <3>5 DEF CapacityIsKept, Counted
    <2> QED BY <2>1, <2>2
  <1> QED BY <1>1, <1>2, <1>3, <1>4, <1>5, <1>6, <1>7, <1>8

\* Chrome is started under a reservation.
LEMMA StartChromeIInv ==
    ASSUME IInv, NEW l \in Launches, StartChrome(l)
    PROVE  IInv'
  <1> USE LimitsAssumption, NobodyIsNoLaunch DEF IInv, TypeOK, StartChrome, Move, UNCHANGED_REG
  <1>1. TypeOK'
    OBVIOUS
  <1>2. LaunchShape'
    BY DEF LaunchShape, Begun
  <1>3. FailuresCount'
    BY DEF FailuresCount
  <1>4. FiredIsLost'
    BY DEF FiredIsLost
  <1>5. EntriesFit'
    BY DEF EntriesFit, Begun
  <1>6. ReservationStays'
    BY DEF ReservationStays, Present
  <1>7. OwnGuardRuns'
    BY DEF OwnGuardRuns
  <1>8. CapacityIsKept'
    <2>1. Counted' \subseteq Counted
      BY DEF Counted, Present
    <2> QED BY <2>1, FewerIsKept
  <1> QED BY <1>1, <1>2, <1>3, <1>4, <1>5, <1>6, <1>7, <1>8

\* A failed launch leaves its reservation behind.
LEMMA FailLaunchIInv ==
    ASSUME IInv, NEW l \in Launches, FailLaunch(l)
    PROVE  IInv'
  <1> USE LimitsAssumption, NobodyIsNoLaunch DEF IInv, TypeOK, FailLaunch, Move, UNCHANGED_REG
  <1>1. TypeOK'
    OBVIOUS
  <1>2. LaunchShape'
    BY DEF LaunchShape, Begun
  <1>3. FailuresCount'
    BY DEF FailuresCount
  <1>4. FiredIsLost'
    BY DEF FiredIsLost
  <1>5. EntriesFit'
    BY DEF EntriesFit, Begun
  <1>6. ReservationStays'
    BY DEF ReservationStays, Present
  <1>7. OwnGuardRuns'
    BY DEF OwnGuardRuns
  <1>8. CapacityIsKept'
    <2>1. Counted' \subseteq Counted
      BY DEF Counted, Present
    <2> QED BY <2>1, FewerIsKept
  <1> QED BY <1>1, <1>2, <1>3, <1>4, <1>5, <1>6, <1>7, <1>8

\* The entry is overwritten: with the reservation gone, the id counts as an
\* intruder's.
LEMMA RegisterIInv ==
    ASSUME IInv, NEW l \in Launches, NEW overlay \in BOOLEAN, Register(l, overlay)
    PROVE  IInv'
  <1> USE LimitsAssumption, NobodyIsNoLaunch DEF IInv, TypeOK, Register, Move, Put
  <1>1. TypeOK'
    BY DEF Entry
  <1>2. LaunchShape'
    BY DEF LaunchShape, Begun
  <1>3. FailuresCount'
    BY DEF FailuresCount
  <1>4. FiredIsLost'
    BY DEF FiredIsLost, LaunchShape, Begun
  <1>5. EntriesFit'
    BY DEF EntriesFit, Begun
  <1>6. ReservationStays'
    BY DEF ReservationStays, Present
  <1>7. OwnGuardRuns'
    BY DEF OwnGuardRuns
  <1>8. CapacityIsKept'
    <2>1. Counted' \subseteq Counted
      BY DEF Counted, Present
    <2> QED BY <2>1, FewerIsKept
  <1> QED BY <1>1, <1>2, <1>3, <1>4, <1>5, <1>6, <1>7, <1>8

\* The probe loop starts with no failures, and its handle goes into the entry.
LEMMA ArmIInv ==
    ASSUME IInv, NEW l \in Launches, NEW proxied \in BOOLEAN, Arm(l, proxied)
    PROVE  IInv'
  <1> USE LimitsAssumption, NobodyIsNoLaunch DEF IInv, TypeOK, Arm, Move
  <1>1. TypeOK'
    <2>1. reg' \in [Sessions -> Entry]
      <3>1. sid[l] \in Sessions /\ reg[sid[l]] \in Entry
        OBVIOUS
      <3>2. [reg[sid[l]] EXCEPT !.guard = l] \in Entry
        BY <3>1 DEF Entry
      <3> QED BY <3>1, <3>2
    <2>2. watch' \in [Launches -> {"none", "armed", "fired"}]
          /\ guard' \in [Launches -> {"none", "asleep", "probing", "done"}]
      OBVIOUS
    <2>3. lpc' \in [Launches -> {"new", "refused", "reserved", "starting", "registered",
                                "done", "failed"}]
      OBVIOUS
    <2> QED BY <2>1, <2>2, <2>3
  <1>2. LaunchShape'
    BY DEF LaunchShape, Begun
  <1>3. FailuresCount'
    BY DEF FailuresCount, LaunchShape
  <1>4. FiredIsLost'
    BY DEF FiredIsLost
  <1>5. EntriesFit'
    BY DEF EntriesFit, Begun
  <1>6. ReservationStays'
    BY DEF ReservationStays, Present
  <1>7. OwnGuardRuns'
    BY DEF OwnGuardRuns, LaunchShape
  <1>8. CapacityIsKept'
    <2>1. Counted' \subseteq Counted
      BY DEF Counted, Present
    <2> QED BY <2>1, FewerIsKept
  <1> QED BY <1>1, <1>2, <1>3, <1>4, <1>5, <1>6, <1>7, <1>8

\* Closing a browser object breaks its connection.
LEMMA CloseIInv ==
    ASSUME IInv, NEW l \in Launches, Close(l)
    PROVE  IInv'
  <1> USE LimitsAssumption, NobodyIsNoLaunch DEF IInv, TypeOK, Close, UNCHANGED_REG
  <1>1. TypeOK'
    OBVIOUS
  <1>2. LaunchShape'
    BY DEF LaunchShape, Begun
  <1>3. FailuresCount'
    BY DEF FailuresCount
  <1>4. FiredIsLost'
    BY DEF FiredIsLost
  <1>5. EntriesFit'
    BY DEF EntriesFit
  <1>6. ReservationStays'
    BY DEF ReservationStays, Present
  <1>7. OwnGuardRuns'
    BY DEF OwnGuardRuns
  <1>8. CapacityIsKept'
    <2>1. Counted' \subseteq Counted
      BY DEF Counted, Present
    <2> QED BY <2>1, FewerIsKept
  <1> QED BY <1>1, <1>2, <1>3, <1>4, <1>5, <1>6, <1>7, <1>8

\* A lost connection fires the callback.
LEMMA DisconnectIInv ==
    ASSUME IInv, NEW l \in Launches, Disconnect(l)
    PROVE  IInv'
  <1> USE LimitsAssumption, NobodyIsNoLaunch DEF IInv, TypeOK, Disconnect, UNCHANGED_REG, Event
  <1>1. TypeOK'
    OBVIOUS
  <1>2. LaunchShape'
    BY DEF LaunchShape
  <1>3. FailuresCount'
    BY DEF FailuresCount
  <1>4. FiredIsLost'
    BY DEF FiredIsLost
  <1>5. EntriesFit'
    BY DEF EntriesFit
  <1>6. ReservationStays'
    BY DEF ReservationStays, Present
  <1>7. OwnGuardRuns'
    BY DEF OwnGuardRuns
  <1>8. CapacityIsKept'
    <2>1. Counted' \subseteq Counted
      BY DEF Counted, Present
    <2> QED BY <2>1, FewerIsKept
  <1> QED BY <1>1, <1>2, <1>3, <1>4, <1>5, <1>6, <1>7, <1>8

\* The callback takes the id out.
LEMMA OnBrowserDisconnectedIInv ==
    ASSUME IInv, NEW l \in Launches, OnBrowserDisconnected(l)
    PROVE  IInv'
  <1> USE LimitsAssumption, NobodyIsNoLaunch DEF IInv, TypeOK, OnBrowserDisconnected, UNCHANGED_REG, Pop
  <1>0. /\ reg' \in [Sessions -> Entry]
        /\ \A x \in Sessions : reg'[x] = reg[x] \/ (reg'[x] = NoEntry /\ x \in removed')
        /\ removed' \subseteq Sessions /\ intruders' \subseteq Sessions
    BY EntryType
  <1>1. TypeOK'
    BY <1>0
  <1>2. LaunchShape'
    BY DEF LaunchShape
  <1>3. FailuresCount'
    BY DEF FailuresCount
  <1>4. FiredIsLost'
    BY DEF FiredIsLost
  <1>5. EntriesFit'
    BY DEF EntriesFit, Begun, NoEntry
  <1>6. ReservationStays'
    BY DEF ReservationStays, Present
  <1>7. OwnGuardRuns'
    BY DEF OwnGuardRuns, NoEntry
  <1>8. CapacityIsKept'
    <2>1. Counted' \subseteq Counted
      BY DEF Counted, Present, NoEntry
    <2> QED BY <2>1, FewerIsKept
  <1> QED BY <1>1, <1>2, <1>3, <1>4, <1>5, <1>6, <1>7, <1>8

\* The loop that is cancelled is one of the session that is taken out.
LEMMA TerminateBrowserIInv ==
    ASSUME IInv, NEW s \in Sessions, TerminateBrowser(s)
    PROVE  IInv'
  <1> USE LimitsAssumption, NobodyIsNoLaunch DEF IInv, TypeOK, TerminateBrowser, Pop
  <1>1. TypeOK'
    BY DEF Entry, NoEntry, EntriesFit
  <1>2. LaunchShape'
    BY DEF LaunchShape, EntriesFit
  <1>3. FailuresCount'
    BY DEF FailuresCount
  <1>4. FiredIsLost'
    BY DEF FiredIsLost
  <1>5. EntriesFit'
    BY DEF EntriesFit, NoEntry
  <1>6. ReservationStays'
    BY DEF ReservationStays, Present
  <1>7. OwnGuardRuns'
    BY DEF OwnGuardRuns, EntriesFit, NoEntry
  <1>8. CapacityIsKept'
    <2>1. Counted' \subseteq Counted
      BY DEF Counted, Present, NoEntry
    <2> QED BY <2>1, FewerIsKept
  <1> QED BY <1>1, <1>2, <1>3, <1>4, <1>5, <1>6, <1>7, <1>8

\* A loop ends by itself only when its id has no entry.
LEMMA GuardWakesIInv ==
    ASSUME IInv, NEW l \in Launches, GuardWakes(l)
    PROVE  IInv'
  <1> USE LimitsAssumption, NobodyIsNoLaunch DEF IInv, TypeOK, GuardWakes, UNCHANGED_REG
  <1>1. TypeOK'
    OBVIOUS
  <1>2. LaunchShape'
    BY DEF LaunchShape
  <1>3. FailuresCount'
    BY DEF FailuresCount
  <1>4. FiredIsLost'
    BY DEF FiredIsLost
  <1>5. EntriesFit'
    BY DEF EntriesFit
  <1>6. ReservationStays'
    BY DEF ReservationStays, Present
  <1>7. OwnGuardRuns'
    BY DEF OwnGuardRuns, Present
  <1>8. CapacityIsKept'
    <2>1. Counted' \subseteq Counted
      BY DEF Counted, Present
    <2> QED BY <2>1, FewerIsKept
  <1> QED BY <1>1, <1>2, <1>3, <1>4, <1>5, <1>6, <1>7, <1>8

\* At the threshold the loop ends and the id goes with it.
LEMMA ProbeIInv ==
    ASSUME IInv, NEW l \in Launches, Probe(l)
    PROVE  IInv'
  <1> USE LimitsAssumption, NobodyIsNoLaunch DEF IInv, TypeOK, Probe, UNCHANGED_REG, Pop, Failures, Least
  <1>0. /\ reg' \in [Sessions -> Entry]
        /\ \A x \in Sessions : reg'[x] = reg[x] \/ (reg'[x] = NoEntry /\ x \in removed')
        /\ removed' \subseteq Sessions /\ intruders' \subseteq Sessions
    BY EntryType
  <1>1. TypeOK'
    <2>1. fails' \in [Launches -> 0 .. Threshold] /\ streak' \in [Launches -> 0 .. Threshold]
      BY DEF FailuresCount
    <2>2. closing' \subseteq Launches
      BY DEF EntriesFit, Entry
    <2> QED BY <1>0, <2>1, <2>2
  <1>2. LaunchShape'
    BY DEF LaunchShape, EntriesFit
  <1>3. FailuresCount'
    BY DEF FailuresCount
  <1>4. FiredIsLost'
    BY DEF FiredIsLost
  <1>5. EntriesFit'
    BY DEF EntriesFit, NoEntry
  <1>6. ReservationStays'
    BY DEF ReservationStays, Present
  <1>7. OwnGuardRuns'
    BY DEF OwnGuardRuns, Present, NoEntry
  <1>8. CapacityIsKept'
    <2>1. Counted' \subseteq Counted
      BY DEF Counted, Present, NoEntry
    <2> QED BY <2>1, FewerIsKept
  <1> QED BY <1>1, <1>2, <1>3, <1>4, <1>5, <1>6, <1>7, <1>8

\* The proxy's state is in no entry.
LEMMA ProxyDownIInv ==
    ASSUME IInv, NEW l \in Launches, ProxyDown(l)
    PROVE  IInv'
  <1> USE LimitsAssumption, NobodyIsNoLaunch DEF IInv, TypeOK, ProxyDown, UNCHANGED_REG, Event
  <1>1. TypeOK'
    OBVIOUS
  <1>2. LaunchShape'
    BY DEF LaunchShape
  <1>3. FailuresCount'
    BY DEF FailuresCount
  <1>4. FiredIsLost'
    BY DEF FiredIsLost
  <1>5. EntriesFit'
    BY DEF EntriesFit
  <1>6. ReservationStays'
    BY DEF ReservationStays, Present
  <1>7. OwnGuardRuns'
    BY DEF OwnGuardRuns
  <1>8. CapacityIsKept'
    <2>1. Counted' \subseteq Counted
      BY DEF Counted, Present
    <2> QED BY <2>1, FewerIsKept
  <1> QED BY <1>1, <1>2, <1>3, <1>4, <1>5, <1>6, <1>7, <1>8

\* The proxy's state is in no entry.
LEMMA ProxyUpIInv ==
    ASSUME IInv, NEW l \in Launches, ProxyUp(l)
    PROVE  IInv'
  <1> USE LimitsAssumption, NobodyIsNoLaunch DEF IInv, TypeOK, ProxyUp, UNCHANGED_REG
  <1>1. TypeOK'
    OBVIOUS
  <1>2. LaunchShape'
    BY DEF LaunchShape
  <1>3. FailuresCount'
    BY DEF FailuresCount
  <1>4. FiredIsLost'
    BY DEF FiredIsLost
  <1>5. EntriesFit'
    BY DEF EntriesFit
  <1>6. ReservationStays'
    BY DEF ReservationStays, Present
  <1>7. OwnGuardRuns'
    BY DEF OwnGuardRuns
  <1>8. CapacityIsKept'
    <2>1. Counted' \subseteq Counted
      BY DEF Counted, Present
    <2> QED BY <2>1, FewerIsKept
  <1> QED BY <1>1, <1>2, <1>3, <1>4, <1>5, <1>6, <1>7, <1>8

\* A login that starts writes no entry.
LEMMA BeginUcLoginIInv ==
    ASSUME IInv, NEW s \in Sessions, BeginUcLogin(s)
    PROVE  IInv'
  <1> USE LimitsAssumption, NobodyIsNoLaunch DEF IInv, TypeOK, BeginUcLogin, UNCHANGED_REG, Event
  <1>1. TypeOK'
    OBVIOUS
  <1>2. LaunchShape'
    BY DEF LaunchShape
  <1>3. FailuresCount'
    BY DEF FailuresCount
  <1>4. FiredIsLost'
    BY DEF FiredIsLost
  <1>5. EntriesFit'
    BY DEF EntriesFit
  <1>6. ReservationStays'
    BY DEF ReservationStays, Present
  <1>7. OwnGuardRuns'
    BY DEF OwnGuardRuns
  <1>8. CapacityIsKept'
    <2>1. Counted' \subseteq Counted
      BY DEF Counted, Present
    <2> QED BY <2>1, FewerIsKept
  <1> QED BY <1>1, <1>2, <1>3, <1>4, <1>5, <1>6, <1>7, <1>8

\* A login takes the id over: it counts as an intruder's if it was free.
LEMMA RegisterUcLoginIInv ==
    ASSUME IInv, NEW s \in Sessions, RegisterUcLogin(s)
    PROVE  IInv'
  <1> USE LimitsAssumption, NobodyIsNoLaunch DEF IInv, TypeOK, RegisterUcLogin, Put
  <1>1. TypeOK'
    BY DEF Entry
  <1>2. LaunchShape'
    BY DEF LaunchShape
  <1>3. FailuresCount'
    BY DEF FailuresCount
  <1>4. FiredIsLost'
    BY DEF FiredIsLost
  <1>5. EntriesFit'
    BY DEF EntriesFit
  <1>6. ReservationStays'
    BY DEF ReservationStays, Present
  <1>7. OwnGuardRuns'
    BY DEF OwnGuardRuns
  <1>8. CapacityIsKept'
    <2>1. Counted' \subseteq Counted
      BY DEF Counted, Present
    <2> QED BY <2>1, FewerIsKept
  <1> QED BY <1>1, <1>2, <1>3, <1>4, <1>5, <1>6, <1>7, <1>8

\* A login that fails writes no entry.
LEMMA FailUcLoginIInv ==
    ASSUME IInv, NEW s \in Sessions, FailUcLogin(s)
    PROVE  IInv'
  <1> USE LimitsAssumption, NobodyIsNoLaunch DEF IInv, TypeOK, FailUcLogin, UNCHANGED_REG
  <1>1. TypeOK'
    OBVIOUS
  <1>2. LaunchShape'
    BY DEF LaunchShape
  <1>3. FailuresCount'
    BY DEF FailuresCount
  <1>4. FiredIsLost'
    BY DEF FiredIsLost
  <1>5. EntriesFit'
    BY DEF EntriesFit
  <1>6. ReservationStays'
    BY DEF ReservationStays, Present
  <1>7. OwnGuardRuns'
    BY DEF OwnGuardRuns
  <1>8. CapacityIsKept'
    <2>1. Counted' \subseteq Counted
      BY DEF Counted, Present
    <2> QED BY <2>1, FewerIsKept
  <1> QED BY <1>1, <1>2, <1>3, <1>4, <1>5, <1>6, <1>7, <1>8

\* A new process starts without entries, callbacks and loops.
LEMMA RestartIInv ==
    ASSUME IInv, NEW graceful \in BOOLEAN, Restart(graceful)
    PROVE  IInv'
  <1> USE LimitsAssumption, NobodyIsNoLaunch DEF IInv, TypeOK, Restart, Event
  <1>1. TypeOK'
    BY DEF Entry, NoEntry
  <1>2. LaunchShape'
    BY DEF LaunchShape, EntriesFit
  <1>3. FailuresCount'
    BY DEF FailuresCount
  <1>4. FiredIsLost'
    BY DEF FiredIsLost
  <1>5. EntriesFit'
    BY DEF EntriesFit, NoEntry
  <1>6. ReservationStays'
    BY DEF ReservationStays
  <1>7. OwnGuardRuns'
    BY DEF OwnGuardRuns, NoEntry
  <1>8. CapacityIsKept'
    <2>1. Counted' \subseteq Counted
      BY DEF Counted, Present, NoEntry
    <2> QED BY <2>1, FewerIsKept
  <1> QED BY <1>1, <1>2, <1>3, <1>4, <1>5, <1>6, <1>7, <1>8

\* The invariant is inductive.
LEMMA NextIInv == IInv /\ [Next]_vars => IInv'
  <1> SUFFICES ASSUME IInv, [Next]_vars PROVE IInv'
    OBVIOUS
  <1>1. CASE UNCHANGED vars
    BY <1>1, StutterIInv
  <1>2. ASSUME NEW l \in Launches, LaunchStep(l) PROVE IInv'
    BY <1>2, StartChromeIInv, FailLaunchIInv, RegisterIInv, ArmIInv DEF LaunchStep
  <1>3. ASSUME NEW l \in Launches, GuardStep(l) PROVE IInv'
    BY <1>3, GuardWakesIInv, ProbeIInv DEF GuardStep
  <1>4. ASSUME NEW l \in Launches, Close(l) \/ Disconnect(l) \/ OnBrowserDisconnected(l)
        PROVE  IInv'
    BY <1>4, CloseIInv, DisconnectIInv, OnBrowserDisconnectedIInv
  <1>5. ASSUME NEW l \in Launches, ProxyDown(l) \/ ProxyUp(l) PROVE IInv'
    BY <1>5, ProxyDownIInv, ProxyUpIInv
  <1>6. ASSUME NEW l \in Launches, NEW s \in Sessions, Reserve(l, s) PROVE IInv'
    BY <1>6, ReserveIInv
  <1>7. ASSUME NEW s \in Sessions, TerminateBrowser(s) PROVE IInv'
    BY <1>7, TerminateBrowserIInv
  <1>8. ASSUME NEW s \in Sessions, BeginUcLogin(s) \/ RegisterUcLogin(s) \/ FailUcLogin(s)
        PROVE  IInv'
    BY <1>8, BeginUcLoginIInv, RegisterUcLoginIInv, FailUcLoginIInv
  <1>9. ASSUME NEW graceful \in BOOLEAN, Restart(graceful) PROVE IInv'
    BY <1>9, RestartIInv
  <1> QED BY <1>1, <1>2, <1>3, <1>4, <1>5, <1>6, <1>7, <1>8, <1>9 DEF Next

\* The inductive invariant holds in every reachable state.
THEOREM Invariance == Spec => []IInv
  BY InitIInv, NextIInv, PTL DEF Spec

\* Every variable of the agent's sessions keeps its type.
THEOREM TypeCorrectness == Spec => []TypeOK
  <1>1. IInv => TypeOK
    BY DEF IInv
  <1> QED BY <1>1, Invariance, PTL

\* The capacity holds but for the ids that were put in without a reservation.
THEOREM CapacityHolds == Spec => []CapacityIsKept
  <1>1. IInv => CapacityIsKept
    BY DEF IInv
  <1> QED BY <1>1, Invariance, PTL

\* A registered session is never left without the probe loop of its launch.
THEOREM SessionIsGuarded == Spec => []OwnGuardRuns
  <1>1. IInv => OwnGuardRuns
    BY DEF IInv
  <1> QED BY <1>1, Invariance, PTL

\* As long as its entry was never taken out, a session has one Chrome.
THEOREM ProfileIsNotShared == Spec => []OneChromePerSession
  <1>1. IInv => OneChromePerSession
    <2> SUFFICES ASSUME IInv, NEW s \in Sessions \ removed
                 PROVE  Cardinality({l \in Launches : sid[l] = s /\ chrome[l] = "running"}) <= 1
      BY DEF OneChromePerSession
    <2> DEFINE own == {l \in Launches : sid[l] = s /\ chrome[l] = "running"}
    <2>1. \A l \in own : lpc[l] \notin {"new", "refused"}
      BY DEF IInv, LaunchShape
    <2>2. \A l \in own : reg[s].by = l
      BY <2>1 DEF IInv, ReservationStays
    <2>3. own = {} \/ \E l \in Launches : own = {l}
      BY <2>2
    <2>4. Cardinality({}) = 0 /\ \A l \in Launches : Cardinality({l}) = 1
      BY FS_EmptySet, FS_Singleton
    <2> HIDE DEF own
    <2>5. Cardinality(own) \in {0, 1}
      BY <2>3, <2>4
    <2> QED BY <2>5 DEF own
  <1> QED BY <1>1, Invariance, PTL

\* Only two steps take out an entry unasked, and both have a cause: a broken
\* connection or a proxy that failed Threshold probes in a row.
LEMMA RemovalStep ==
    ASSUME IInv, Next, NEW s \in Sessions, NEW l \in Launches,
           reg[s].kind = "live", reg'[s] = NoEntry,
           ~TerminateBrowser(s), ~\E graceful \in BOOLEAN : Restart(graceful)
    PROVE  \E k \in Launches : sid[k] = s /\ (conn[k] = "lost" \/ streak'[k] = Threshold)
  <1>0. reg \in [Sessions -> Entry] /\ reg[s] # NoEntry /\ reg'[s] # reg[s]
    BY DEF IInv, TypeOK, NoEntry
  <1>1. ASSUME NEW k \in Launches, OnBrowserDisconnected(k)
        PROVE  sid[k] = s /\ conn[k] = "lost"
    <2>1. conn[k] = "lost"
      BY <1>1 DEF IInv, FiredIsLost, OnBrowserDisconnected
    <2>2. sid[k] = s
      BY <1>0, <1>1 DEF OnBrowserDisconnected, Pop, UNCHANGED_REG
    <2> QED BY <2>1, <2>2
  <1>2. ASSUME NEW k \in Launches, Probe(k)
        PROVE  sid[k] = s /\ streak'[k] = Threshold
    <2>1. sid[k] = s /\ Failures(k) >= Threshold
      BY <1>0, <1>2 DEF Probe, Pop, UNCHANGED_REG
    <2>2. ~up[k] /\ fails[k] = Threshold - 1 /\ streak[k] = fails[k] /\ fails[k] \in 0 .. Threshold
      BY <1>2, <2>1, LimitsAssumption DEF IInv, TypeOK, FailuresCount, Failures, Probe
    <2>3. streak'[k] = Threshold
      BY <1>2, <2>2, LimitsAssumption DEF Probe, Least, IInv, TypeOK
    <2> QED BY <2>1, <2>3
  <1>3. ASSUME NEW k \in Launches, LaunchStep(k) PROVE FALSE
    BY <1>0, <1>3 DEF LaunchStep, StartChrome, FailLaunch, Register, Arm, Put, UNCHANGED_REG,
           NoEntry
  <1>4. ASSUME NEW k \in Launches,
               GuardWakes(k) \/ Close(k) \/ Disconnect(k) \/ ProxyDown(k) \/ ProxyUp(k)
        PROVE  FALSE
    BY <1>0, <1>4 DEF GuardWakes, Close, Disconnect, ProxyDown, ProxyUp, UNCHANGED_REG
  <1>5. ASSUME NEW k \in Launches, NEW x \in Sessions, Reserve(k, x) PROVE FALSE
    BY <1>0, <1>5 DEF Reserve, NoEntry
  <1>6. ASSUME NEW x \in Sessions, TerminateBrowser(x) PROVE FALSE
    BY <1>0, <1>6 DEF TerminateBrowser, Pop
  <1>7. ASSUME NEW x \in Sessions, BeginUcLogin(x) \/ RegisterUcLogin(x) \/ FailUcLogin(x)
        PROVE  FALSE
    BY <1>0, <1>7 DEF BeginUcLogin, RegisterUcLogin, FailUcLogin, Put, UNCHANGED_REG, NoEntry
  <1> QED BY <1>1, <1>2, <1>3, <1>4, <1>5, <1>6, <1>7 DEF Next, GuardStep

\* A launch loses its entry unasked only for a cause.
THEOREM RemovalsHaveACause == Spec => RemovedForACause
  <1>1. IInv /\ [Next]_vars =>
          [\A s \in Sessions, l \in Launches :
              /\ reg[s].kind = "live" /\ reg[s].by = l /\ reg'[s] = NoEntry
              /\ ~TerminateBrowser(s) /\ ~\E graceful \in BOOLEAN : Restart(graceful)
              => \E k \in Launches :
                    sid[k] = s /\ (conn[k] = "lost" \/ streak'[k] = Threshold)]_vars
    BY RemovalStep
  <1> QED BY <1>1, Invariance, PTL DEF Spec, RemovedForACause
=============================================================================
