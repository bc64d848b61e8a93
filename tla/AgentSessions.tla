--------------------------- MODULE AgentSessions ---------------------------
(***************************************************************************)
(* The browser sessions of one Colab agent: colab/agent/browser/           *)
(* patchright_launcher.py, network/proxy_guard.py, the registration done   *)
(* by browser/uc_routes.py and the shutdown of server/lifespan.py.  All    *)
(* of it is one asyncio loop around the dictionary _sessions: a step runs  *)
(* from one await to the next.  Callbacks and probe loops name a session   *)
(* by its id, not by the launch that created them.                         *)
(***************************************************************************)
EXTENDS Naturals, FiniteSets

CONSTANTS
    Sessions,     \* session ids
    MaxLaunches,  \* bound: POST /launch requests, numbered as they arrive
    MaxSessions,  \* _MAX_SESSIONS
    Threshold,    \* THRESHOLD: consecutive failed probes
    MaxEvents     \* bound: proxy outages, lost connections, crashes of Chrome,
                  \*   UC logins and ends of the agent process, together

ASSUME LimitsAssumption ==
    /\ MaxLaunches \in Nat /\ MaxSessions \in Nat /\ Threshold \in Nat \ {0}
    /\ MaxEvents \in Nat
ASSUME SessionsAssumption == IsFiniteSet(Sessions) /\ Sessions # {}

Launches == 1 .. MaxLaunches
Nobody == 0
Least(m, n) == IF m < n THEN m ELSE n

VARIABLES
    reg,      \* _sessions: [Sessions -> Entry]
    lpc,      \* [Launches -> where the request stands]
    sid,      \* [Launches -> its session id]
    chrome,   \* [Launches -> the Chrome process it started]
    conn,     \* [Launches -> the CDP connection of its browser object]
    watch,    \* [Launches -> its "disconnected" callback]
    guard,    \* [Launches -> its _proxy_probe_loop]
    fails,    \* [Launches -> failures of that loop]
    up,       \* [Launches -> whether its proxy answers]
    closing,  \* launches whose browser object is being closed
    login,    \* session ids with a /run-uc-login under way
    events,   \* bounded events so far
    streak,   \* history: failed probes of a launch's proxy since one succeeded
    removed,  \* history: ids that were taken out of _sessions
    intruders \* history: ids that were put in without a reservation

vars == <<reg, lpc, sid, chrome, conn, watch, guard, fails, up, closing, login,
          events, streak, removed, intruders>>

NoEntry == [kind |-> "none", by |-> Nobody, guard |-> Nobody]

Init ==
    /\ reg = [s \in Sessions |-> NoEntry]
    /\ lpc = [l \in Launches |-> "new"]
    /\ sid = [l \in Launches |-> CHOOSE s \in Sessions : TRUE]
    /\ chrome = [l \in Launches |-> "none"]
    /\ conn = [l \in Launches |-> "none"]
    /\ watch = [l \in Launches |-> "none"]
    /\ guard = [l \in Launches |-> "none"]
    /\ fails = [l \in Launches |-> 0]
    /\ up = [l \in Launches |-> TRUE]
    /\ closing = {}
    /\ login = {}
    /\ events = 0
    /\ streak = [l \in Launches |-> 0]
    /\ removed = {} /\ intruders = {}

------------------------------------------------------------------------------
\* The dictionary

Present(s) == reg[s].kind # "none"

\* _sessions.pop(s, None)
Pop(s) ==
    /\ reg' = [reg EXCEPT ![s] = NoEntry]
    /\ removed' = removed \cup {s}
    /\ intruders' = intruders \ {s}

\* _sessions[s] = entry, whatever is there.
Put(s, entry) ==
    /\ reg' = [reg EXCEPT ![s] = entry]
    /\ intruders' = IF Present(s) THEN intruders ELSE intruders \cup {s}

Move(l, step) == lpc' = [lpc EXCEPT ![l] = step]

UNCHANGED_REG == UNCHANGED <<reg, removed, intruders>>

\* One more of the events that are bounded.
Event == events < MaxEvents /\ events' = events + 1

------------------------------------------------------------------------------
\* launch_browser

\* Fault: the capacity check admits one session too many.
ReserveOneMore(l, s) ==
    /\ lpc[l] = "new" /\ \A k \in Launches : k < l => lpc[k] # "new"
    /\ IF Present(s) \/ Cardinality({x \in Sessions : Present(x)}) > MaxSessions
       THEN Move(l, "refused") /\ UNCHANGED <<reg, sid>>
       ELSE /\ sid' = [sid EXCEPT ![l] = s]
            /\ reg' = [reg EXCEPT ![s] = [kind |-> "reserving", by |-> l, guard |-> Nobody]]
            /\ Move(l, "reserved")
    /\ UNCHANGED <<chrome, conn, watch, guard, fails, up, closing, login, streak,
                   removed, intruders>>
    /\ UNCHANGED events

\* Fault: the session is looked up, but no slot is reserved.
ReserveNothing(l, s) ==
    /\ lpc[l] = "new" /\ \A k \in Launches : k < l => lpc[k] # "new"
    /\ sid' = [sid EXCEPT ![l] = s]
    /\ Move(l, IF Present(s) \/ Cardinality({x \in Sessions : Present(x)}) >= MaxSessions
               THEN "refused" ELSE "reserved")
    /\ UNCHANGED <<chrome, conn, watch, guard, fails, up, closing, login, streak>>
    /\ UNCHANGED events /\ UNCHANGED_REG

\* Under _sessions_lock, without an await: the session's entry is returned when
\* there is one, refused (409) while it is being reserved, refused (429) at
\* capacity; else the slot is reserved.
Reserve(l, s) ==
    /\ lpc[l] = "new" /\ \A k \in Launches : k < l => lpc[k] # "new"
    /\ \/ /\ Present(s) \/ Cardinality({x \in Sessions : Present(x)}) >= MaxSessions
          /\ Move(l, "refused")
          /\ UNCHANGED <<reg, sid>>
       \/ /\ ~Present(s) /\ Cardinality({x \in Sessions : Present(x)}) < MaxSessions
          /\ sid' = [sid EXCEPT ![l] = s]
          /\ reg' = [reg EXCEPT ![s] = [kind |-> "reserving", by |-> l, guard |-> Nobody]]
          /\ Move(l, "reserved")
    /\ UNCHANGED <<chrome, conn, watch, guard, fails, up, closing, login, streak,
                   removed, intruders>>
    /\ UNCHANGED events

\* Location, fingerprint and port are worked out, then Chrome is started.
StartChrome(l) ==
    /\ lpc[l] = "reserved"
    /\ chrome' = [chrome EXCEPT ![l] = "running"]
    /\ Move(l, "starting")
    /\ UNCHANGED <<sid, conn, watch, guard, fails, up, closing, login, streak>>
    /\ UNCHANGED events /\ UNCHANGED_REG

\* An exception before Chrome answers.  Chrome is killed if it was started; the
\* reservation stays.
FailLaunch(l) ==
    /\ lpc[l] \in {"reserved", "starting"}
    /\ chrome' = [chrome EXCEPT ![l] = IF @ = "running" THEN "gone" ELSE @]
    /\ Move(l, "failed")
    /\ UNCHANGED <<sid, conn, watch, guard, fails, up, closing, login, streak>>
    /\ UNCHANGED events /\ UNCHANGED_REG

\* Chrome answers.  The CDP overlay is attached if it can be, and the entry is
\* written over whatever the id holds by now.
Register(l, overlay) ==
    /\ lpc[l] = "starting" /\ chrome[l] = "running"
    /\ Put(sid[l], [kind |-> "live", by |-> l, guard |-> Nobody])
    /\ conn' = [conn EXCEPT ![l] = IF overlay THEN "on" ELSE "none"]
    /\ Move(l, "registered")
    /\ UNCHANGED <<sid, chrome, watch, guard, fails, up, closing, login, streak, removed>>
    /\ UNCHANGED events

\* After the await of context.route: crash callback and, with a SOCKS proxy,
\* probe loop.  The loop exists before its handle is stored, which fails when
\* the entry is gone.
Arm(l, proxied) ==
    LET s == sid[l] IN
    /\ lpc[l] = "registered"
    /\ watch' = [watch EXCEPT ![l] = IF conn[l] = "none" THEN "none" ELSE "armed"]
    /\ guard' = [guard EXCEPT ![l] = IF proxied THEN "asleep" ELSE @]
    /\ reg' = IF proxied /\ Present(s) THEN [reg EXCEPT ![s].guard = l] ELSE reg
    /\ Move(l, IF proxied => Present(s) THEN "done" ELSE "failed")
    /\ UNCHANGED <<sid, chrome, conn, fails, up, closing, login, streak,
                   removed, intruders>>
    /\ UNCHANGED events

------------------------------------------------------------------------------
\* The end of a browser

\* close() of a browser object: its connection ends, and with a managed browser
\* so does Chrome.
Close(l) ==
    /\ l \in closing
    /\ closing' = closing \ {l}
    /\ \E c \in {chrome[l], "gone"} : chrome' = [chrome EXCEPT ![l] = c]
    /\ conn' = [conn EXCEPT ![l] = "lost"]
    /\ watch' = [watch EXCEPT ![l] = IF @ = "armed" THEN "fired" ELSE @]
    /\ UNCHANGED <<lpc, sid, guard, fails, up, login, streak>>
    /\ UNCHANGED events /\ UNCHANGED_REG

\* Chrome crashes, or the connection to it breaks.
Disconnect(l) ==
    /\ Event
    /\ chrome[l] = "running" /\ lpc[l] # "starting"
    /\ \/ chrome' = [chrome EXCEPT ![l] = "gone"]
       \/ conn[l] = "on" /\ UNCHANGED chrome
    /\ conn' = [conn EXCEPT ![l] = IF @ = "on" THEN "lost" ELSE @]
    /\ watch' = [watch EXCEPT ![l] = IF @ = "armed" /\ conn[l] = "on" THEN "fired" ELSE @]
    /\ UNCHANGED <<lpc, sid, guard, fails, up, closing, login, streak>>
    /\ UNCHANGED_REG

\* _on_browser_disconnected: whatever entry the id has is removed.
OnBrowserDisconnected(l) ==
    /\ watch[l] = "fired"
    /\ watch' = [watch EXCEPT ![l] = "none"]
    /\ IF Present(sid[l]) THEN Pop(sid[l]) ELSE UNCHANGED_REG
    /\ UNCHANGED <<lpc, sid, chrome, conn, guard, fails, up, closing, login, streak>>
    /\ UNCHANGED events

\* terminate_browser: the entry's own probe loop is cancelled and its browser
\* object closed.  The Chrome process itself is not touched.
TerminateBrowser(s) ==
    LET e == reg[s] IN
    /\ Present(s)
    /\ Pop(s)
    /\ guard' = IF e.guard = Nobody THEN guard ELSE [guard EXCEPT ![e.guard] = "done"]
    /\ closing' = IF e.kind = "live" /\ conn[e.by] = "on" THEN closing \cup {e.by} ELSE closing
    /\ UNCHANGED <<lpc, sid, chrome, conn, watch, fails, up, login, streak>>
    /\ UNCHANGED events

------------------------------------------------------------------------------
\* _proxy_probe_loop

\* The sleep is over: the loop ends when the id has no entry, else it probes.
GuardWakes(l) ==
    /\ guard[l] = "asleep"
    /\ guard' = [guard EXCEPT ![l] = IF Present(sid[l]) THEN "probing" ELSE "done"]
    /\ UNCHANGED <<lpc, sid, chrome, conn, watch, fails, up, closing, login, streak>>
    /\ UNCHANGED events /\ UNCHANGED_REG

\* Fault: a successful probe does not reset the count.
FailuresKept(l) == IF up[l] THEN fails[l] ELSE fails[l] + 1

\* Fault: the count starts at zero with every probe.
FailuresForgotten(l) == IF up[l] THEN 0 ELSE 1

\* What the loop makes of an answer: failures so far.
Failures(l) == IF up[l] THEN 0 ELSE fails[l] + 1

\* Fault: a loop that saw a failure below the threshold ends.
ProbeOnce(l) ==
    LET s == sid[l] IN
    /\ guard[l] = "probing"
    /\ fails' = [fails EXCEPT ![l] = Failures(l)]
    /\ streak' = [streak EXCEPT ![l] = IF up[l] THEN 0 ELSE Least(Threshold, @ + 1)]
    /\ guard' = [guard EXCEPT ![l] = IF up[l] THEN "asleep" ELSE "done"]
    /\ IF Failures(l) >= Threshold THEN Pop(s) ELSE UNCHANGED_REG
    /\ UNCHANGED <<lpc, sid, chrome, conn, watch, up, closing, login>>
    /\ UNCHANGED events

\* The probe's answer.  At the threshold whatever entry the id has is removed
\* and its browser object, if it has one, closed.
Probe(l) ==
    LET s == sid[l]
        lost == Failures(l) >= Threshold
    IN
    /\ guard[l] = "probing"
    /\ fails' = [fails EXCEPT ![l] = Failures(l)]
    /\ streak' = [streak EXCEPT ![l] = IF up[l] THEN 0 ELSE Least(Threshold, @ + 1)]
    /\ guard' = [guard EXCEPT ![l] = IF lost THEN "done" ELSE "asleep"]
    /\ IF lost /\ Present(s) THEN Pop(s) ELSE UNCHANGED_REG
    /\ closing' = IF lost /\ reg[s].kind = "live" /\ conn[reg[s].by] = "on"
                  THEN closing \cup {reg[s].by} ELSE closing
    /\ UNCHANGED <<lpc, sid, chrome, conn, watch, up, login>>
    /\ UNCHANGED events

ProxyDown(l) ==
    /\ up[l] /\ guard[l] \in {"asleep", "probing"}
    /\ Event
    /\ up' = [up EXCEPT ![l] = FALSE]
    /\ UNCHANGED <<lpc, sid, chrome, conn, watch, guard, fails, closing, login, streak>>
    /\ UNCHANGED_REG

ProxyUp(l) ==
    /\ ~up[l]
    /\ up' = [up EXCEPT ![l] = TRUE]
    /\ UNCHANGED <<lpc, sid, chrome, conn, watch, guard, fails, closing, login, streak>>
    /\ UNCHANGED events /\ UNCHANGED_REG

------------------------------------------------------------------------------
\* run_uc_login, and the end of the process

BeginUcLogin(s) ==
    /\ s \notin login
    /\ Event
    /\ login' = login \cup {s}
    /\ UNCHANGED <<lpc, sid, chrome, conn, watch, guard, fails, up, closing, streak>>
    /\ UNCHANGED_REG

\* The login worked: its own Chrome takes the id over, without lock, capacity
\* check or probe loop.
RegisterUcLogin(s) ==
    /\ s \in login
    /\ login' = login \ {s}
    /\ Put(s, [kind |-> "uc", by |-> Nobody, guard |-> Nobody])
    /\ removed' = IF Present(s) THEN removed \cup {s} ELSE removed
    /\ UNCHANGED <<lpc, sid, chrome, conn, watch, guard, fails, up, closing, streak>>
    /\ UNCHANGED events

FailUcLogin(s) ==
    /\ s \in login
    /\ login' = login \ {s}
    /\ UNCHANGED <<lpc, sid, chrome, conn, watch, guard, fails, up, closing, streak>>
    /\ UNCHANGED events /\ UNCHANGED_REG

\* The process ends and the watchdog starts another one.  A graceful end kills
\* the Chrome processes that are registered, a crash kills none.
Restart(graceful) ==
    /\ Event
    /\ reg' = [s \in Sessions |-> NoEntry]
    /\ removed' = Sessions /\ intruders' = {}
    /\ chrome' = [l \in Launches |->
                    IF graceful /\ reg[sid[l]].kind = "live" /\ reg[sid[l]].by = l
                    THEN "gone" ELSE chrome[l]]
    /\ lpc' = [l \in Launches |->
                 IF lpc[l] \in {"reserved", "starting", "registered"} THEN "failed" ELSE lpc[l]]
    /\ conn' = [l \in Launches |-> IF conn[l] = "on" THEN "lost" ELSE conn[l]]
    /\ watch' = [l \in Launches |-> "none"]
    /\ guard' = [l \in Launches |-> IF guard[l] = "none" THEN "none" ELSE "done"]
    /\ closing' = {} /\ login' = {}
    /\ UNCHANGED <<sid, fails, up, streak>>

------------------------------------------------------------------------------
LaunchStep(l) ==
    \/ StartChrome(l) \/ FailLaunch(l)
    \/ \E b \in BOOLEAN : Register(l, b) \/ Arm(l, b)

GuardStep(l) == GuardWakes(l) \/ Probe(l)

Next ==
    \/ \E l \in Launches :
          \/ LaunchStep(l) \/ GuardStep(l)
          \/ Close(l) \/ Disconnect(l) \/ OnBrowserDisconnected(l)
          \/ ProxyDown(l) \/ ProxyUp(l)
          \/ \E s \in Sessions : Reserve(l, s)
    \/ \E s \in Sessions :
          \/ TerminateBrowser(s)
          \/ BeginUcLogin(s) \/ RegisterUcLogin(s) \/ FailUcLogin(s)
    \/ \E graceful \in BOOLEAN : Restart(graceful)

\* The event loop goes on with every probe loop that can run.
Spec == Init /\ [][Next]_vars /\ \A l \in Launches : WF_vars(GuardStep(l))

------------------------------------------------------------------------------
Entry == [kind : {"none", "reserving", "live", "uc"},
          by : Launches \cup {Nobody}, guard : Launches \cup {Nobody}]

TypeOK ==
    /\ reg \in [Sessions -> Entry]
    /\ lpc \in [Launches -> {"new", "refused", "reserved", "starting", "registered",
                             "done", "failed"}]
    /\ sid \in [Launches -> Sessions]
    /\ chrome \in [Launches -> {"none", "running", "gone"}]
    /\ conn \in [Launches -> {"none", "on", "lost"}]
    /\ watch \in [Launches -> {"none", "armed", "fired"}]
    /\ guard \in [Launches -> {"none", "asleep", "probing", "done"}]
    /\ fails \in [Launches -> 0 .. Threshold]
    /\ up \in [Launches -> BOOLEAN]
    /\ closing \subseteq Launches /\ login \subseteq Sessions
    /\ events \in 0 .. MaxEvents
    /\ streak \in [Launches -> 0 .. Threshold]
    /\ removed \subseteq Sessions
    /\ intruders \subseteq Sessions

\* No more than _MAX_SESSIONS ids are in _sessions, apart from those that a UC
\* login, or a launch whose reservation was removed under it, put there.
CapacityIsKept ==
    Cardinality({s \in Sessions : Present(s)} \ intruders) <= MaxSessions

\* Concurrent and repeated launches of a session start one Chrome: two on one
\* profile need an entry that was removed in between.
OneChromePerSession ==
    \A s \in Sessions \ removed :
        Cardinality({l \in Launches : sid[l] = s /\ chrome[l] = "running"}) <= 1

\* A session that a finished launch registered is watched by the probe loop that
\* launch started, however many loops and entries the id has had.
OwnGuardRuns ==
    \A l \in Launches :
        lpc[l] = "done" /\ reg[sid[l]].kind = "live" /\ reg[sid[l]].by = l
            => guard[l] # "done"

\* Unless a request takes it or replaces it, a launch loses its entry only after
\* the connection of a launch of its id broke, or the proxy of one failed
\* Threshold probes in a row.
RemovedForACause ==
    [][\A s \in Sessions, l \in Launches :
          /\ reg[s].kind = "live" /\ reg[s].by = l /\ reg'[s] = NoEntry
          /\ ~TerminateBrowser(s) /\ ~\E graceful \in BOOLEAN : Restart(graceful)
          => \E k \in Launches :
                sid[k] = s /\ (conn[k] = "lost" \/ streak'[k] = Threshold)]_vars

\* A session whose proxy stays away does not stay in _sessions.
ProxyLossEndsSession ==
    \A l \in Launches :
        []<>~(lpc[l] = "done" /\ reg[sid[l]].kind = "live" /\ reg[sid[l]].by = l /\ ~up[l])

------------------------------------------------------------------------------
\* The inductive invariant behind the safety properties.

\* A launch that has not come so far has no callback, no loop, no Chrome and no
\* browser object to close.
Begun == {"registered", "done", "failed"}

LaunchShape ==
    \A l \in Launches :
        /\ lpc[l] \notin Begun => watch[l] = "none" /\ l \notin closing
        /\ lpc[l] \notin {"done", "failed"} => guard[l] = "none"
        /\ lpc[l] \in {"new", "refused", "reserved"} => chrome[l] = "none"

\* A loop's count is the streak of failed probes, and a loop that still runs has
\* not come to the threshold.
FailuresCount ==
    \A l \in Launches :
        /\ streak[l] = fails[l]
        /\ guard[l] = "none" => fails[l] = 0
        /\ guard[l] \in {"asleep", "probing"} => fails[l] < Threshold

\* The callback fires after the connection broke.
FiredIsLost == \A l \in Launches : watch[l] = "fired" => conn[l] = "lost"

\* An entry names launches of its own session id.
EntriesFit ==
    \A s \in Sessions :
        /\ reg[s].kind = "live" => reg[s].by # Nobody /\ lpc[reg[s].by] \in Begun
        /\ reg[s].by # Nobody => sid[reg[s].by] = s /\ lpc[reg[s].by] \notin {"new", "refused"}
        /\ reg[s].guard # Nobody => sid[reg[s].guard] = s /\ lpc[reg[s].guard] = "done"

\* Until an id is taken out, its entry belongs to the one launch that got beyond
\* the reservation of the id.
ReservationStays ==
    \A l \in Launches :
        (lpc[l] \notin {"new", "refused"} /\ sid[l] \notin removed)
            => Present(sid[l]) /\ reg[sid[l]].by = l

IInv ==
    /\ TypeOK
    /\ LaunchShape
    /\ FailuresCount
    /\ FiredIsLost
    /\ EntriesFit
    /\ ReservationStays
    /\ OwnGuardRuns
    /\ CapacityIsKept
=============================================================================
