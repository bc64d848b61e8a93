----------------------------- MODULE LockService -----------------------------
(***************************************************************************)
(* What a lock service promises for one key, without connections, maps,    *)
(* keys with a time to live or requests in flight: the lock is granted     *)
(* while it is free, the grant is answered at most once and to one client, *)
(* and the lock is free again only when nobody relies on it.  The promise  *)
(* lasts until the service is no longer sound: a session was lost, a       *)
(* release repeated or a key expired under a client that relies on it.     *)
(***************************************************************************)
CONSTANT Clients

VARIABLES
    lock,      \* "free", "granted" and not yet answered, or "answered"
    relying,   \* clients that were told they have the lock and did not give it back
    sound      \* the promise still holds

vars == <<lock, relying, sound>>

Init ==
    /\ lock = "free"
    /\ relying = {}
    /\ sound = TRUE

\* A free lock is granted, and the answer is still to come.
Grant ==
    /\ lock = "free"
    /\ lock' = "granted"
    /\ UNCHANGED <<relying, sound>>

\* One client learns of the grant, or the answer is lost.
Answer ==
    /\ lock = "granted"
    /\ lock' = "answered"
    /\ relying' \in {relying} \cup {{c} : c \in Clients}
    /\ UNCHANGED sound

\* Grant and answer at once.
GrantAndAnswer ==
    /\ lock = "free"
    /\ lock' = "answered"
    /\ relying' \in {relying} \cup {{c} : c \in Clients}
    /\ UNCHANGED sound

\* A client that gives the lock back, or dies, no longer relies on it.
Quit(c) ==
    /\ c \in relying
    /\ relying' = relying \ {c}
    /\ UNCHANGED <<lock, sound>>

\* The lock becomes free with the release of the client that relied on it, or
\* when there is none.
Free ==
    /\ lock = "answered"
    /\ lock' = "free"
    /\ relying' = {}
    /\ UNCHANGED sound

\* From now on nothing is promised.
Break ==
    /\ sound' = FALSE
    /\ lock' \in {"free", "granted", "answered"}
    /\ relying' \in SUBSET Clients

Next ==
    \/ Grant \/ Answer \/ GrantAndAnswer \/ Free \/ Break
    \/ \E c \in Clients : Quit(c)

Spec == Init /\ [][Next]_vars
==============================================================================
