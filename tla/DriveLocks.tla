----------------------------- MODULE DriveLocks -----------------------------
(***************************************************************************)
(* The lock around a file of the shared Drive, for ONE file: the Redis     *)
(* endpoints of api/routers/worker_locks.py, and the client in the Colab   *)
(* workers (colab/xio_drive_fs.py, XIODriveFS.put), which falls back to a  *)
(* .xiolock file when it gets no answer from the server.  A worker waits   *)
(* for the lock, stages its data in one .xiotmp file, renames it and gives *)
(* the lock back.  Both kinds of lock carry a time to live.                *)
(*                                                                         *)
(* A request that has reached the server runs in a thread of its own.  The *)
(* client waits five seconds for the answer and then goes on, whatever the *)
(* thread has done by then or does later.                                  *)
(***************************************************************************)
CONSTANTS
    Workers,   \* Colab workers
    NoWorker,
    Threads    \* request threads of the server

ASSUME NoWorkerAssumption == NoWorker \notin Workers

VARIABLES
    entry,     \* node in the Redis value, NoWorker if the key does not exist
    owner,     \* creator of the .xiolock file, NoWorker if there is none
    body,      \* content of the file: "empty", "fresh" or "stale"
    pc,        \* [Workers -> what the worker does next]
    mode,      \* [Workers -> "redis" | "fs"], the kind of lock it holds or wants
    stage,     \* [Threads -> the Redis command that the thread is about to give,
               \*  "set", "get" or "del"; or "idle"]
    asker,     \* [Threads -> node_name of the request that the thread serves]
    tmp,       \* node whose data is in the .xiotmp file
    dest,      \* node whose data is in the file
    mishaps    \* history: "fallback" once a worker has fallen back to the
               \* file, "lapse" once a key has expired too early (see Lapses)

lockVars   == <<entry, owner, body>>
serverVars == <<stage, asker>>
driveVars  == <<lockVars, pc, mode, serverVars, tmp, dest, mishaps>>

DriveInit ==
    /\ entry = NoWorker
    /\ owner = NoWorker
    /\ body = "empty"
    /\ pc = [n \in Workers |-> "idle"]
    /\ mode = [n \in Workers |-> "redis"]
    /\ stage = [h \in Threads |-> "idle"]
    /\ asker = [h \in Threads |-> NoWorker]
    /\ tmp = NoWorker
    /\ dest = NoWorker
    /\ mishaps = {}

Goto(n, l) == pc' = [pc EXCEPT ![n] = l]

\* A request of node n reaches the server, and thread h is about to give Redis
\* the command c.
Arrives(h, n, c) ==
    /\ stage[h] = "idle"
    /\ stage' = [stage EXCEPT ![h] = c]
    /\ asker' = [asker EXCEPT ![h] = n]

\* Thread h is through with its request.
Served(h) ==
    /\ stage' = [stage EXCEPT ![h] = "idle"]
    /\ asker' = [asker EXCEPT ![h] = NoWorker]

\* put: acquire_lock starts with the server.
BeginPut(n) ==
    /\ pc[n] = "idle"
    /\ Goto(n, "redis")
    /\ mode' = [mode EXCEPT ![n] = "redis"]
    /\ UNCHANGED <<serverVars, lockVars, tmp, dest, mishaps>>

------------------------------------------------------------------------------
\* Redis: acquire_lock of the server, _redis_acquire of the client.

\* Fault: the value is written without NX.
AcquireOverwriting(n) ==
    /\ pc[n] = "redis"
    /\ entry' = n
    /\ Goto(n, "write")
    /\ UNCHANGED <<serverVars, owner, body, mode, tmp, dest, mishaps>>

\* SET key value NX EX ttl succeeds and the answer arrives in time, five seconds
\* at most, while the time to live is a minute: one step.  When the key exists
\* the client sleeps and asks again.
RedisAcquire(n) ==
    /\ pc[n] = "redis"
    /\ entry = NoWorker
    /\ entry' = n
    /\ Goto(n, "write")
    /\ UNCHANGED <<owner, body, mode, serverVars, tmp, dest, mishaps>>

\* Fault: no answer counts as a grant.
TurnToFileAnyway(n) ==
    /\ pc[n] = "redis"
    /\ Goto(n, "write")
    /\ mishaps' = mishaps \cup {"fallback"}
    /\ UNCHANGED mode

\* No answer within five seconds: the client falls back to the lock file.
TurnToFile(n) ==
    /\ pc[n] = "redis"
    /\ Goto(n, "fs")
    /\ mode' = [mode EXCEPT ![n] = "fs"]
    /\ mishaps' = mishaps \cup {"fallback"}

\* The request was lost, or the answer to a SET that took effect.
FallBack(n) ==
    /\ TurnToFile(n)
    /\ entry' \in {entry} \cup {m \in {n} : entry = NoWorker}
    /\ UNCHANGED <<owner, body, serverVars, tmp, dest>>

\* The request is still with the server ...
FallBackTooEarly(n, h) ==
    /\ TurnToFile(n)
    /\ Arrives(h, n, "set")
    /\ UNCHANGED <<lockVars, tmp, dest>>

\* ... which sets the key, if it is free by then, and answers nobody.
ServeSet(h) ==
    /\ stage[h] = "set"
    /\ entry' = IF entry = NoWorker THEN asker[h] ELSE entry
    /\ Served(h)
    /\ UNCHANGED <<owner, body, pc, mode, tmp, dest, mishaps>>

\* XIOLockTimeout.
GiveUp(n) ==
    /\ pc[n] \in {"redis", "fs"}
    /\ Goto(n, "idle")
    /\ UNCHANGED <<serverVars, lockVars, mode, tmp, dest, mishaps>>

------------------------------------------------------------------------------
\* The lock file: _fs_acquire.

\* The file is read and found too old, or not to be JSON.
FsFindStale(n) ==
    /\ pc[n] = "fs"
    /\ owner # NoWorker /\ body \in {"stale", "empty"}
    /\ Goto(n, "unlink")
    /\ UNCHANGED <<serverVars, lockVars, mode, tmp, dest, mishaps>>

\* unlink(missing_ok=True), whatever file has the name by now.
FsUnlink(n) ==
    /\ pc[n] = "unlink"
    /\ owner' = NoWorker
    /\ body' = "empty"
    /\ Goto(n, "fs")
    /\ UNCHANGED <<serverVars, entry, mode, tmp, dest, mishaps>>

\* open(lpath, "x") creates the file, still empty ...
FsCreate(n) ==
    /\ pc[n] = "fs"
    /\ owner = NoWorker
    /\ owner' = n
    /\ body' = "empty"
    /\ Goto(n, "dump")
    /\ UNCHANGED <<serverVars, entry, mode, tmp, dest, mishaps>>

\* ... and json.dump fills it, if the name still refers to it.
FsDump(n) ==
    /\ pc[n] = "dump"
    /\ body' = IF owner = n THEN "fresh" ELSE body
    /\ Goto(n, "write")
    /\ UNCHANGED <<serverVars, entry, owner, mode, tmp, dest, mishaps>>

------------------------------------------------------------------------------
\* put, inside the lock: tmp.write_bytes(data); tmp.rename(dest)

WriteTmp(n) ==
    /\ pc[n] = "write"
    /\ tmp' = n
    /\ Goto(n, "rename")
    /\ UNCHANGED <<serverVars, lockVars, mode, dest, mishaps>>

\* Without a staged file the rename raises, and "finally" releases the lock.
Rename(n) ==
    /\ pc[n] = "rename"
    /\ dest' = IF tmp = NoWorker THEN dest ELSE tmp
    /\ tmp' = NoWorker
    /\ Goto(n, "release")
    /\ UNCHANGED <<serverVars, lockVars, mode, mishaps>>

\* The content is there already: the re-check inside the lock ends put.
SkipIdentical(n) ==
    /\ pc[n] = "write"
    /\ dest # NoWorker
    /\ Goto(n, "release")
    /\ UNCHANGED <<serverVars, lockVars, mode, tmp, dest, mishaps>>

------------------------------------------------------------------------------
\* release_lock

\* Fault: the lock is given back before the rename.
ReleaseTooEarly(n, h) ==
    /\ pc[n] = "write" /\ mode[n] = "redis"
    /\ Goto(n, "rename")
    /\ Arrives(h, n, "get")
    /\ UNCHANGED <<lockVars, mode, tmp, dest, mishaps>>

\* The release request reaches the server.  From here on the client may go on
\* at any time, with an answer or after five seconds without one.
SendRelease(n, h) ==
    /\ pc[n] = "release" /\ mode[n] = "redis"
    /\ Goto(n, "idle")
    /\ Arrives(h, n, "get")
    /\ UNCHANGED <<lockVars, mode, tmp, dest, mishaps>>

\* The request is lost; the client ignores that.
LoseRelease(n) ==
    /\ pc[n] = "release" /\ mode[n] = "redis"
    /\ Goto(n, "idle")
    /\ UNCHANGED <<lockVars, mode, serverVars, tmp, dest, mishaps>>

\* GET and compare: another holder, or none, ends the release.
ServeGet(h) ==
    /\ stage[h] = "get"
    /\ IF entry = asker[h]
         THEN stage' = [stage EXCEPT ![h] = "del"] /\ UNCHANGED asker
         ELSE Served(h)
    /\ UNCHANGED <<lockVars, pc, mode, tmp, dest, mishaps>>

\* DEL key, whoever the key names by now.
ServeDel(h) ==
    /\ stage[h] = "del"
    /\ entry' = NoWorker
    /\ Served(h)
    /\ UNCHANGED <<owner, body, pc, mode, tmp, dest, mishaps>>

\* Redis does not answer (503), or the API process stops.
RequestFails(h) ==
    /\ stage[h] # "idle"
    /\ Served(h)
    /\ UNCHANGED <<lockVars, pc, mode, tmp, dest, mishaps>>

\* _fs_release reads the lock file: another owner, or no file, ends the release;
\* a file that is not JSON yet is removed as broken.
FsReadOwner(n) ==
    /\ pc[n] = "release" /\ mode[n] = "fs"
    /\ Goto(n, IF owner = n \/ (owner # NoWorker /\ body = "empty") THEN "remove" ELSE "idle")
    /\ UNCHANGED <<lockVars, mode, serverVars, tmp, dest, mishaps>>

\* unlink(missing_ok=True), whatever file has the name by now.
FsRemove(n) ==
    /\ pc[n] = "remove"
    /\ owner' = NoWorker
    /\ body' = "empty"
    /\ Goto(n, "idle")
    /\ UNCHANGED <<entry, mode, serverVars, tmp, dest, mishaps>>

------------------------------------------------------------------------------
\* Node n relies on its lock: between acquire_lock and the end of the release.
Holding(n) == pc[n] \in {"write", "rename", "release", "remove"}

InsideByRedis(n) == Holding(n) /\ mode[n] = "redis"

\* The release request of node n is with the server, in thread h.
ReleaseIsWith(n, h) == stage[h] \in {"get", "del"} /\ asker[h] = n

\* The key of node n would expire too early: n relies on it, or its release may
\* still delete what the key is by then.
Lapses(n) == InsideByRedis(n) \/ \E h \in Threads : ReleaseIsWith(n, h)

\* The time to live of the Redis key passes, whatever its holder does.
ExpireEntry ==
    /\ entry # NoWorker
    /\ entry' = NoWorker
    /\ mishaps' = mishaps \cup {m \in {"lapse"} : Lapses(entry)}
    /\ UNCHANGED <<owner, body, pc, mode, serverVars, tmp, dest>>

\* The lock file gets older than lock_ttl.
AgeFile ==
    /\ owner # NoWorker /\ body = "fresh"
    /\ body' = "stale"
    /\ UNCHANGED <<serverVars, entry, owner, pc, mode, tmp, dest, mishaps>>

WorkerCrash(n) ==
    /\ pc[n] # "dead"
    /\ Goto(n, "dead")
    /\ UNCHANGED <<serverVars, lockVars, mode, tmp, dest, mishaps>>

WorkerStep(n) ==
    \/ BeginPut(n) \/ RedisAcquire(n) \/ FallBack(n) \/ GiveUp(n)
    \/ FsFindStale(n) \/ FsUnlink(n) \/ FsCreate(n) \/ FsDump(n)
    \/ WriteTmp(n) \/ Rename(n) \/ SkipIdentical(n)
    \/ LoseRelease(n) \/ FsReadOwner(n) \/ FsRemove(n)
    \/ \E h \in Threads : FallBackTooEarly(n, h) \/ SendRelease(n, h)

ServerStep(h) == ServeSet(h) \/ ServeGet(h) \/ ServeDel(h) \/ RequestFails(h)

DriveNext ==
    \/ ExpireEntry
    \/ AgeFile
    \/ \E n \in Workers : WorkerStep(n) \/ WorkerCrash(n)
    \/ \E h \in Threads : ServerStep(h)

DriveSpec == DriveInit /\ [][DriveNext]_driveVars

------------------------------------------------------------------------------
\* Every variable keeps its type.
DriveTypeOK ==
    /\ entry \in Workers \cup {NoWorker}
    /\ owner \in Workers \cup {NoWorker}
    /\ body \in {"empty", "fresh", "stale"}
    /\ pc \in [Workers -> {"idle", "redis", "fs", "unlink", "dump", "write", "rename",
                         "release", "remove", "dead"}]
    /\ mode \in [Workers -> {"redis", "fs"}]
    /\ stage \in [Threads -> {"idle", "set", "get", "del"}]
    /\ asker \in [Threads -> Workers \cup {NoWorker}]
    /\ tmp \in Workers \cup {NoWorker}
    /\ dest \in Workers \cup {NoWorker}
    /\ mishaps \subseteq {"fallback", "lapse"}

\* Two workers never hold the server's lock of one file at the same time, even
\* when others die with it, lose answers, use the lock file, or go on while the
\* server still has a request of theirs.  This lasts until a key expires under a
\* worker that relies on it or under a release that is on its way: the DEL of
\* that release, which nobody waits for any more, may hit the next holder's key.
ServerLockExclusion ==
    "lapse" \notin mishaps =>
        \A m, n \in Workers : InsideByRedis(m) /\ InsideByRedis(n) => m = n

\* What a worker renames into place is what it staged itself: as long as every
\* lock came from the server and none expired under its holder, two uploads
\* never mix in the shared .xiotmp file, whatever dead workers left there.
RenamesOwnData ==
    [][\A n \in Workers :
        (mishaps = {} /\ pc[n] = "rename" /\ pc'[n] = "release") => dest' = n]_driveVars

\* Until a key expires too early, the Redis key is the same lock service, whatever
\* requests and answers are lost or late and whoever uses the lock file instead:
\* in particular, a release that is served late frees the lock while nobody
\* relies on it, and a SET that is served late grants it to nobody.
DriveService == INSTANCE LockService WITH
    Clients <- Workers,
    lock    <- IF entry = NoWorker THEN "free" ELSE "answered",
    relying <- {n \in Workers : InsideByRedis(n)},
    sound   <- "lapse" \notin mishaps
DriveImplementsLockService == DriveService!Spec

------------------------------------------------------------------------------
\* The inductive invariant behind the safety properties.

\* The kind of lock fits where the worker is, and only a worker that fell back
\* is concerned with the lock file.
ModeFits ==
    \A n \in Workers :
        /\ pc[n] = "redis" => mode[n] = "redis"
        /\ pc[n] \in {"fs", "unlink", "dump", "remove"} => mode[n] = "fs"
        /\ "fallback" \notin mishaps => mode[n] = "redis"

\* Until a key expires too early, a worker that relies on the server's lock, or
\* whose release is with the server, is the one that the key names; it does
\* either the one or the other, and has one release there at most.
HolderIsRecorded ==
    "lapse" \notin mishaps =>
        /\ \A n \in Workers : InsideByRedis(n) => entry = n
        /\ \A n \in Workers, h \in Threads : ReleaseIsWith(n, h) =>
              /\ entry = n /\ ~InsideByRedis(n)
              /\ \A g \in Threads : ReleaseIsWith(n, g) => g = h

\* A thread that serves a request knows whose it is.
AskerIsKnown == \A h \in Threads : stage[h] # "idle" => asker[h] \in Workers

\* Until a mishap, the staged data belongs to the worker about to rename it.
StagedIsOwn == mishaps = {} => \A n \in Workers : pc[n] = "rename" => tmp = n

DriveIInv ==
    /\ DriveTypeOK
    /\ ModeFits
    /\ AskerIsKnown
    /\ HolderIsRecorded
    /\ StagedIsOwn
=============================================================================
