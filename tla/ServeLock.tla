----------------------------- MODULE ServeLock -----------------------------
(***************************************************************************)
(* The life of `pherry serve' as its files see it: the pid file that makes *)
(* the daemon a singleton, the host key, the stable socket, the advertised *)
(* attention hook, and `pherry serve --stop'.                              *)
(*                                                                         *)
(* Every process is one run of the command, so a restart is a new member   *)
(* of Procs, and a process id is never used twice.  Each step is one file  *)
(* operation: what the code does between two awaits happens at once.       *)
(***************************************************************************)
EXTENDS Naturals, FiniteSets

CONSTANTS
    Procs,     \* runs of `pherry serve'
    Stops,     \* runs of `pherry serve --stop'
    None       \* no process

ASSUME NoneAssumption == None \notin Procs

VARIABLES
    serve,     \* where each run of startServe stands
    mem,       \* the key a daemon serves with, named for the run that made it
    stop,      \* where each run of stopServe stands
    target,    \* the process each stop signalled
    pidFile,   \* host.pid
    secret,    \* host.key
    pub,       \* host.pub
    sock,      \* host.sock: the run that bound it, alive or not
    hook,      \* attention-hook.json: the run that wrote it
    raced      \* history: commands have overlapped, and a run from then may live

files == <<pidFile, secret, pub, sock, hook>>
lockVars == <<serve, mem, stop, target, files, raced>>

Starting == {"stale", "key", "secret", "pub", "lock", "unlink", "listen",
             "failed", "advertise"}
Up == {"serving", "closing", "unlinked"}
Gone == {"idle", "refused", "exited", "dead"}
ServeStates == Starting \cup Up \cup Gone
StopStates == {"idle", "stale", "polling", "none", "stopped", "timeout"}
Stopping == {"stale", "polling"}

LockTypeOK ==
    /\ serve \in [Procs -> ServeStates]
    /\ mem \in [Procs -> Procs \cup {None}]
    /\ stop \in [Stops -> StopStates]
    /\ target \in [Stops -> Procs \cup {None}]
    /\ {pidFile, secret, pub, sock, hook} \subseteq Procs \cup {None}
    /\ raced \in BOOLEAN

LockInit ==
    /\ serve = [p \in Procs |-> "idle"]
    /\ mem = [p \in Procs |-> None]
    /\ stop = [s \in Stops |-> "idle"]
    /\ target = [s \in Stops |-> None]
    /\ pidFile = None /\ secret = None /\ pub = None /\ sock = None
    /\ hook = None /\ raced = FALSE

\* kill(pid, 0) succeeds.
isProcessAlive(p) == p # None /\ serve[p] \notin Gone

\* No other command is under way.
Alone ==
    /\ \A p \in Procs : serve[p] \notin Starting
    /\ \A s \in Stops : stop[s] \notin Stopping

\* A command begins.  Nothing keeps it from overlapping one that is under way;
\* what an overlap leaves behind is over when a command finds nobody running.
Begins ==
    raced' = (~Alone \/ (raced /\ \E p \in Procs : serve[p] \notin Gone))

Steps(p, from, to) == serve[p] = from /\ serve' = [serve EXCEPT ![p] = to]

-----------------------------------------------------------------------------
(* startServe. *)

\* Read the lock: give up on a live owner, clear a dead one's first.
ReadsLock(p) ==
    /\ Begins
    /\ Steps(p, "idle", IF pidFile = None THEN "key"
                        ELSE IF isProcessAlive(pidFile) THEN "refused"
                        ELSE "stale")
    /\ UNCHANGED <<mem, stop, target, files>>

ClearsStale(p) ==
    /\ Steps(p, "stale", "key")
    /\ pidFile' = None
    /\ UNCHANGED <<mem, stop, target, secret, pub, sock, hook, raced>>

\* loadOrCreateHostKey: adopt the secret on disk, or make one.
ReadsSecret(p) ==
    /\ Steps(p, "key", IF secret = None THEN "secret" ELSE "pub")
    /\ mem' = [mem EXCEPT ![p] = IF secret = None THEN p ELSE secret]
    /\ UNCHANGED <<stop, target, files, raced>>

WritesSecret(p) ==
    /\ Steps(p, "secret", "pub")
    /\ secret' = mem[p]
    /\ UNCHANGED <<mem, stop, target, pidFile, pub, sock, hook, raced>>

WritesPub(p) ==
    /\ Steps(p, "pub", "lock")
    /\ pub' = mem[p]
    /\ UNCHANGED <<mem, stop, target, pidFile, secret, sock, hook, raced>>

WritesLock(p) ==
    /\ Steps(p, "lock", "unlink")
    /\ pidFile' = p
    /\ UNCHANGED <<mem, stop, target, secret, pub, sock, hook, raced>>

\* listenUnix: whatever holds the path is unlinked, then the path is bound.
UnlinksSocket(p) ==
    /\ Steps(p, "unlink", "listen")
    /\ sock' = None
    /\ UNCHANGED <<mem, stop, target, pidFile, secret, pub, hook, raced>>

\* The path is taken again (EADDRINUSE), or cannot be bound at all.
ListenFails(p) ==
    /\ Steps(p, "listen", "failed")
    /\ UNCHANGED <<mem, stop, target, files, raced>>

ReleasesLock(p) ==
    /\ Steps(p, "failed", "exited")
    /\ pidFile' = None
    /\ UNCHANGED <<mem, stop, target, secret, pub, sock, hook, raced>>

Listens(p) ==
    /\ sock = None
    /\ Steps(p, "listen", "advertise")
    /\ sock' = p
    /\ UNCHANGED <<mem, stop, target, pidFile, secret, pub, hook, raced>>

\* startAttentionHook writes its port and secret, when the machine is docked
\* and the hook's own listener came up.
Advertises(p) ==
    /\ Steps(p, "advertise", "serving")
    /\ hook' \in {p, hook}
    /\ UNCHANGED <<mem, stop, target, pidFile, secret, pub, sock, raced>>

-----------------------------------------------------------------------------
(* Closing, crashing, stopping. *)

\* SIGINT or SIGTERM, where startServe has resolved: close() begins.
BeginsClose(p) ==
    /\ Steps(p, "serving", "closing")
    /\ hook' = None
    /\ UNCHANGED <<mem, stop, target, pidFile, secret, pub, sock, raced>>

\* Mutation: the lock goes before the socket.
DropsLockFirst(p) ==
    /\ Steps(p, "closing", "unlinked")
    /\ pidFile' = None
    /\ UNCHANGED <<mem, stop, target, secret, pub, sock, hook, raced>>

\* server.close(), then the path is unlinked, whoever holds it by then.
UnlinksOnClose(p) ==
    /\ Steps(p, "closing", "unlinked")
    /\ sock' = None
    /\ UNCHANGED <<mem, stop, target, pidFile, secret, pub, hook, raced>>

\* Sessions are disposed, and the lock goes last.
DropsLock(p) ==
    /\ Steps(p, "unlinked", "exited")
    /\ pidFile' = None
    /\ UNCHANGED <<mem, stop, target, secret, pub, sock, hook, raced>>

\* The process dies where it stands: a crash, or a signal that finds no
\* handler.  Its files stay.
Dies(p) ==
    /\ serve[p] \notin Gone
    /\ serve' = [serve EXCEPT ![p] = "dead"]
    /\ UNCHANGED <<mem, stop, target, files, raced>>

\* What SIGTERM does to a process.
Signalled(p) ==
    serve' = [serve EXCEPT ![p] = IF @ = "serving" THEN "closing" ELSE "dead"]

\* stopServe: read the lock and signal its owner.  An owner that is gone when
\* it is signalled is treated like one that was gone when it was probed.
StopReads(s) ==
    /\ Begins
    /\ stop[s] = "idle"
    /\ target' = [target EXCEPT ![s] = pidFile]
    /\ stop' = [stop EXCEPT ![s] = IF pidFile = None THEN "none"
                                   ELSE IF isProcessAlive(pidFile) THEN "polling"
                                   ELSE "stale"]
    /\ IF isProcessAlive(pidFile)
       THEN /\ Signalled(pidFile)
            /\ hook' = IF serve[pidFile] = "serving" THEN None ELSE hook
       ELSE UNCHANGED <<serve, hook>>
    /\ UNCHANGED <<mem, pidFile, secret, pub, sock>>

\* A lock that had no live owner when it was read is removed.
StopClears(s) ==
    /\ stop[s] = "stale"
    /\ stop' = [stop EXCEPT ![s] = "none"]
    /\ pidFile' = None
    /\ UNCHANGED <<serve, mem, target, secret, pub, sock, hook, raced>>

\* Poll until the lock is gone or its owner is dead, or three seconds pass.
StopPolls(s) ==
    /\ stop[s] = "polling"
    /\ stop' = [stop EXCEPT ![s] =
                  IF pidFile = None \/ ~isProcessAlive(pidFile) THEN "stopped"
                  ELSE "timeout"]
    /\ UNCHANGED <<serve, mem, target, files, raced>>

Starts(p) ==
    \/ ReadsLock(p) \/ ClearsStale(p) \/ ReadsSecret(p) \/ WritesSecret(p)
    \/ WritesPub(p) \/ WritesLock(p) \/ UnlinksSocket(p) \/ ListenFails(p)
    \/ ReleasesLock(p) \/ Listens(p) \/ Advertises(p)

LockNext ==
    \/ \E p \in Procs :
         Starts(p) \/ BeginsClose(p) \/ UnlinksOnClose(p) \/ DropsLock(p)
           \/ Dies(p)
    \/ \E s \in Stops : StopReads(s) \/ StopClears(s) \/ StopPolls(s)

LockSpec == LockInit /\ [][LockNext]_lockVars

-----------------------------------------------------------------------------

\* A serving daemon is the only one, and it is the one its files lead to: the
\* lock names it, the socket is its own, and the key that callers pin is the
\* key it serves with.
FilesLeadToDaemon ==
    \A p \in Procs : serve[p] = "serving" =>
        /\ pidFile = p /\ sock = p /\ pub = mem[p] /\ secret = mem[p]
        /\ \A q \in Procs \ {p} : ~isProcessAlive(q) \/ serve[q] \in Starting

\* `serve --stop' says "stopped" only of a daemon that has let go of its
\* socket, whatever crashes or second signals came in between.
StoppedIsDown ==
    \A s \in Stops : stop[s] = "stopped" =>
        target[s] # None /\ (sock # target[s] \/ serve[target[s]] = "dead")

\* A daemon that `serve --stop' reported stopped is at least on its way out.
StoppedIsLeaving ==
    \A s \in Stops : stop[s] = "stopped" =>
        serve[target[s]] \in {"closing", "unlinked", "exited", "dead"}

\* The pid file makes the daemon a singleton only among commands that do not
\* overlap: startServe reads it, awaits, and writes it, so two starts at once
\* both serve (serve.ts says "a singleton, guarded by a pid file" without that
\* condition).  Where none has overlapped since a command last found nobody
\* running, the files lead to the one daemon and "stopped" means down; crashes,
\* and overlaps of runs that are gone, leave nothing that a later start does not
\* put right.  Whatever overlaps, a daemon reported stopped never serves on.
LockSafe == (~raced => FilesLeadToDaemon /\ StoppedIsDown) /\ StoppedIsLeaving
=============================================================================
