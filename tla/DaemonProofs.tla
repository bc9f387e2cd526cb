---------------------------- MODULE DaemonProofs ----------------------------
(***************************************************************************)
(* The daemon, for any runs, references, tickets and bounds.               *)
(*                                                                         *)
(* Its lock: until commands overlap at most one run is alive, and the      *)
(* files lead to it.  Its custody desk: a reference is run once, sessions  *)
(* that run together have streams of their own, and an end is lost only to *)
(* crossing heartbeats or to the buffer's cap.  Its relay uplink: the      *)
(* backoff stays within its limits, and no data connection outlives the    *)
(* registration it was dialled for.                                        *)
(***************************************************************************)
EXTENDS MCDaemon, TLAPS

-----------------------------------------------------------------------------
(* The lock. *)

\* The steps from which a run owns the lock, has the key on disk, and has it
\* published.
Locked == {"unlink", "listen", "failed", "advertise"} \cup Up
Keyed == {"pub", "lock"} \cup Locked
Published == {"lock"} \cup Locked

\* At most one run is alive.
OneAlive == \A p, q \in Procs : serve[p] \notin Gone /\ serve[q] \notin Gone => p = q

\* What the files say of a run, and of whoever bound the socket.
FilesOf(p) ==
    /\ serve[p] \in Locked => pidFile = p
    /\ serve[p] \in Keyed => secret = mem[p]
    /\ serve[p] \in Published => pub = mem[p]
    /\ serve[p] \in {"advertise", "serving", "closing"} => sock = p
    /\ sock = p => serve[p] \in {"advertise", "serving", "closing", "dead"}

\* A stop that found no owner has nobody starting behind its back, and one that
\* signalled an owner has sent it on its way out.
StopOK(s) ==
    /\ stop[s] = "stale" => \A p \in Procs : serve[p] \in Gone
    /\ stop[s] \in {"polling", "stopped"} => target[s] \in Procs
    /\ stop[s] = "polling" => serve[target[s]] \in {"closing", "unlinked", "exited", "dead"}
    /\ stop[s] = "stopped" => serve[target[s]] \in {"exited", "dead"}

LockInv ==
    /\ LockTypeOK /\ OneAlive
    /\ \A p \in Procs : FilesOf(p)
    /\ \A s \in Stops : StopOK(s)

\* Nothing runs at first, and no file is there.
LEMMA LockInitInv == LockInit => LockInv
BY NoneAssumption DEF LockInit, LockInv, LockTypeOK, OneAlive, FilesOf, StopOK, ServeStates,
   StopStates, Starting, Up, Gone, Locked, Keyed, Published

\* A command that finds nobody starting and the lock free, or its owner dead, is
\* the only one.
LEMMA NobodyAlive ==
    ASSUME LockInv, Alone, ~isProcessAlive(pidFile), NEW p \in Procs
    PROVE  serve[p] \in Gone
BY NoneAssumption DEF LockInv, LockTypeOK, Alone, isProcessAlive, FilesOf, ServeStates,
   Locked, Up

\* The step of one run, with nobody else alive, keeps the types and the stops.
LEMMA RunMoves ==
    ASSUME LockInv, NEW p \in Procs, NEW to \in ServeStates,
           serve' = [serve EXCEPT ![p] = to],
           \A q \in Procs : q # p => serve[q] \in Gone,
           \/ serve[p] \notin Gone
           \/ to \in Gone
           \/ serve[p] = "idle" /\ \A s \in Stops : stop[s] \notin Stopping,
           serve[p] \in {"exited", "dead"} => to \in {"exited", "dead"},
           serve[p] = "unlinked" => to \in {"unlinked", "exited", "dead"},
           serve[p] = "closing" => to \in {"closing", "unlinked", "dead"},
           mem' \in [Procs -> Procs \cup {None}], UNCHANGED <<stop, target>>,
           {pidFile', secret', pub', sock', hook'} \subseteq Procs \cup {None},
           raced' \in BOOLEAN, FilesOf(p)',
           \A q \in Procs : q # p => (sock' = q => serve[q] = "dead")
    PROVE  LockInv'
<1>1. serve' \in [Procs -> ServeStates] /\ serve'[p] = to
      /\ \A q \in Procs : q # p => serve'[q] = serve[q]
  BY DEF LockInv, LockTypeOK
<1>2. LockTypeOK' /\ OneAlive'
  BY <1>1 DEF LockInv, LockTypeOK, OneAlive
<1>3. \A q \in Procs : FilesOf(q)'
  <2> TAKE q \in Procs
  <2>1. CASE q # p
    BY <1>1, <2>1 DEF FilesOf, Locked, Keyed, Published, Up, Gone
  <2> QED  BY <2>1
<1>4. \A s \in Stops : StopOK(s)'
  <2> TAKE s \in Stops
  <2>1. StopOK(s)
    BY DEF LockInv
  <2> QED
    BY <1>1, <2>1 DEF StopOK, Gone, Stopping
<1> QED  BY <1>2, <1>3, <1>4 DEF LockInv

\* The history of overlaps is a truth value.
LEMMA RacedTyped ==
    ASSUME raced \in BOOLEAN, [LockNext]_lockVars
    PROVE  raced' \in BOOLEAN
<1>1. (\E p \in Procs : ReadsLock(p)) \/ (\E s \in Stops : StopReads(s)) \/ raced' = raced
  BY DEF LockNext, Starts, ReadsLock, ClearsStale, ReadsSecret, WritesSecret, WritesPub, WritesLock,
     UnlinksSocket, ListenFails, ReleasesLock, Listens, Advertises, BeginsClose, UnlinksOnClose,
     DropsLock, Dies, StopReads, StopClears, StopPolls, lockVars
<1>2. Begins => raced' \in BOOLEAN
  BY DEF Begins
<1> QED  BY <1>1, <1>2 DEF ReadsLock, StopReads

\* A command that overlaps none, every file operation of a start, a close and a
\* stop, and every death, keeps the invariant.
LEMMA LockNextInv ==
    ASSUME LockInv, [LockNext]_lockVars, ~raced'
    PROVE  LockInv'
<1>b. raced' \in BOOLEAN
  BY RacedTyped DEF LockInv, LockTypeOK
<1>0. /\ serve \in [Procs -> ServeStates] /\ mem \in [Procs -> Procs \cup {None}]
      /\ {pidFile, secret, pub, sock, hook} \subseteq Procs \cup {None}
  BY DEF LockInv, LockTypeOK
<1>a. ASSUME NEW p \in Procs, serve[p] \notin Gone
      PROVE  /\ \A q \in Procs : q # p => serve[q] \in Gone
             /\ \A q \in Procs : q # p => (sock = q => serve[q] = "dead")
  BY <1>0, <1>a DEF LockInv, OneAlive, FilesOf, Gone, ServeStates
<1>1. ASSUME NEW p \in Procs, ReadsLock(p) PROVE LockInv'
  <2>1. /\ Alone /\ serve[p] = "idle" /\ UNCHANGED <<mem, stop, target, files>>
        /\ serve' = [serve EXCEPT ![p] = IF pidFile = None THEN "key"
                        ELSE IF isProcessAlive(pidFile) THEN "refused" ELSE "stale"]
    BY <1>1 DEF ReadsLock, Steps, Begins
  <2>2. CASE isProcessAlive(pidFile)
    <3>1. serve' = [serve EXCEPT ![p] = "refused"]
      BY <2>1, <2>2 DEF isProcessAlive
    <3>2. \A q \in Procs : serve'[q] = IF q = p THEN "refused" ELSE serve[q]
      BY <1>0, <3>1
    <3>3. LockTypeOK' /\ OneAlive'
      BY <1>b, <2>1, <3>1, <3>2 DEF LockInv, LockTypeOK, OneAlive, ServeStates, Gone, files
    <3>4. \A q \in Procs : FilesOf(q)'
      BY <2>1, <3>2 DEF LockInv, FilesOf, files, Locked, Keyed, Published, Up
    <3>5. \A s \in Stops : StopOK(s)'
      <4> TAKE s \in Stops
      <4>1. StopOK(s)
        BY DEF LockInv
      <4> QED  BY <2>1, <3>2, <4>1 DEF StopOK, Gone
    <3> QED  BY <3>3, <3>4, <3>5 DEF LockInv
  <2>3. CASE ~isProcessAlive(pidFile)
    <3>1. \A q \in Procs : serve[q] \in Gone
      BY <2>1, <2>3, NobodyAlive
    <3>2. PICK to \in {"key", "stale"} : serve' = [serve EXCEPT ![p] = to]
      BY <2>1, <2>3
    <3>3. serve'[p] = to /\ FilesOf(p)
      BY <1>0, <3>2 DEF LockInv
    <3>4. FilesOf(p)' /\ \A q \in Procs : q # p => (sock' = q => serve[q] = "dead")
      BY <2>1, <3>1, <3>3 DEF LockInv, FilesOf, files, Locked, Keyed, Published, Up, Gone
    <3>5. \A s \in Stops : stop[s] \notin Stopping
      BY <2>1 DEF Alone
    <3> QED
      BY <1>0, <1>b, <2>1, <3>1, <3>2, <3>4, <3>5, RunMoves DEF files, ServeStates, Starting
  <2> QED  BY <2>2, <2>3
<1>2. ASSUME NEW p \in Procs, Starts(p), ~ReadsLock(p) PROVE LockInv'
  <2>1. serve[p] \in Starting /\ serve[p] \notin Gone
    BY <1>2 DEF Starts, ClearsStale, ReadsSecret, WritesSecret, WritesPub, WritesLock,
       UnlinksSocket, ListenFails, ReleasesLock, Listens, Advertises, Steps, Starting, Gone
  <2>2. PICK to \in ServeStates : /\ serve' = [serve EXCEPT ![p] = to] /\ serve'[p] = to
                                  /\ to \in Starting \cup {"exited", "serving"}
    BY <1>0, <1>2 DEF Starts, ClearsStale, ReadsSecret, WritesSecret, WritesPub, WritesLock,
       UnlinksSocket, ListenFails, ReleasesLock, Listens, Advertises, Steps, ServeStates,
       Starting, Up, Gone
  <2>3. /\ mem' \in [Procs -> Procs \cup {None}] /\ UNCHANGED <<stop, target>>
        /\ {pidFile', secret', pub', sock', hook'} \subseteq Procs \cup {None}
    BY <1>0, <1>2 DEF Starts, ClearsStale, ReadsSecret, WritesSecret, WritesPub, WritesLock,
       UnlinksSocket, ListenFails, ReleasesLock, Listens, Advertises, files
  <2>4. sock' \in {sock, None, p}
    BY <1>2 DEF Starts, ClearsStale, ReadsSecret, WritesSecret, WritesPub, WritesLock,
       UnlinksSocket, ListenFails, ReleasesLock, Listens, Advertises, files
  <2>5. FilesOf(p)'
    <3>1. FilesOf(p)
      BY DEF LockInv
    <3> USE <1>0, <2>2, <3>1, NoneAssumption
        DEF FilesOf, Steps, Locked, Keyed, Published, Up, files
    <3>2. CASE ClearsStale(p)
      BY <3>2 DEF ClearsStale
    <3>3. CASE ReadsSecret(p)
      BY <3>3 DEF ReadsSecret
    <3>4. CASE WritesSecret(p)
      BY <3>4 DEF WritesSecret
    <3>5. CASE WritesPub(p)
      BY <3>5 DEF WritesPub
    <3>6. CASE WritesLock(p)
      BY <3>6 DEF WritesLock
    <3>7. CASE UnlinksSocket(p)
      BY <3>7 DEF UnlinksSocket
    <3>8. CASE ListenFails(p)
      BY <3>8 DEF ListenFails
    <3>9. CASE ReleasesLock(p)
      BY <3>9 DEF ReleasesLock
    <3>10. CASE Listens(p)
      BY <3>10 DEF Listens
    <3>11. CASE Advertises(p)
      BY <3>11 DEF Advertises
    <3> QED
      BY <1>2, <3>2, <3>3, <3>4, <3>5, <3>6, <3>7, <3>8, <3>9, <3>10, <3>11 DEF Starts
  <2>6. \A q \in Procs : q # p => (sock' = q => serve[q] = "dead")
    BY <1>a, <2>1, <2>4, NoneAssumption
  <2>7. serve[p] \notin {"exited", "dead", "unlinked", "closing"}
    BY <2>1 DEF Starting
  <2> QED
    BY <1>a, <1>b, <2>1, <2>2, <2>3, <2>5, <2>6, <2>7, RunMoves
<1>3. ASSUME NEW p \in Procs, BeginsClose(p) \/ UnlinksOnClose(p) \/ DropsLock(p) \/ Dies(p)
      PROVE  LockInv'
  <2>1. serve[p] \notin Gone
    BY <1>3 DEF BeginsClose, UnlinksOnClose, DropsLock, Dies, Steps, Gone
  <2>2. PICK to \in ServeStates :
          /\ serve' = [serve EXCEPT ![p] = to] /\ serve'[p] = to
          /\ to \in {"closing", "unlinked", "exited", "dead"}
          /\ serve[p] = "unlinked" => to \in {"exited", "dead"}
          /\ serve[p] = "closing" => to \in {"unlinked", "dead"}
    BY <1>0, <1>3 DEF BeginsClose, UnlinksOnClose, DropsLock, Dies, Steps, ServeStates, Up, Gone
  <2>3. /\ mem' \in [Procs -> Procs \cup {None}] /\ UNCHANGED <<stop, target>>
        /\ {pidFile', secret', pub', sock', hook'} \subseteq Procs \cup {None}
        /\ sock' \in {sock, None}
    BY <1>0, <1>3 DEF BeginsClose, UnlinksOnClose, DropsLock, Dies, files
  <2>4. FilesOf(p)'
    <3>1. FilesOf(p)
      BY DEF LockInv
    <3> USE <1>0, <2>2, <3>1, NoneAssumption
        DEF FilesOf, Steps, Locked, Keyed, Published, Up, files
    <3>2. CASE BeginsClose(p)
      BY <3>2 DEF BeginsClose
    <3>3. CASE UnlinksOnClose(p)
      BY <3>3 DEF UnlinksOnClose
    <3>4. CASE DropsLock(p)
      BY <3>4 DEF DropsLock
    <3>5. CASE Dies(p)
      BY <3>5 DEF Dies
    <3> QED  BY <1>3, <3>2, <3>3, <3>4, <3>5
  <2>5. \A q \in Procs : q # p => (sock' = q => serve[q] = "dead")
    BY <1>a, <2>1, <2>3, NoneAssumption
  <2>6. serve[p] \notin {"exited", "dead"}
    BY <2>1 DEF Gone
  <2> QED
    BY <1>a, <1>b, <2>1, <2>2, <2>3, <2>4, <2>5, <2>6, RunMoves
<1>4. ASSUME NEW s \in Stops, StopReads(s) PROVE LockInv'
  <2> DEFINE p == pidFile
  <2>1. /\ Alone /\ stop[s] = "idle" /\ target' = [target EXCEPT ![s] = p]
        /\ stop' = [stop EXCEPT ![s] = IF p = None THEN "none"
                                       ELSE IF isProcessAlive(p) THEN "polling" ELSE "stale"]
        /\ UNCHANGED <<mem, pidFile, secret, pub, sock>>
    BY <1>4 DEF StopReads, Begins
  <2>2. CASE isProcessAlive(p)
    <3>1. p \in Procs /\ serve[p] \notin Gone
      BY <1>0, <2>2 DEF isProcessAlive
    <3>2. serve[p] \in Up /\ \A q \in Procs : q # p => serve[q] \in Gone
      BY <1>0, <1>a, <2>1, <3>1 DEF Alone, ServeStates
    <3>3. PICK to \in {"closing", "dead"} :
            /\ serve' = [serve EXCEPT ![p] = to] /\ serve'[p] = to
            /\ to = "closing" => serve[p] = "serving"
      BY <1>0, <1>4, <2>2, <3>1 DEF StopReads, Signalled
    <3>4. \A q \in Procs : q # p => serve'[q] = serve[q]
      BY <1>0, <3>3
    <3>5. stop' = [stop EXCEPT ![s] = "polling"] /\ hook' \in {None, hook}
      BY <1>4, <2>1, <2>2 DEF StopReads, isProcessAlive
    <3>6. LockTypeOK' /\ OneAlive'
      BY <1>0, <1>b, <2>1, <3>1, <3>3, <3>4, <3>5 DEF LockInv, LockTypeOK, OneAlive, ServeStates,
         StopStates, Up, Gone
    <3>7. \A q \in Procs : FilesOf(q)'
      BY <2>1, <3>1, <3>2, <3>3, <3>4 DEF LockInv, FilesOf, Locked, Keyed, Published, Up
    <3>8. \A r \in Stops : StopOK(r)'
      <4> TAKE r \in Stops
      <4>1. StopOK(r) /\ stop \in [Stops -> StopStates] /\ target \in [Stops -> Procs \cup {None}]
        BY DEF LockInv, LockTypeOK
      <4>2. CASE r = s
        BY <2>1, <3>1, <3>3, <3>5, <4>1, <4>2 DEF StopOK
      <4>3. CASE r # s
        <5>1. stop'[r] = stop[r] /\ target'[r] = target[r] /\ stop[r] # "stale"
          BY <2>1, <3>1, <3>5, <4>1, <4>3 DEF StopOK
        <5> QED  BY <3>1, <3>3, <3>4, <4>1, <5>1 DEF StopOK, Gone
      <4> QED  BY <4>2, <4>3
    <3> QED  BY <3>6, <3>7, <3>8 DEF LockInv
  <2>3. CASE ~isProcessAlive(p)
    <3>1. \A q \in Procs : serve[q] \in Gone
      BY <2>1, <2>3, NobodyAlive
    <3>2. serve' = serve /\ hook' = hook
      BY <1>4, <2>3 DEF StopReads
    <3>3. PICK to \in {"none", "stale"} : stop' = [stop EXCEPT ![s] = to]
      BY <2>1, <2>3
    <3>4. LockTypeOK' /\ OneAlive' /\ \A q \in Procs : FilesOf(q)'
      BY <1>0, <1>b, <2>1, <3>2, <3>3 DEF LockInv, LockTypeOK, OneAlive, FilesOf, StopStates
    <3>5. \A r \in Stops : StopOK(r)'
      <4> TAKE r \in Stops
      <4>1. StopOK(r) /\ stop \in [Stops -> StopStates] /\ target \in [Stops -> Procs \cup {None}]
        BY DEF LockInv, LockTypeOK
      <4> QED  BY <2>1, <3>1, <3>2, <3>3, <4>1 DEF StopOK
    <3> QED  BY <3>4, <3>5 DEF LockInv
  <2> QED  BY <2>2, <2>3
<1>5. ASSUME NEW s \in Stops, StopClears(s) PROVE LockInv'
  <2>1. \A q \in Procs : serve[q] \in Gone
    BY <1>5 DEF StopClears, LockInv, StopOK
  <2>2. LockTypeOK' /\ OneAlive' /\ \A q \in Procs : FilesOf(q)'
    BY <1>0, <1>b, <1>5, <2>1 DEF StopClears, LockInv, LockTypeOK, OneAlive, FilesOf, StopStates,
       Locked, Up, Gone
  <2>3. \A r \in Stops : StopOK(r)'
    <3> TAKE r \in Stops
    <3>1. StopOK(r) /\ stop \in [Stops -> StopStates]
      BY DEF LockInv, LockTypeOK
    <3> QED  BY <1>5, <3>1 DEF StopClears, StopOK
  <2> QED  BY <2>2, <2>3 DEF LockInv
<1>6. ASSUME NEW s \in Stops, StopPolls(s) PROVE LockInv'
  <2>1. PICK to \in {"stopped", "timeout"} :
          /\ stop' = [stop EXCEPT ![s] = to] /\ stop[s] = "polling"
          /\ to = "stopped" => ~isProcessAlive(pidFile)
          /\ UNCHANGED <<serve, mem, target, files>>
    BY <1>6 DEF StopPolls, isProcessAlive
  <2>2. LockTypeOK' /\ OneAlive' /\ \A q \in Procs : FilesOf(q)'
    BY <1>0, <1>b, <2>1 DEF LockInv, LockTypeOK, OneAlive, FilesOf, StopStates, files
  <2>3. \A r \in Stops : StopOK(r)'
    <3> TAKE r \in Stops
    <3>1. StopOK(r) /\ stop \in [Stops -> StopStates]
      BY DEF LockInv, LockTypeOK
    <3>2. ASSUME to = "stopped", r = s PROVE serve[target[s]] \in {"exited", "dead"}
      <4>1. target[s] \in Procs /\ serve[target[s]] \in {"closing", "unlinked", "exited", "dead"}
        BY <2>1, <3>1, <3>2 DEF StopOK
      <4>2. serve[target[s]] \in Up => pidFile = target[s]
        BY <4>1 DEF LockInv, FilesOf, Locked
      <4> QED  BY <2>1, <3>2, <4>1, <4>2, NoneAssumption DEF isProcessAlive, Up, Gone
    <3> QED  BY <2>1, <3>1, <3>2 DEF StopOK
  <2> QED  BY <2>2, <2>3 DEF LockInv
<1>7. CASE UNCHANGED lockVars
  BY <1>7 DEF lockVars, files, LockInv, LockTypeOK, OneAlive, FilesOf, StopOK
<1> QED
  BY <1>1, <1>2, <1>3, <1>4, <1>5, <1>6, <1>7 DEF LockNext

\* What holds whatever overlaps: the socket is of a run that has bound it, and a
\* stop has sent the owner it signalled on its way out.
Leaving == {"closing", "unlinked", "exited", "dead"}
LockBase ==
    /\ LockTypeOK
    /\ \A p \in Procs : sock = p => serve[p] \in {"advertise", "serving", "closing", "dead"}
    /\ \A s \in Stops : stop[s] \in {"polling", "stopped"} =>
         target[s] \in Procs /\ serve[target[s]] \in Leaving

\* The types of the lock need no assumption on how commands overlap.
LEMMA LockTypesKept == LockTypeOK /\ [LockNext]_lockVars => LockTypeOK'
<1> SUFFICES ASSUME LockTypeOK, [LockNext]_lockVars PROVE LockTypeOK'
  OBVIOUS
<1>0. raced' \in BOOLEAN
  BY RacedTyped DEF LockTypeOK
<1> USE <1>0 DEF LockTypeOK, ServeStates, StopStates, Starting, Up, Gone, Steps, files
<1>1. ASSUME NEW p \in Procs, Starts(p) PROVE LockTypeOK'
  BY <1>1 DEF Starts, ReadsLock, ClearsStale, ReadsSecret, WritesSecret, WritesPub,
     WritesLock, UnlinksSocket, ListenFails, ReleasesLock, Listens, Advertises
<1>2. ASSUME NEW p \in Procs, BeginsClose(p) \/ UnlinksOnClose(p) \/ DropsLock(p) \/ Dies(p)
      PROVE  LockTypeOK'
  BY <1>2 DEF BeginsClose, UnlinksOnClose, DropsLock, Dies
<1>3. ASSUME NEW s \in Stops, StopReads(s) PROVE LockTypeOK'
  <2>1. serve' \in [Procs -> ServeStates] /\ hook' \in Procs \cup {None}
    BY <1>3 DEF StopReads, Signalled, isProcessAlive
  <2> QED  BY <1>3, <2>1 DEF StopReads
<1>4. ASSUME NEW s \in Stops, StopClears(s) \/ StopPolls(s) PROVE LockTypeOK'
  BY <1>4 DEF StopClears, StopPolls
<1>5. CASE UNCHANGED lockVars
  BY <1>5 DEF lockVars
<1> QED
  BY <1>1, <1>2, <1>3, <1>4, <1>5 DEF LockNext

\* No step, of commands that overlap or not, takes that away.
LEMMA LockBaseKept ==
    ASSUME LockBase, [LockNext]_lockVars
    PROVE  LockBase'
<1>0. /\ LockTypeOK' /\ serve \in [Procs -> ServeStates] /\ stop \in [Stops -> StopStates]
      /\ target \in [Stops -> Procs \cup {None}] /\ pidFile \in Procs \cup {None}
  BY LockTypesKept DEF LockBase, LockTypeOK
<1> DEFINE Bound == {"advertise", "serving", "closing", "dead"}
<1>1. ASSUME NEW p \in Procs, NEW to \in ServeStates, serve' = [serve EXCEPT ![p] = to],
             serve[p] \in Leaving => to \in Leaving, UNCHANGED <<stop, target>>,
             \/ sock' = sock /\ (serve[p] \in Bound => to \in Bound)
             \/ sock' = None
             \/ sock' = p /\ to \in Bound
      PROVE  LockBase'
  <2>1. \A q \in Procs : serve'[q] = IF q = p THEN to ELSE serve[q]
    BY <1>0, <1>1
  <2>2. \A q \in Procs : sock' = q => serve'[q] \in Bound
    BY <1>1, <2>1, NoneAssumption DEF LockBase
  <2>3. \A s \in Stops : stop'[s] \in {"polling", "stopped"} =>
          target'[s] \in Procs /\ serve'[target'[s]] \in Leaving
    BY <1>1, <2>1 DEF LockBase
  <2> QED  BY <1>0, <2>2, <2>3 DEF LockBase
<1>2. ASSUME NEW p \in Procs, Starts(p) PROVE LockBase'
  <2> USE <1>0, <1>1 DEF Steps, files, Leaving, ServeStates, Starting, Up, Gone
  <2>1. CASE ReadsLock(p)
    <3>1. PICK to \in {"key", "refused", "stale"} :
            serve' = [serve EXCEPT ![p] = to] /\ serve[p] = "idle"
      BY <2>1 DEF ReadsLock
    <3> QED  BY <2>1, <3>1 DEF ReadsLock
  <2>2. CASE ClearsStale(p)
    BY <2>2 DEF ClearsStale
  <2>3. CASE ReadsSecret(p)
    <3>1. PICK to \in {"secret", "pub"} :
            serve' = [serve EXCEPT ![p] = to] /\ serve[p] = "key"
      BY <2>3 DEF ReadsSecret
    <3> QED  BY <2>3, <3>1 DEF ReadsSecret
  <2>4. CASE WritesSecret(p)
    BY <2>4 DEF WritesSecret
  <2>5. CASE WritesPub(p)
    BY <2>5 DEF WritesPub
  <2>6. CASE WritesLock(p)
    BY <2>6 DEF WritesLock
  <2>7. CASE UnlinksSocket(p)
    BY <2>7 DEF UnlinksSocket
  <2>8. CASE ListenFails(p)
    BY <2>8 DEF ListenFails
  <2>9. CASE ReleasesLock(p)
    BY <2>9 DEF ReleasesLock
  <2>10. CASE Listens(p)
    BY <2>10 DEF Listens
  <2>11. CASE Advertises(p)
    BY <2>11 DEF Advertises
  <2> QED
    BY <1>2, <2>1, <2>2, <2>3, <2>4, <2>5, <2>6, <2>7, <2>8, <2>9, <2>10, <2>11 DEF Starts
<1>3. ASSUME NEW p \in Procs, BeginsClose(p) \/ UnlinksOnClose(p) \/ DropsLock(p) \/ Dies(p)
      PROVE  LockBase'
  <2> USE <1>0, <1>1 DEF Steps, files, Leaving, ServeStates, Starting, Up, Gone
  <2>1. CASE BeginsClose(p)
    BY <2>1 DEF BeginsClose
  <2>2. CASE UnlinksOnClose(p)
    BY <2>2 DEF UnlinksOnClose
  <2>3. CASE DropsLock(p)
    BY <2>3 DEF DropsLock
  <2>4. CASE Dies(p)
    BY <2>4 DEF Dies
  <2> QED  BY <1>3, <2>1, <2>2, <2>3, <2>4
<1>4. ASSUME NEW s \in Stops, StopReads(s) PROVE LockBase'
  <2>1. sock' = sock /\ target' = [target EXCEPT ![s] = pidFile]
        /\ \A r \in Stops : r # s => stop'[r] = stop[r] /\ target'[r] = target[r]
    BY <1>0, <1>4 DEF StopReads
  <2>2. CASE isProcessAlive(pidFile)
    <3>1. pidFile \in Procs /\ target'[s] = pidFile
      BY <1>0, <2>1, <2>2 DEF isProcessAlive
    <3>2. PICK to \in {"closing", "dead"} : serve' = [serve EXCEPT ![pidFile] = to]
      BY <1>0, <1>4, <2>2, <3>1 DEF StopReads, Signalled
    <3>3. \A q \in Procs : serve'[q] = IF q = pidFile THEN to ELSE serve[q]
      BY <1>0, <3>1, <3>2
    <3>4. \A q \in Procs : sock' = q => serve'[q] \in Bound
      BY <2>1, <3>3 DEF LockBase
    <3>5. \A r \in Stops : stop'[r] \in {"polling", "stopped"} =>
            target'[r] \in Procs /\ serve'[target'[r]] \in Leaving
      BY <2>1, <3>1, <3>3 DEF LockBase, Leaving
    <3> QED  BY <1>0, <3>4, <3>5 DEF LockBase
  <2>3. CASE ~isProcessAlive(pidFile)
    <3>1. serve' = serve /\ stop'[s] \in {"none", "stale"}
      BY <1>0, <1>4, <2>3 DEF StopReads
    <3> QED  BY <1>0, <2>1, <3>1 DEF LockBase
  <2> QED  BY <2>2, <2>3
<1>5. ASSUME NEW s \in Stops, StopClears(s) \/ StopPolls(s) PROVE LockBase'
  <2>1. /\ UNCHANGED <<serve, target, sock>>
        /\ \A r \in Stops : stop'[r] \in {"polling", "stopped"} => stop[r] \in {"polling", "stopped"}
    BY <1>0, <1>5 DEF StopClears, StopPolls, files
  <2> QED  BY <1>0, <2>1 DEF LockBase
<1>6. CASE UNCHANGED lockVars
  BY <1>0, <1>6 DEF lockVars, files, LockBase
<1> QED
  BY <1>2, <1>3, <1>4, <1>5, <1>6 DEF LockNext

\* A command that finds nobody running starts from files that lead to nobody.
LEMMA RaceOver ==
    ASSUME LockBase, [LockNext]_lockVars, raced, ~raced'
    PROVE  LockInv
<1>1. Begins
  BY DEF LockNext, Starts, ReadsLock, ClearsStale, ReadsSecret, WritesSecret, WritesPub, WritesLock,
     UnlinksSocket, ListenFails, ReleasesLock, Listens, Advertises, BeginsClose, UnlinksOnClose,
     DropsLock, Dies, StopReads, StopClears, StopPolls, lockVars
<1>2. Alone /\ \A p \in Procs : serve[p] \in Gone
  BY <1>1 DEF Begins
<1>3. LockTypeOK /\ OneAlive /\ \A p \in Procs : FilesOf(p)
  BY <1>2 DEF LockBase, OneAlive, FilesOf, Gone, Locked, Keyed, Published, Up
<1>4. \A s \in Stops : StopOK(s)
  BY <1>2 DEF LockBase, StopOK, Alone, Stopping, Leaving, Gone
<1> QED  BY <1>3, <1>4 DEF LockInv

\* Where no commands have overlapped since a command last found nobody running, the
\* pid file makes the daemon a singleton, whatever crashes in between: a serving
\* daemon is the one its lock, socket and key lead to, and "stopped" is said only of
\* a daemon that has let go of its socket.  And whatever overlaps, a daemon reported
\* stopped is on its way out.
THEOREM LockHolds == LockSpec => []LockSafe
<1> DEFINE Inv == LockBase /\ (~raced => LockInv)
<1>1. LockInit => Inv
  BY LockInitInv, NoneAssumption DEF LockInit, LockInv, LockBase
<1>2. Inv /\ [LockNext]_lockVars => Inv'
  <2> SUFFICES ASSUME Inv, [LockNext]_lockVars PROVE Inv'
    OBVIOUS
  <2>1. LockBase'
    BY LockBaseKept
  <2>2. ASSUME ~raced' PROVE LockInv'
    <3>1. LockInv
      BY <2>2, RaceOver
    <3> QED  BY <2>2, <3>1, LockNextInv
  <2> QED  BY <2>1, <2>2
<1>3. Inv => LockSafe
  <2> SUFFICES ASSUME Inv PROVE LockSafe
    OBVIOUS
  <2>1. ASSUME ~raced PROVE FilesLeadToDaemon
    BY <2>1, NoneAssumption DEF LockInv, OneAlive, FilesOf, FilesLeadToDaemon, isProcessAlive,
       Locked, Keyed, Published, Up, Gone
  <2>2. ASSUME ~raced PROVE StoppedIsDown
    BY <2>2, NoneAssumption DEF LockInv, FilesOf, StopOK, StoppedIsDown
  <2>3. StoppedIsLeaving
    BY DEF LockBase, StoppedIsLeaving, Leaving
  <2> QED  BY <2>1, <2>2, <2>3 DEF LockSafe
<1> QED
  BY <1>1, <1>2, <1>3, PTL DEF LockSpec

-----------------------------------------------------------------------------
(* The custody desk.  The mark a claim leaves on a reservation stays as long as
   a process may exist for it, and a remote launch reserves a reference of its
   own; that excludes a second spawn.  Ends are kept because, unless beats cross,
   what a beat carries is a prefix of the buffer until its answer drains exactly
   that prefix; while they cross, the buffer holds exposed ends only. *)

\* A process is there, or on its way, only for a claimed reservation; a launch
\* that is still checking has none; a registered session has been spawned.
Claims ==
    /\ \A r \in Refs : running[r] # "none" => desk[r] = "claimed"
    /\ \A r \in starting : desk[r] = "none"
    /\ \A r \in registry : running[r] \notin {"none", "spawning"}

Busy(r) == running[r] \in {"spawning", "live"}

\* Streams in use were handed out before the next one.
Streams ==
    /\ \A r \in Refs : Busy(r) => stream[r] < nextStream
    /\ \A r, q \in Refs : r # q /\ Busy(r) /\ Busy(q) => stream[r] # stream[q]

Told(r) == plane[r] \in {"ended", "revived"}

\* What beat b carries is still the front of the buffer.
IsFront(b) ==
    /\ Len(beats[b].ended) <= Len(ended)
    /\ \A i \in 1..Len(beats[b].ended) : ended[i] = beats[b].ended[i]

\* An answered beat has told what it carries.
HasTold(b) ==
    beats[b].at = "answered" =>
        \A i \in 1..Len(beats[b].ended) : Told(beats[b].ended[i])

\* Unless beats have crossed one at most is out, and it carries the front of the
\* buffer; while they cross, every end in the buffer is an exposed one.
Ordered ==
    /\ \A b, c \in Out : b = c
    /\ dropped = {} => \A b \in Slots : IsFront(b)
AllExposed == \A i \in 1..Len(ended) : ended[i] \in exposed

\* An end that was never exposed is at hand or told.
Kept == \A r \in Refs \ exposed : running[r] = "ended" =>
           Told(r) \/ \E i \in 1..Len(ended) : ended[i] = r

Reports ==
    /\ beats[0].ended = <<>>
    /\ ~crossed => Ordered
    /\ crossed => AllExposed
    /\ \A b \in Slots : HasTold(b)
    /\ dropped = {} => Kept

CustodyInv == CustodyTypeOK /\ Claims /\ Streams

-----------------------------------------------------------------------------
(* Types, claims and streams. *)

LEMMA InitCustodyInv == CustodyInit => CustodyInv
<1> SUFFICES ASSUME CustodyInit PROVE CustodyInv
  OBVIOUS
<1>1. NoBeat \in Beat
  BY DEF NoBeat, Beat
<1>2. CustodyTypeOK
  <2>1. ended \in Seq(Refs) /\ Len(ended) <= MaxEnded
    BY CustodyAssumption DEF CustodyInit
  <2>2. nextStream \in 1..(MaxStreams + 1) /\ stream \in [Refs -> 0..MaxStreams]
    BY CustodyAssumption DEF CustodyInit
  <2>3. crossed \in BOOLEAN /\ exposed \subseteq Refs /\ dropped \subseteq Refs
    BY DEF CustodyInit
  <2> QED  BY <1>1, <2>1, <2>2, <2>3 DEF CustodyInit, CustodyTypeOK
<1>3. Claims /\ Streams
  BY DEF CustodyInit, Claims, Streams, Busy
<1> QED  BY <1>2, <1>3 DEF CustodyInv

LEMMA StutterCustodyInv ==
  ASSUME CustodyInv, UNCHANGED custodyVars
  PROVE  CustodyInv'
BY DEF CustodyInv, CustodyTypeOK, Claims, Streams, Busy, custodyVars, deskVars, planeVars

LEMMA DeskCustodyInv ==
  ASSUME CustodyInv, NEW r \in Refs, TimePasses(r) \/ CustodyReserve(r)
  PROVE  CustodyInv'
<1>1. CASE TimePasses(r)
  BY <1>1 DEF TimePasses, CustodyInv, CustodyTypeOK, Claims, Streams, Busy, planeVars
<1>2. CASE CustodyReserve(r)
  <2>1. CustodyTypeOK'
    BY <1>2 DEF CustodyReserve, Reserve, Swept, CustodyInv, CustodyTypeOK, planeVars
  <2>2. Claims' /\ Streams'
    BY <1>2 DEF CustodyReserve, Reserve, Swept, CustodyInv, CustodyTypeOK, Claims,
                Streams, Busy, planeVars
  <2> QED  BY <2>1, <2>2 DEF CustodyInv
<1> QED  BY <1>1, <1>2

\* A process is being spawned for r alone, under the next stream.
LEMMA SpawningStreams ==
  ASSUME CustodyTypeOK, Streams, NEW r \in Refs, nextStream <= MaxStreams,
         running' = [running EXCEPT ![r] = "spawning"],
         stream' = [stream EXCEPT ![r] = nextStream],
         nextStream' = nextStream + 1
  PROVE  /\ Streams'
         /\ stream' \in [Refs -> 0..MaxStreams]
         /\ nextStream' \in 1..(MaxStreams + 1)
         /\ running' \in [Refs -> {"none", "spawning", "live", "ended", "disposed"}]
<1>1. nextStream \in 1..(MaxStreams + 1) /\ MaxStreams \in Nat
  BY CustodyAssumption DEF CustodyTypeOK
<1>2. \A q \in Refs : stream[q] \in 0..MaxStreams
  BY DEF CustodyTypeOK
<1>3. \A q \in Refs \ {r} : stream'[q] = stream[q] /\ (Busy(q)' <=> Busy(q))
  BY DEF CustodyTypeOK, Busy
<1>4. stream'[r] = nextStream
  BY DEF CustodyTypeOK
<1>5. Streams'
  <2>1. \A q \in Refs : Busy(q)' => stream'[q] < nextStream'
    BY <1>1, <1>2, <1>3, <1>4 DEF Streams
  <2>2. \A p, q \in Refs : p # q /\ Busy(p)' /\ Busy(q)' => stream'[p] # stream'[q]
    BY <1>1, <1>2, <1>3, <1>4 DEF Streams
  <2> QED  BY <2>1, <2>2 DEF Streams
<1>6. stream' \in [Refs -> 0..MaxStreams] /\ nextStream' \in 1..(MaxStreams + 1)
  BY <1>1 DEF CustodyTypeOK
<1>7. running' \in [Refs -> {"none", "spawning", "live", "ended", "disposed"}]
  BY DEF CustodyTypeOK
<1> QED  BY <1>5, <1>6, <1>7

LEMMA ClaimCustodyInv ==
  ASSUME CustodyInv, NEW r \in Refs, CustodyClaim(r)
  PROVE  CustodyInv'
<1>a. CustodyTypeOK /\ Claims /\ Streams /\ MaxStreams \in Nat
  BY CustodyAssumption DEF CustodyInv
<1>1. CASE desk[r] = "reserved" /\ r \notin late /\ Granted(r)
  <2>1. /\ Streams' /\ stream' \in [Refs -> 0..MaxStreams]
        /\ nextStream' \in 1..(MaxStreams + 1)
        /\ running' \in [Refs -> {"none", "spawning", "live", "ended", "disposed"}]
    BY <1>a, <1>1, SpawningStreams DEF CustodyClaim, Granted
  <2>2. CustodyTypeOK'
    BY <1>a, <1>1, <2>1 DEF CustodyClaim, Granted, CustodyTypeOK, planeVars
  <2>3. Claims'
    BY <1>a, <1>1 DEF CustodyClaim, Granted, CustodyTypeOK, Claims
  <2> QED  BY <2>1, <2>2, <2>3 DEF CustodyInv
<1>2. CASE /\ UNCHANGED <<running, stream>>
           /\ \/ UNCHANGED desk
              \/ desk[r] = "reserved" /\ desk' = [desk EXCEPT ![r] = "dropped"]
  <2>a. nextStream' \in 1..(MaxStreams + 1)
    BY <1>a DEF CustodyClaim, CustodyTypeOK
  <2>b. desk' \in [Refs -> {"none", "reserved", "claimed", "dropped"}]
    BY <1>a, <1>2 DEF CustodyTypeOK
  <2>1. CustodyTypeOK'
    BY <1>a, <1>2, <2>a, <2>b DEF CustodyClaim, CustodyTypeOK, planeVars
  <2>2. Claims'
    BY <1>a, <1>2 DEF CustodyClaim, CustodyTypeOK, Claims
  <2>3. Streams'
    BY <1>a, <1>2 DEF CustodyClaim, CustodyTypeOK, Streams, Busy
  <2> QED  BY <2>1, <2>2, <2>3 DEF CustodyInv
<1> QED  BY <1>1, <1>2 DEF CustodyClaim

LEMMA LaunchCustodyInv ==
  ASSUME CustodyInv, NEW r \in Refs, LaunchBegins(r) \/ LaunchRefused(r) \/ LaunchStarts(r)
  PROVE  CustodyInv'
<1>a. CustodyTypeOK /\ Claims /\ Streams
  BY DEF CustodyInv
<1>1. CASE LaunchBegins(r) \/ LaunchRefused(r)
  BY <1>a, <1>1 DEF LaunchBegins, LaunchRefused, CustodyInv, CustodyTypeOK, Claims,
                    Streams, Busy, planeVars
<1>2. CASE LaunchStarts(r)
  <2>1. /\ Streams' /\ stream' \in [Refs -> 0..MaxStreams]
        /\ nextStream' \in 1..(MaxStreams + 1)
        /\ running' \in [Refs -> {"none", "spawning", "live", "ended", "disposed"}]
    BY <1>a, <1>2, SpawningStreams DEF LaunchStarts
  <2>2. desk' \in [Refs -> {"none", "reserved", "claimed", "dropped"}]
    BY <1>a, <1>2 DEF LaunchStarts, Swept, CustodyTypeOK
  <2>3. CustodyTypeOK'
    BY <1>a, <1>2, <2>1, <2>2 DEF LaunchStarts, CustodyTypeOK, planeVars
  <2>4. Claims'
    BY <1>a, <1>2 DEF LaunchStarts, Swept, CustodyTypeOK, Claims
  <2> QED  BY <2>1, <2>3, <2>4 DEF CustodyInv
<1> QED  BY <1>1, <1>2

LEMMA SpawnCustodyInv ==
  ASSUME CustodyInv, NEW r \in Refs, SpawnSucceeds(r) \/ SpawnFails(r)
  PROVE  CustodyInv'
<1>a. CustodyTypeOK /\ Claims /\ Streams
  BY DEF CustodyInv
<1>1. CASE SpawnSucceeds(r)
  <2>1. CustodyTypeOK'
    BY <1>a, <1>1 DEF SpawnSucceeds, CustodyTypeOK, planeVars
  <2>2. Claims'
    BY <1>a, <1>1 DEF SpawnSucceeds, CustodyTypeOK, Claims
  <2>3. \A q \in Refs : Busy(q)' => Busy(q)
    BY <1>a, <1>1 DEF SpawnSucceeds, CustodyTypeOK, Busy
  <2>4. Streams'
    BY <1>a, <1>1, <2>3 DEF SpawnSucceeds, Streams
  <2> QED  BY <2>1, <2>2, <2>4 DEF CustodyInv
<1>2. CASE SpawnFails(r)
  <2>1. CustodyTypeOK'
    BY <1>a, <1>2 DEF SpawnFails, CustodyTypeOK, planeVars
  <2>2. Claims'
    BY <1>a, <1>2 DEF SpawnFails, CustodyTypeOK, Claims
  <2>3. \A q \in Refs : Busy(q)' => Busy(q)
    BY <1>a, <1>2 DEF SpawnFails, CustodyTypeOK, Busy
  <2>4. Streams'
    BY <1>a, <1>2, <2>3 DEF SpawnFails, Streams
  <2> QED  BY <2>1, <2>2, <2>4 DEF CustodyInv
<1> QED  BY <1>1, <1>2

LEMMA ExitsCustodyInv ==
  ASSUME CustodyInv, NEW r \in Refs, Exits(r)
  PROVE  CustodyInv'
<1>a. CustodyTypeOK /\ Claims /\ Streams /\ MaxEnded \in Nat /\ MaxStreams \in Nat
  BY CustodyAssumption DEF CustodyInv
<1>b. ended \in Seq(Refs) /\ Len(ended) <= MaxEnded /\ Len(ended) \in Nat
  BY <1>a DEF CustodyTypeOK
<1> DEFINE grown == Append(ended, r)
<1>c. grown \in Seq(Refs) /\ grown # <<>> /\ Len(grown) = Len(ended) + 1
  BY <1>b
<1>d. Tail(grown) \in Seq(Refs) /\ Len(Tail(grown)) = Len(grown) - 1 /\ Head(grown) \in Refs
  BY <1>c
<1>e. \/ ended' = Tail(grown) /\ dropped' = dropped \cup {Head(grown)}
      \/ Len(grown) <= MaxEnded /\ ended' = grown /\ dropped' = dropped
  <2>1. Len(grown) > MaxEnded \/ Len(grown) <= MaxEnded
    BY <1>a, <1>b, <1>c
  <2> QED  BY <2>1 DEF Exits
<1>1. ended' \in Seq(Refs) /\ Len(ended') <= MaxEnded
  <2> HIDE DEF grown
  <2> QED  BY SMTT(40), <1>a, <1>b, <1>c, <1>d, <1>e
<1>2. dropped' \subseteq Refs
  <2>1. dropped \subseteq Refs
    BY <1>a DEF CustodyTypeOK
  <2> HIDE DEF grown
  <2> QED  BY <1>d, <1>e, <2>1
<1>3. CustodyTypeOK'
  <2>1. exposed' \subseteq Refs /\ crossed' \in BOOLEAN
    BY <1>a DEF Exits, CustodyTypeOK
  <2> QED  BY <1>a, <1>1, <1>2, <2>1 DEF Exits, CustodyTypeOK
<1>4. Claims'
  BY <1>a DEF Exits, CustodyTypeOK, Claims
<1>5. Streams'
  BY <1>a DEF Exits, CustodyTypeOK, Streams, Busy
<1> QED  BY <1>3, <1>4, <1>5 DEF CustodyInv

LEMMA BeatsCustodyInv ==
  ASSUME CustodyInv, NEW b \in Slots, BeatFires(b) \/ Lands(b) \/ BeatFails(b) \/ BeatResolves(b)
  PROVE  CustodyInv'
<1>a. CustodyTypeOK /\ Claims /\ Streams /\ MaxEnded \in Nat
  BY CustodyAssumption DEF CustodyInv
<1>b. /\ NoBeat \in Beat /\ [at |-> "sent", live |-> registry, ended |-> ended] \in Beat
      /\ [beats[b] EXCEPT !.at = "answered"] \in Beat
  <2>1. NoBeat \in Beat
    BY DEF NoBeat, Beat
  <2>2. [at |-> "sent", live |-> registry, ended |-> ended] \in Beat
    BY <1>a DEF CustodyTypeOK, Beat
  <2>3. beats[b] \in Beat
    BY <1>a DEF CustodyTypeOK
  <2>4. [beats[b] EXCEPT !.at = "answered"] \in Beat
    BY <2>3 DEF Beat
  <2> QED  BY <2>1, <2>2, <2>4
<1>1. beats' \in [Slots -> Beat]
  <2>1. beats \in [Slots -> Beat]
    BY <1>a DEF CustodyTypeOK
  <2>2. \E x \in Beat : beats' = [beats EXCEPT ![b] = x]
    BY <1>b DEF BeatFires, Sends, Lands, BeatEnds, BeatFails, BeatResolves
  <2> QED  BY <2>1, <2>2
<1>2. plane' \in [Refs -> {"none", "live", "ended", "revived"}]
  BY <1>a DEF BeatFires, Sends, Lands, BeatFails, BeatResolves, CustodyTypeOK
<1>3. ended' \in Seq(Refs) /\ Len(ended') <= MaxEnded
  <2>1. beats[b].ended \in Seq(Refs) /\ ended \in Seq(Refs) /\ Len(ended) <= MaxEnded
    BY <1>a DEF CustodyTypeOK, Beat
  <2>2. CASE BeatResolves(b)
    <3> DEFINE n == Len(beats[b].ended)
    <3>1. n \in Nat /\ ended' = SubSeq(ended, n + 1, Len(ended))
      BY <2>1, <2>2 DEF BeatResolves
    <3> HIDE DEF n
    <3>2. SubSeq(ended, n + 1, Len(ended)) \in Seq(Refs)
      BY <2>1, <3>1
    <3>3. Len(SubSeq(ended, n + 1, Len(ended))) <= Len(ended)
      BY <2>1, <3>1
    <3> QED  BY <1>a, <2>1, <3>1, <3>2, <3>3
  <2>3. CASE UNCHANGED ended
    BY <2>1, <2>3
  <2> QED  BY <2>2, <2>3 DEF BeatFires, Sends, Lands, BeatFails
<1>4. UNCHANGED <<deskVars, dropped, phase>>
  BY DEF BeatFires, Sends, Lands, BeatFails, BeatResolves
<1>e. crossed' \in BOOLEAN /\ exposed' \subseteq Refs
  <2>1. crossed \in BOOLEAN /\ exposed \subseteq Refs /\ ToSet(ended) \subseteq Refs
    BY <1>a DEF CustodyTypeOK, ToSet
  <2>2. exposed' \in {exposed, exposed \cup ToSet(ended)}
    BY DEF BeatFires, Sends, Lands, BeatEnds, BeatFails, BeatResolves
  <2>3. CASE BeatFires(b) \/ BeatFails(b) \/ BeatResolves(b)
    BY <2>1, <2>2, <2>3 DEF BeatFires, BeatEnds, BeatFails, BeatResolves
  <2>4. CASE Lands(b)
    BY <2>1, <2>4 DEF Lands
  <2> QED  BY <2>3, <2>4
<1>5. CustodyTypeOK'
  BY <1>a, <1>1, <1>2, <1>3, <1>4, <1>e DEF CustodyTypeOK, deskVars
<1>6. Claims' /\ Streams'
  BY <1>a, <1>4 DEF Claims, Streams, Busy, deskVars
<1> QED  BY <1>5, <1>6 DEF CustodyInv

LEMMA HookCustodyInv ==
  ASSUME CustodyInv, NEW r \in Refs, HookBeats(r)
  PROVE  CustodyInv'
<1>a. CustodyTypeOK /\ Claims /\ Streams /\ 0 \in Slots
  BY CustodyAssumption DEF CustodyInv, Slots
<1>1. beats' \in [Slots -> Beat]
  BY <1>a DEF HookBeats, CustodyTypeOK, Beat
<1>2. CustodyTypeOK'
  BY <1>a, <1>1 DEF HookBeats, CustodyTypeOK, deskVars
<1>3. Claims' /\ Streams'
  BY <1>a DEF HookBeats, Claims, Streams, Busy, deskVars
<1> QED  BY <1>2, <1>3 DEF CustodyInv

LEMMA CloseCustodyInv ==
  ASSUME CustodyInv, CloseBegins \/ CloseEnds
  PROVE  CustodyInv'
BY DEF CloseBegins, CloseEnds, CustodyInv, CustodyTypeOK, Claims, Streams, Busy,
       deskVars, planeVars

LEMMA NextCustodyInv ==
  ASSUME CustodyInv, [CustodyNext]_custodyVars
  PROVE  CustodyInv'
BY StutterCustodyInv, DeskCustodyInv, ClaimCustodyInv, LaunchCustodyInv, SpawnCustodyInv, ExitsCustodyInv, BeatsCustodyInv,
   HookCustodyInv, CloseCustodyInv DEF CustodyNext

\* Custody stays in its types: the registry, the desk, the buffer below its cap.
THEOREM CustodyTypes == CustodySpec => []CustodyTypeOK
<1>1. CustodyInv => CustodyTypeOK
  BY DEF CustodyInv
<1> QED  BY <1>1, InitCustodyInv, NextCustodyInv, PTL DEF CustodySpec

\* A step spawns a process only for a reference that has none.
LEMMA SpawnsFresh ==
  ASSUME CustodyInv, [CustodyNext]_custodyVars, NEW r \in Refs,
         running'[r] = "spawning", running[r] # "spawning"
  PROVE  running[r] = "none"
<1>a. CustodyTypeOK /\ Claims
  BY DEF CustodyInv
<1>1. ASSUME NEW q \in Refs, CustodyClaim(q) \/ LaunchStarts(q)
      PROVE  running[r] = "none"
  BY <1>a, <1>1 DEF CustodyClaim, Granted, LaunchStarts, CustodyTypeOK, Claims
<1>2. ASSUME NEW q \in Refs, SpawnSucceeds(q) \/ SpawnFails(q) \/ Exits(q)
      PROVE  FALSE
  BY <1>a, <1>2 DEF SpawnSucceeds, SpawnFails, Exits, CustodyTypeOK
<1>3. ASSUME CloseEnds
      PROVE  FALSE
  BY <1>a, <1>3 DEF CloseEnds, CustodyTypeOK
<1>4. CASE running' = running
  BY <1>4
<1> QED  BY <1>1, <1>2, <1>3, <1>4
         DEF CustodyNext, CloseBegins, TimePasses, CustodyReserve, LaunchBegins,
             LaunchRefused, HookBeats, BeatFires, Lands, BeatFails, BeatResolves,
             custodyVars, deskVars

\* For any number of references, claims, failed spawns, expiries, sweeps and
\* remote launches, a reference is run once.
THEOREM OneRun == CustodySpec => RunsOnce
<1>1. ASSUME CustodyInv, [CustodyNext]_custodyVars
      PROVE  [\A r \in Refs : running'[r] = "spawning" /\ running[r] # "spawning" =>
                 running[r] = "none"]_custodyVars
  BY <1>1, SpawnsFresh
<1> QED  BY <1>1, InitCustodyInv, NextCustodyInv, PTL DEF CustodySpec, RunsOnce

-----------------------------------------------------------------------------
(* Ended reports. *)

LEMMA InitReports == CustodyInit => Reports
<1> SUFFICES ASSUME CustodyInit PROVE Reports
  OBVIOUS
<1>1. \A b \in Slots : beats[b] = NoBeat
  BY DEF CustodyInit
<1>2. 0 \in Slots
  BY CustodyAssumption DEF Slots
<1> QED  BY <1>1, <1>2 DEF CustodyInit, Reports, Ordered, AllExposed, Kept, Out, HasTold, IsFront,
            NoBeat

\* What a step must leave alone for the reports to stay in order.
LEMMA ReportsUntouched ==
  ASSUME Reports, UNCHANGED planeVars,
         \A r \in Refs : running'[r] = "ended" => running[r] = "ended"
  PROVE  Reports'
BY DEF Reports, Ordered, AllExposed, Kept, Out, HasTold, IsFront, Told, planeVars

\* An end is put at the back of the buffer; if the cap cuts the front, nothing
\* is claimed any more.
LEMMA ExitsReports ==
  ASSUME CustodyInv, Reports, NEW r \in Refs, Exits(r)
  PROVE  Reports'
<1>a. ended \in Seq(Refs) /\ running \in [Refs -> {"none", "spawning", "live", "ended", "disposed"}]
  BY DEF CustodyInv, CustodyTypeOK
<1>b. /\ UNCHANGED <<beats, plane, crossed>> /\ running' = [running EXCEPT ![r] = "ended"]
      /\ exposed \subseteq exposed' /\ (crossed => r \in exposed')
  BY DEF Exits
<1>c. ASSUME dropped' = {}
      PROVE  dropped = {} /\ ended' = Append(ended, r)
  BY <1>c DEF Exits
<1>d. /\ Len(Append(ended, r)) = Len(ended) + 1 /\ Len(ended) \in Nat
      /\ Append(ended, r)[Len(ended) + 1] = r
      /\ \A i \in 1..Len(ended) : Append(ended, r)[i] = ended[i]
  BY <1>a
<1>1. beats'[0].ended = <<>>
  BY <1>b DEF Reports
<1>2. ASSUME dropped' = {}, ~crossed, NEW b \in Slots
      PROVE  IsFront(b)'
  <2>1. IsFront(b) /\ ended' = Append(ended, r)
    BY <1>2, <1>c DEF Reports, Ordered
  <2>2. Len(beats[b].ended) \in Nat
    BY DEF CustodyInv, CustodyTypeOK, Beat
  <2> QED  BY <1>b, <1>d, <2>1, <2>2 DEF IsFront
<1>3. \A b \in Slots : HasTold(b)'
  BY <1>b DEF Reports, HasTold, Told
<1>4. ASSUME dropped' = {}, NEW q \in Refs \ exposed', running'[q] = "ended"
      PROVE  Told(q)' \/ \E i \in 1..Len(ended') : ended'[i] = q
  <2>1. dropped = {} /\ ended' = Append(ended, r) /\ (Told(q)' <=> Told(q))
    BY <1>4, <1>b, <1>c DEF Told
  <2>2. CASE q = r
    BY <1>d, <2>1, <2>2
  <2>3. CASE q # r
    <3>1. Told(q) \/ \E i \in 1..Len(ended) : ended[i] = q
      BY <1>4, <1>a, <1>b, <2>1, <2>3 DEF Reports, Kept
    <3> QED  BY <1>d, <2>1, <3>1
  <2> QED  BY <2>2, <2>3
<1>5. ASSUME crossed PROVE AllExposed'
  <2> DEFINE grown == Append(ended, r)
  <2>1. grown \in Seq(Refs) /\ grown # <<>> /\ Len(grown) \in Nat
    BY <1>a
  <2>2. \A i \in 1..Len(grown) : grown[i] \in exposed'
    BY <1>5, <1>b, <1>d DEF Reports, AllExposed
  <2>3. ended' = grown \/ ended' = Tail(grown)
    BY DEF Exits
  <2> HIDE DEF grown
  <2>4. Len(Tail(grown)) = Len(grown) - 1 /\ \A i \in 1..Len(Tail(grown)) : Tail(grown)[i] = grown[i + 1]
    BY <2>1
  <2>5. \A i \in 1..Len(Tail(grown)) : Tail(grown)[i] \in exposed'
    BY <2>1, <2>2, <2>4
  <2> QED  BY <2>2, <2>3, <2>5 DEF AllExposed
<1>6. ~crossed => Ordered'
  BY <1>2, <1>b DEF Reports, Ordered, Out
<1> QED  BY <1>b, <1>1, <1>3, <1>4, <1>5, <1>6 DEF Reports, Kept

\* A beat that is sent carries the whole buffer; if it crosses another, all it
\* carries is exposed.
LEMMA FiresReports ==
  ASSUME CustodyInv, Reports, NEW b \in Slots, BeatFires(b)
  PROVE  Reports'
<1>a. /\ ended \in Seq(Refs) /\ beats \in [Slots -> Beat] /\ 0 \in Slots /\ b # 0
  BY CustodyAssumption DEF CustodyInv, CustodyTypeOK, Slots, BeatFires
<1>b. /\ UNCHANGED <<ended, plane, dropped, running>> /\ beats[b] = NoBeat
      /\ beats' = [beats EXCEPT ![b] = [at |-> "sent", live |-> registry, ended |-> ended]]
      /\ crossed' = (Out # {}) /\ exposed' = IF Out # {} THEN exposed \cup ToSet(ended) ELSE exposed
  BY DEF BeatFires, Sends, deskVars
<1>1. /\ beats'[b].ended = ended /\ beats'[b].at = "sent"
      /\ \A c \in Slots \ {b} : beats'[c] = beats[c]
  BY <1>a, <1>b
<1>2. beats'[0].ended = <<>>
  BY <1>a, <1>1 DEF Reports
<1>3. ASSUME ~crossed' PROVE Ordered'
  <2>1. Out = {}
    BY <1>3, <1>b
  <2>2. \A c \in Slots : c # 0 /\ c # b => beats'[c] = NoBeat
    BY <1>1, <2>1, CustodyAssumption DEF Out, Slots
  <2>3. \A c, d \in Out' : c = d
    BY <2>2, CustodyAssumption DEF Out, Slots
  <2>4. Len(ended) \in Nat
    BY <1>a
  <2>5. \A c \in Slots : c # b => beats'[c].ended = <<>>
    BY <1>2, <2>2 DEF NoBeat
  <2>6. \A c \in Slots : IsFront(c)'
    BY <1>1, <1>b, <2>4, <2>5 DEF IsFront
  <2> QED  BY <2>3, <2>6 DEF Ordered
<1>4. ASSUME crossed' PROVE AllExposed'
  BY <1>4, <1>a, <1>b DEF AllExposed, ToSet
<1>5. \A c \in Slots : HasTold(c)'
  BY <1>b, <1>1 DEF Reports, HasTold, Told
<1>6. exposed \subseteq exposed'
  BY <1>b
<1>7. dropped' = {} => Kept'
  BY <1>b, <1>6 DEF Reports, Kept, Told
<1> QED  BY <1>2, <1>3, <1>4, <1>5, <1>7 DEF Reports

\* The hook's beat carries no ends.
LEMMA HookReports ==
  ASSUME CustodyInv, Reports, NEW r \in Refs, HookBeats(r)
  PROVE  Reports'
<1>a. ended \in Seq(Refs) /\ beats \in [Slots -> Beat] /\ 0 \in Slots
  BY CustodyAssumption DEF CustodyInv, CustodyTypeOK, Slots
<1>b. UNCHANGED <<ended, plane, dropped, running, crossed, exposed>>
  BY DEF HookBeats, deskVars
<1>1. /\ beats'[0].ended = <<>> /\ beats'[0].at = "sent"
      /\ \A c \in Slots \ {0} : beats'[c] = beats[c]
  BY <1>a DEF HookBeats
<1>2. Len(ended) \in Nat
  BY <1>a
<1>3. ~crossed => Ordered'
  <2>1. Out' = Out
    BY <1>1 DEF Out
  <2>2. \A c \in Slots : IsFront(c) => IsFront(c)'
    BY <1>b, <1>1, <1>2 DEF IsFront
  <2> QED  BY <1>b, <2>1, <2>2 DEF Reports, Ordered
<1>4. \A c \in Slots : HasTold(c)'
  BY <1>b, <1>1 DEF Reports, HasTold, Told
<1> QED  BY <1>b, <1>1, <1>3, <1>4 DEF Reports, AllExposed, Kept, Told

\* A beat that lands tells what it carries; a row that was ended is never
\* forgotten again, at most revived.
LEMMA LandsReports ==
  ASSUME CustodyInv, Reports, NEW b \in Slots, Lands(b)
  PROVE  Reports'
<1>a. /\ beats \in [Slots -> Beat] /\ 0 \in Slots
      /\ plane \in [Refs -> {"none", "live", "ended", "revived"}]
  BY CustodyAssumption DEF CustodyInv, CustodyTypeOK, Slots
<1>b. UNCHANGED <<ended, dropped, running, crossed, exposed>>
  BY DEF Lands, deskVars
<1>1. \A c \in Slots : beats'[c].ended = beats[c].ended /\ (c # b => beats'[c] = beats[c])
  BY <1>a DEF Lands, Beat
<1>2. \A r \in Refs : Told(r) => Told(r)'
  BY <1>a DEF Lands, Told
<1>3. \A i \in 1..Len(beats[b].ended) : plane'[beats[b].ended[i]] \in {"ended", "revived"}
  <2>1. beats[b].ended \in Seq(Refs)
    BY <1>a DEF Beat
  <2>2. \A i \in 1..Len(beats[b].ended) :
           beats[b].ended[i] \in Refs /\ beats[b].ended[i] \in ToSet(beats[b].ended)
    BY <2>1 DEF ToSet
  <2>3. \A r \in Refs : r \in ToSet(beats[b].ended) => plane'[r] = "ended"
    BY DEF Lands
  <2> QED  BY <2>2, <2>3
<1>4. \A c \in Slots : HasTold(c)'
  <2>1. \A c \in Slots : \A i \in 1..Len(beats[c].ended) : beats[c].ended[i] \in Refs
    BY <1>a DEF Beat
  <2> QED  BY <1>1, <1>2, <1>3, <2>1 DEF Reports, HasTold, Told
<1>5. ~crossed' => Ordered'
  <2>1. beats[b] # NoBeat
    BY DEF Lands, NoBeat
  <2>2. \A c \in Out' : c \in Out
    BY <1>1, <2>1 DEF Out
  <2>3. \A c \in Slots : IsFront(c) => IsFront(c)'
    BY <1>b, <1>1 DEF IsFront
  <2> QED  BY <1>b, <2>2, <2>3 DEF Reports, Ordered
<1> QED  BY <1>a, <1>b, <1>1, <1>2, <1>4, <1>5 DEF Reports, AllExposed, Kept

\* What a beat that is over leaves: no ends in its slot, and, when none is out any
\* more, every beat trivially in order.
LEMMA EndedBeat ==
  ASSUME CustodyInv, Reports, NEW b \in Slots, BeatEnds(b)
  PROVE  /\ beats'[b] = NoBeat /\ \A c \in Slots \ {b} : beats'[c] = beats[c]
         /\ NoBeat.ended = <<>> /\ NoBeat.at = "none" /\ beats'[0].ended = <<>>
         /\ Out' = Out \ {b} /\ exposed' = exposed /\ (crossed' => crossed)
         /\ crossed /\ ~crossed' => \A c \in Slots : beats'[c].ended = <<>>
<1>a. beats \in [Slots -> Beat] /\ 0 \in Slots
  BY CustodyAssumption DEF CustodyInv, CustodyTypeOK, Slots
<1>1. beats'[b] = NoBeat /\ \A c \in Slots \ {b} : beats'[c] = beats[c]
  BY <1>a DEF BeatEnds
<1>2. NoBeat.ended = <<>> /\ NoBeat.at = "none"
  BY DEF NoBeat
<1>3. beats'[0].ended = <<>>
  BY <1>a, <1>1, <1>2 DEF Reports
<1>4. Out' = Out \ {b}
  BY <1>1 DEF Out
<1>5. exposed' = exposed /\ (crossed' => crossed) /\ (crossed /\ ~crossed' => Out \ {b} = {})
  BY DEF BeatEnds
<1>6. ASSUME Out' = {} PROVE \A c \in Slots : beats'[c].ended = <<>>
  <2>1. \A c \in Slots : c # 0 => c > 0
    BY CustodyAssumption DEF Slots
  <2> QED  BY <1>2, <1>3, <1>6, <2>1 DEF Out
<1> QED  BY <1>1, <1>2, <1>3, <1>4, <1>5, <1>6

\* A beat that fails drains nothing.
LEMMA FailsReports ==
  ASSUME CustodyInv, Reports, NEW b \in Slots, BeatFails(b)
  PROVE  Reports'
<1>a. ended \in Seq(Refs) /\ Len(ended) \in Nat
  BY DEF CustodyInv, CustodyTypeOK
<1>b. UNCHANGED <<ended, plane, dropped, running>> /\ BeatEnds(b)
  BY DEF BeatFails, deskVars
<1>1. /\ beats'[b] = NoBeat /\ \A c \in Slots \ {b} : beats'[c] = beats[c]
      /\ NoBeat.ended = <<>> /\ NoBeat.at = "none" /\ beats'[0].ended = <<>>
      /\ Out' = Out \ {b} /\ exposed' = exposed /\ (crossed' => crossed)
      /\ crossed /\ ~crossed' => \A c \in Slots : beats'[c].ended = <<>>
  BY <1>b, EndedBeat
<1>2. ASSUME ~crossed' PROVE Ordered'
  <2>1. CASE crossed
    <3>1. \A c \in Slots : beats'[c].ended = <<>>
      BY <1>1, <1>2, <2>1
    <3>2. \A c \in Slots : IsFront(c)'
      BY <1>a, <1>b, <3>1 DEF IsFront
    <3>3. Out' = {}
      BY <1>1, <1>2, <1>b, <2>1 DEF BeatEnds
    <3> QED  BY <3>2, <3>3 DEF Ordered
  <2>2. CASE ~crossed
    <3>1. \A c \in Slots : IsFront(c) => IsFront(c)'
      BY <1>a, <1>b, <1>1 DEF IsFront
    <3> QED  BY <1>1, <1>b, <2>2, <3>1 DEF Reports, Ordered
  <2> QED  BY <2>1, <2>2
<1>4. \A c \in Slots : HasTold(c)'
  BY <1>b, <1>1 DEF Reports, HasTold, Told
<1> QED  BY <1>b, <1>1, <1>2, <1>4 DEF Reports, AllExposed, Kept, Told

\* The answer drains the front that the beat carried, which has been told; while
\* beats cross it may drain others, all of them exposed.
LEMMA ResolvesReports ==
  ASSUME CustodyInv, Reports, NEW b \in Slots, BeatResolves(b)
  PROVE  Reports'
<1> DEFINE n == Len(beats[b].ended)
<1>a. beats \in [Slots -> Beat] /\ 0 \in Slots /\ ended \in Seq(Refs) /\ Len(ended) \in Nat
  BY CustodyAssumption DEF CustodyInv, CustodyTypeOK, Slots
<1>b. UNCHANGED <<plane, dropped, running>> /\ beats[b].at = "answered" /\ BeatEnds(b)
  BY DEF BeatResolves, deskVars
<1>c. n \in Nat /\ ended' = SubSeq(ended, n + 1, Len(ended))
  BY <1>a DEF BeatResolves, Beat
<1>d. /\ Len(ended') \in Nat
      /\ \A i \in 1..Len(ended') : i + n \in 1..Len(ended) /\ ended'[i] = ended[i + n]
  <2> HIDE DEF n
  <2> QED  BY <1>a, <1>c
<1>1. /\ beats'[b] = NoBeat /\ \A c \in Slots \ {b} : beats'[c] = beats[c]
      /\ NoBeat.ended = <<>> /\ NoBeat.at = "none" /\ beats'[0].ended = <<>>
      /\ Out' = Out \ {b} /\ exposed' = exposed /\ (crossed' => crossed)
      /\ crossed /\ ~crossed' => \A c \in Slots : beats'[c].ended = <<>>
  BY <1>b, EndedBeat
<1>2. ASSUME ~crossed' PROVE Ordered'
  <2>1. CASE crossed
    <3>1. \A c \in Slots : beats'[c].ended = <<>>
      BY <1>1, <1>2, <2>1
    <3>2. \A c \in Slots : IsFront(c)'
      BY <1>d, <3>1 DEF IsFront
    <3>3. Out' = {}
      BY <1>1, <1>2, <1>b, <2>1 DEF BeatEnds
    <3> QED  BY <3>2, <3>3 DEF Ordered
  <2>2. CASE ~crossed /\ b = 0
    <3>1. n = 0
      BY <2>2 DEF Reports
    <3>2. ended' = ended
      BY <1>a, <1>c, <3>1
    <3>3. \A c \in Slots : IsFront(c) => IsFront(c)'
      BY <1>a, <1>1, <3>2 DEF IsFront
    <3> QED  BY <1>1, <1>b, <2>2, <3>3 DEF Reports, Ordered
  <2>3. CASE ~crossed /\ b # 0
    <3>1. b \in Out
      BY <1>b, <2>3, CustodyAssumption DEF Out, NoBeat, Slots
    <3>2. Out' = {}
      BY <1>1, <2>3, <3>1 DEF Reports, Ordered
    <3>3. \A c \in Slots : c # 0 => c > 0
      BY CustodyAssumption DEF Slots
    <3>4. \A c \in Slots : beats'[c].ended = <<>>
      BY <1>1, <3>2, <3>3 DEF Out
    <3>5. \A c \in Slots : IsFront(c)'
      BY <1>d, <3>4 DEF IsFront
    <3> QED  BY <3>2, <3>5 DEF Ordered
  <2> QED  BY <2>1, <2>2, <2>3
<1>3. ASSUME crossed' PROVE AllExposed'
  <2>1. AllExposed
    BY <1>1, <1>3 DEF Reports
  <2> QED  BY <1>1, <1>d, <2>1 DEF AllExposed
<1>4. ASSUME dropped = {}, NEW r \in Refs \ exposed, running[r] = "ended"
      PROVE  Told(r) \/ \E i \in 1..Len(ended') : ended'[i] = r
  <2>1. CASE Told(r)
    BY <2>1
  <2>2. CASE \E i \in 1..Len(ended) : ended[i] = r
    <3> PICK i \in 1..Len(ended) : ended[i] = r
      BY <2>2
    <3>0. ~crossed
      BY DEF Reports, AllExposed
    <3>1. n <= Len(ended) /\ \A j \in 1..n : ended[j] = beats[b].ended[j]
      BY <1>4, <3>0 DEF Reports, Ordered, IsFront
    <3>2. CASE i <= n
      <4>1. i \in 1..n
        BY <1>a, <1>c, <3>2
      <4> QED  BY <1>b, <3>1, <4>1 DEF Reports, HasTold
    <3>3. CASE i > n
      <4> HIDE DEF n
      <4>1. Len(ended') = Len(ended) - n
        BY <1>a, <1>c, <3>1
      <4>2. i - n \in 1..Len(ended') /\ ended'[i - n] = ended[i]
        BY <1>a, <1>c, <3>1, <3>3, <4>1
      <4> QED  BY <4>2
    <3>4. i <= n \/ i > n
      <4> HIDE DEF n
      <4> QED  BY <1>a, <1>c
    <3> QED  BY <3>2, <3>3, <3>4
  <2> QED  BY <1>4, <2>1, <2>2 DEF Reports, Kept
<1>5. \A c \in Slots : HasTold(c)'
  BY <1>b, <1>1 DEF Reports, HasTold, Told
<1> QED  BY <1>b, <1>1, <1>2, <1>3, <1>4, <1>5 DEF Reports, Kept, Told

LEMMA NextReports ==
  ASSUME CustodyInv, Reports, [CustodyNext]_custodyVars
  PROVE  Reports'
<1>a. running \in [Refs -> {"none", "spawning", "live", "ended", "disposed"}]
  BY DEF CustodyInv, CustodyTypeOK
<1>1. ASSUME NEW r \in Refs, \/ TimePasses(r) \/ CustodyReserve(r) \/ CustodyClaim(r)
                             \/ LaunchBegins(r) \/ LaunchRefused(r) \/ LaunchStarts(r)
                             \/ SpawnSucceeds(r) \/ SpawnFails(r)
      PROVE  Reports'
  <2>1. UNCHANGED planeVars
    BY <1>1 DEF TimePasses, CustodyReserve, CustodyClaim, LaunchBegins,
                LaunchRefused, LaunchStarts, SpawnSucceeds, SpawnFails
  <2>2. \/ running' = running
        \/ \E q \in Refs, x \in {"spawning", "live", "none"} :
               running' = [running EXCEPT ![q] = x]
    BY <1>1 DEF TimePasses, CustodyReserve, CustodyClaim, Granted, LaunchBegins,
                LaunchRefused, LaunchStarts, SpawnSucceeds, SpawnFails
  <2>3. \A q \in Refs : running'[q] = "ended" => running[q] = "ended"
    BY <1>a, <2>2
  <2> QED  BY <2>1, <2>3, ReportsUntouched
<1>2. CASE CloseBegins \/ CloseEnds \/ UNCHANGED custodyVars
  <2>1. UNCHANGED planeVars /\ \A q \in Refs : running'[q] = "ended" => running[q] = "ended"
    BY <1>2 DEF CloseBegins, CloseEnds, custodyVars, deskVars
  <2> QED  BY <2>1, ReportsUntouched
<1> QED  BY <1>1, <1>2, ExitsReports, FiresReports, HookReports, LandsReports, FailsReports,
            ResolvesReports DEF CustodyNext

\* However ends, beats, the hook's beats, losses and answers interleave, and however
\* many beats are out at once: sessions that run together have streams of their own
\* and, while the cap has cut nothing, every end is buffered or told, except those
\* that were in the buffer while beats crossed.
THEOREM NoEndLost == CustodySpec => []ReportsAddUp
<1>1. CustodyInit => CustodyInv /\ Reports
  BY InitCustodyInv, InitReports
<1>2. CustodyInv /\ Reports /\ [CustodyNext]_custodyVars => (CustodyInv /\ Reports)'
  BY NextCustodyInv, NextReports
<1>3. CustodyInv /\ Reports => ReportsAddUp
  <2> SUFFICES ASSUME CustodyInv, Reports PROVE StreamsDiffer /\ EndsKept
    BY DEF ReportsAddUp
  <2>1. StreamsDiffer
    BY DEF CustodyInv, Streams, Busy, StreamsDiffer
  <2>2. ended \in Seq(Refs)
    BY DEF CustodyInv, CustodyTypeOK
  <2>3. \A i \in 1..Len(ended) : ended[i] \in ToSet(ended)
    BY <2>2 DEF ToSet
  <2>4. EndsKept
    BY <2>3 DEF Reports, Kept, Told, EndsKept
  <2> QED  BY <2>1, <2>4
<1> QED  BY <1>1, <1>2, <1>3, PTL DEF CustodySpec

-----------------------------------------------------------------------------
(* The relay uplink.  That no connection outlives its registration needs the
   types only: dials are begun in the registered state alone, and each way out
   of it goes through the teardown. *)

UplinkInv == TypeOK /\ NothingOrphaned

Sound == {"none", "orphan", "over"}

-----------------------------------------------------------------------------
(* Backoff and messages. *)

LEMMA GrowTyped ==
  ASSUME NEW d \in InitialDelay..MaxDelay
  PROVE  Grow(d) \in InitialDelay..MaxDelay
<1>1. /\ InitialDelay \in Nat /\ MaxDelay \in Nat /\ Factor \in Nat /\ Factor >= 1
      /\ InitialDelay <= MaxDelay /\ d \in Nat /\ InitialDelay <= d
  BY DelayAssumption
<1>2. d * Factor \in Nat /\ d * Factor >= d
  BY <1>1
<1> QED  BY <1>1, <1>2 DEF Grow

LEMMA WireMoves ==
  ASSUME wire \in Seq(Message), wire # <<>>
  PROVE  Tail(wire) \in Seq(Message) /\ Head(wire) \in Message
OBVIOUS

LEMMA TornDownSound ==
  ASSUME dials \in [Tickets -> DialStates], Teardown
  PROVE  dials' \in [Tickets -> DialStates] /\ \A t \in Tickets : dials'[t] \in Sound
BY DEF Teardown, TornDown, DialStates, Sound

-----------------------------------------------------------------------------
(* The steps. *)

LEMMA InitUplinkInv == Init => UplinkInv
<1> SUFFICES ASSUME Init PROVE TypeOK /\ NothingOrphaned
  BY DEF UplinkInv
<1>1. wire \in Seq(Message)
  BY DEF Init
<1>2. delay \in InitialDelay..MaxDelay /\ attempts \in 0..MaxAttempts
  BY DelayAssumption, AttemptsAssumption DEF Init
<1>3. TypeOK
  BY <1>1, <1>2 DEF Init, TypeOK, LoopStates, DialStates, CallerStates
<1>4. NothingOrphaned
  BY DEF Init, NothingOrphaned
<1> QED  BY <1>3, <1>4

LEMMA LoopUplinkInv ==
  ASSUME UplinkInv, Wakes \/ Connects \/ ConnectFails
  PROVE  UplinkInv'
<1>1. CASE Wakes
  <2>1. delay' \in InitialDelay..MaxDelay
    BY <1>1, GrowTyped DEF Wakes, UplinkInv, TypeOK
  <2>2. attempts' \in 0..MaxAttempts
    BY <1>1, AttemptsAssumption DEF Wakes, UplinkInv, TypeOK
  <2> QED  BY <1>1, <2>1, <2>2 DEF Wakes, UplinkInv, TypeOK, NothingOrphaned, LoopStates
<1>2. CASE Connects
  <2>1. wire' \in Seq(Message) /\ loop' \in LoopStates /\ loop' # "registered"
    BY <1>2 DEF Connects, LoopStates
  <2>2. TypeOK'
    BY <1>2, <2>1 DEF Connects, UplinkInv, TypeOK
  <2>3. NothingOrphaned'
    BY <1>2 DEF Connects, UplinkInv, NothingOrphaned
  <2> QED  BY <2>2, <2>3 DEF UplinkInv
<1>3. CASE ConnectFails
  BY <1>3 DEF ConnectFails, AfterAttempt, UplinkInv, TypeOK, NothingOrphaned, LoopStates
<1> QED  BY <1>1, <1>2, <1>3

LEMMA ReadsUplinkInv ==
  ASSUME UplinkInv, Reads
  PROVE  UplinkInv'
<1>a. TypeOK /\ NothingOrphaned
  BY DEF UplinkInv
<1>1. wire # <<>> /\ wire' = Tail(wire)
  BY DEF Reads, Challenge, Acknowledged, Refused, FallsBetween, DrainMessage,
         ControlCloses, ConnOpen, Arrives
<1>2. wire' \in Seq(Message) /\ Head(wire) \in Message
  BY <1>a, <1>1, WireMoves DEF TypeOK
<1>3. CASE Challenge \/ Acknowledged \/ DrainMessage
  BY <1>a, <1>2, <1>3 DEF Challenge, Acknowledged, DrainMessage, UplinkInv, TypeOK,
     NothingOrphaned, LoopStates, loopVars
<1>4. CASE Refused
  BY <1>a, <1>2, <1>4 DEF Refused, AfterAttempt, UplinkInv, TypeOK, NothingOrphaned, LoopStates
<1>5. CASE FallsBetween
  <2>1. lost' \in BOOLEAN
    BY <1>a, <1>5 DEF FallsBetween, TypeOK
  <2> QED  BY <1>a, <1>2, <1>5, <2>1 DEF FallsBetween, UplinkInv, TypeOK,
              NothingOrphaned, loopVars
<1>6. CASE ControlCloses
  <2>1. dials' \in [Tickets -> DialStates] /\ \A t \in Tickets : dials'[t] \in Sound
    BY <1>a, <1>6, TornDownSound DEF ControlCloses, TypeOK
  <2> QED  BY <1>a, <1>2, <1>6, <2>1 DEF ControlCloses, Teardown, AfterAttempt, UplinkInv,
              TypeOK, NothingOrphaned, LoopStates, Sound
<1>7. ASSUME NEW t \in Tickets, ConnOpen(t)
      PROVE  UplinkInv'
  BY <1>a, <1>2, <1>7 DEF ConnOpen, UplinkInv, TypeOK, NothingOrphaned, DialStates, loopVars
<1> QED  BY <1>3, <1>4, <1>5, <1>6, <1>7 DEF Reads

LEMMA RegisteredUplinkInv ==
  ASSUME UplinkInv, Registered
  PROVE  UplinkInv'
<1>a. TypeOK /\ NothingOrphaned /\ InitialDelay \in InitialDelay..MaxDelay
  BY DelayAssumption DEF UplinkInv
<1>1. CASE closed
  <2>1. dials' \in [Tickets -> DialStates] /\ \A t \in Tickets : dials'[t] \in Sound
    BY <1>a, <1>1, TornDownSound DEF Registered, TypeOK
  <2> QED  BY <1>a, <1>1, <2>1 DEF Registered, Teardown, UplinkInv, TypeOK, NothingOrphaned,
              LoopStates, Sound
<1>2. CASE ~closed
  BY <1>a, <1>2 DEF Registered, UplinkInv, TypeOK, NothingOrphaned, LoopStates
<1> QED  BY <1>1, <1>2

LEMMA DialsUplinkInv ==
  ASSUME UplinkInv, NEW t \in Tickets,
         DialConnects(t) \/ DialFails(t) \/ DataReady(t) \/ BridgeEnds(t)
  PROVE  UplinkInv'
<1>1. PICK s \in {"waiting", "over", "bridged"} :
         /\ DialGoes(t, s)
         /\ s = "over" \/ dials[t] \in {"connecting", "waiting"}
  BY DEF DialConnects, DialFails, DataReady, BridgeEnds
<1>2. TypeOK'
  BY <1>1 DEF DialGoes, UplinkInv, TypeOK, DialStates, loopVars
<1>3. NothingOrphaned'
  BY <1>1 DEF DialGoes, UplinkInv, TypeOK, NothingOrphaned, loopVars
<1> QED  BY <1>2, <1>3 DEF UplinkInv

LEMMA CloseUplinkInv ==
  ASSUME UplinkInv, UplinkClose
  PROVE  UplinkInv'
<1>a. TypeOK /\ NothingOrphaned
  BY DEF UplinkInv
<1>1. CASE loop = "registered"
  <2>1. dials' \in [Tickets -> DialStates] /\ \A t \in Tickets : dials'[t] \in Sound
    BY <1>a, <1>1, TornDownSound DEF UplinkClose, TypeOK
  <2> QED  BY <1>a, <1>1, <2>1 DEF UplinkClose, Teardown, UplinkInv, TypeOK, NothingOrphaned,
              LoopStates, Sound
<1>2. CASE loop # "registered"
  BY <1>a, <1>2 DEF UplinkClose, UplinkInv, TypeOK, NothingOrphaned
<1> QED  BY <1>1, <1>2

\* What the cell and the relay do changes messages, the far end and the relay.
LEMMA RelayUplinkInv ==
  ASSUME UplinkInv, \/ CellAnswers \/ CellDrops \/ FarEndLost \/ Shutdown \/ RelayExits
               \/ \E t \in Tickets : CellOpens(t)
  PROVE  UplinkInv'
<1>a. TypeOK /\ NothingOrphaned
  BY DEF UplinkInv
<1>1. UNCHANGED <<loopVars, control, proved, dials>> /\ callers' \in [Tickets -> CallerStates]
  BY <1>a DEF CellAnswers, CellDrops, CellOpens, CellSends, FarEndLost, Shutdown, RelayExits,
     TypeOK, CallerStates
<1>2. wire' \in Seq(Message)
  <2>1. /\ \A s \in {"host-challenge", "host-registered", "close", "drain"} :
             [t |-> s] \in Message
        /\ \A t \in Tickets : [t |-> "conn-open", ticket |-> t] \in Message
    BY DEF Message
  <2>2. \A m \in Message : Append(wire, m) \in Seq(Message)
    BY <1>a DEF TypeOK
  <2>a. wire \in Seq(Message) /\ <<>> \in Seq(Message)
    BY <1>a DEF TypeOK
  <2>3. CASE wire' = wire \/ wire' = <<>>
    BY <2>a, <2>3
  <2>4. CASE \E m \in Message : wire' = Append(wire, m)
    BY <2>2, <2>4
  <2> QED  BY <2>1, <2>3, <2>4 DEF CellAnswers, CellDrops, CellOpens, CellSends,
              FarEndLost, Shutdown, RelayExits
<1>3. lost' \in BOOLEAN /\ relay' \in {"serving", "draining", "exited"}
  BY <1>a DEF TypeOK, CellAnswers, CellDrops, CellOpens, CellSends, FarEndLost,
              Shutdown, RelayExits
<1>4. TypeOK'
  BY <1>a, <1>1, <1>2, <1>3 DEF TypeOK, loopVars
<1>5. NothingOrphaned'
  BY <1>a, <1>1 DEF NothingOrphaned, loopVars
<1> QED  BY <1>4, <1>5 DEF UplinkInv

\* A controller that is spliced, refused or gone leaves the daemon as it is.
LEMMA CallersUplinkInv ==
  ASSUME UplinkInv, NEW t \in Tickets, CellSplices(t) \/ CellRefuses(t) \/ CallerLeaves(t)
  PROVE  UplinkInv'
<1>1. PICK s \in CallerStates : CallerGoes(t, s)
  BY DEF CellSplices, CellRefuses, CallerLeaves, CallerStates
<1> QED
  BY <1>1 DEF CallerGoes, UplinkInv, TypeOK, NothingOrphaned, loopVars

LEMMA NextUplinkInv ==
  ASSUME UplinkInv, [Next]_vars
  PROVE  UplinkInv'
<1>1. CASE UNCHANGED vars
  BY <1>1 DEF UplinkInv, TypeOK, NothingOrphaned, vars, loopVars
<1>2. CASE Next
  BY <1>2, LoopUplinkInv, ReadsUplinkInv, RegisteredUplinkInv, DialsUplinkInv,
     CallersUplinkInv, CloseUplinkInv, RelayUplinkInv DEF Next
<1> QED  BY <1>1, <1>2

LEMMA SpecUplinkInv == Spec => []UplinkInv
BY InitUplinkInv, NextUplinkInv, PTL DEF Spec

\* The uplink stays in its types; the backoff delay stays between its initial
\* value and its maximum however often it grows and is reset.
THEOREM UplinkTypes == Spec => []TypeOK
<1>1. UplinkInv => TypeOK
  BY DEF UplinkInv
<1> QED  BY <1>1, SpecUplinkInv, PTL

\* For any tickets, and whatever the cell sends, refuses or drops: while the
\* uplink dials, registers, backs off or has stopped, no data connection of an
\* earlier registration is connecting or open, but to be closed on arrival.
THEOREM NoOrphans == Spec => []NothingOrphaned
<1>1. UplinkInv => NothingOrphaned
  BY DEF UplinkInv
<1> QED  BY <1>1, SpecUplinkInv, PTL

-----------------------------------------------------------------------------
(* The three together. *)

DaemonInv == LockTypeOK /\ CustodyInv /\ UplinkInv

\* The daemon's three parts stay in their types, whatever the runs, references,
\* tickets and bounds, and however commands overlap.
THEOREM DaemonTypes == MCSpec => []MCTypeOK
<1>1. MCInit => DaemonInv
  BY LockInitInv, InitCustodyInv, InitUplinkInv DEF MCInit, DaemonInv, LockInv
<1>2. DaemonInv /\ [MCNext]_MCVars => DaemonInv'
  <2> SUFFICES ASSUME DaemonInv, [MCNext]_MCVars PROVE DaemonInv'
    OBVIOUS
  <2>1. [LockNext]_lockVars /\ [CustodyNext]_custodyVars /\ [Next]_vars
    BY DEF MCNext, MCVars
  <2> QED
    BY <2>1, LockTypesKept, NextCustodyInv, NextUplinkInv DEF DaemonInv
<1>3. DaemonInv => MCTypeOK
  BY DEF DaemonInv, MCTypeOK, CustodyInv, UplinkInv
<1> QED
  BY <1>1, <1>2, <1>3, PTL DEF MCSpec
=============================================================================
