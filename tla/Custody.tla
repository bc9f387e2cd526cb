------------------------------ MODULE Custody ------------------------------
(***************************************************************************)
(* What a running, docked custody daemon keeps: the desk of reservations,  *)
(* the registry of live sessions, the launches behind them, the reports of *)
(* ended sessions and the heartbeats that carry them to the control plane, *)
(* whose session rows are the far end.                                     *)
(*                                                                         *)
(* Reservations are claimed by shims (`custody.claim') and by the remote   *)
(* launch, which checks its selection asynchronously and then reserves and *)
(* claims in one step.                                                     *)
(***************************************************************************)
EXTENDS Integers, Sequences, SequencesExt, FiniteSets

CONSTANTS
    Refs,         \* session references the daemon may mint
    MaxStreams,   \* bound: claims tried
    MaxEnded,     \* MAX_ENDED_REPORTS
    MaxBatch,     \* MAX_HEARTBEAT_SESSIONS of the control plane
    MaxInFlight   \* bound: heartbeats under way at once

ASSUME CustodyAssumption ==
    {MaxStreams, MaxEnded, MaxBatch, MaxInFlight} \subseteq Nat

VARIABLES
    desk,        \* #reservations: what each reference is at the desk
    late,        \* references not yet running whose expiresAt has passed
    running,     \* processes being spawned or alive, for each reference
    stream,      \* the stream id of its claim
    nextStream,  \* nextStreamId
    registry,    \* the session registry
    starting,    \* launch.start calls that are checking their selection
    ended,       \* endedReports
    beats,       \* heartbeats under way
    plane,       \* the control plane's session rows; "revived" is a live row
                 \* that was an ended one
    dropped,     \* history: reports the buffer's cap has cut
    crossed,     \* history: the interval fired over a beat, and one is still out
    exposed,     \* history: ends that were in the buffer while beats crossed
    phase        \* the daemon: open, closing, closed

deskVars == <<desk, late, running, stream, nextStream, registry, starting>>
planeVars == <<ended, beats, plane, dropped, crossed, exposed>>
custodyVars == <<deskVars, planeVars, phase>>

\* Slot 0 is the attention hook's client, the others the uplink's.
Slots == 0..MaxInFlight
NoBeat == [at |-> "none", live |-> {}, ended |-> <<>>]
Beat == [at : {"none", "sent", "answered"}, live : SUBSET Refs,
         ended : Seq(Refs)]

CustodyTypeOK ==
    /\ desk \in [Refs -> {"none", "reserved", "claimed", "dropped"}]
    /\ late \subseteq Refs
    /\ running \in [Refs -> {"none", "spawning", "live", "ended", "disposed"}]
    /\ stream \in [Refs -> 0..MaxStreams]
    /\ nextStream \in 1..(MaxStreams + 1)
    /\ registry \subseteq Refs
    /\ starting \subseteq Refs
    /\ ended \in Seq(Refs) /\ Len(ended) <= MaxEnded
    /\ beats \in [Slots -> Beat]
    /\ plane \in [Refs -> {"none", "live", "ended", "revived"}]
    /\ dropped \subseteq Refs
    /\ crossed \in BOOLEAN /\ exposed \subseteq Refs
    /\ phase \in {"open", "closing", "closed"}

CustodyInit ==
    /\ desk = [r \in Refs |-> "none"]
    /\ late = {}
    /\ running = [r \in Refs |-> "none"]
    /\ stream = [r \in Refs |-> 0] /\ nextStream = 1
    /\ registry = {} /\ starting = {}
    /\ ended = <<>> /\ beats = [b \in Slots |-> NoBeat]
    /\ plane = [r \in Refs |-> "none"]
    /\ dropped = {} /\ crossed = FALSE /\ exposed = {}
    /\ phase = "open"

\* The time of a reservation passes.
TimePasses(r) ==
    /\ desk[r] = "reserved" \/ running[r] = "spawning"
    /\ r \notin late
    /\ late' = late \cup {r}
    /\ UNCHANGED <<desk, running, stream, nextStream, registry, starting, planeVars, phase>>

-----------------------------------------------------------------------------
(* The desk. *)

\* sweepExpired: unclaimed reservations past their time are forgotten.
Swept == [r \in Refs |->
            IF desk[r] = "reserved" /\ r \in late THEN "dropped"
            ELSE desk[r]]

\* spawner.reserve for a reference just minted.
Reserve(r) ==
    /\ desk[r] = "none"
    /\ desk' = [Swept EXCEPT ![r] = "reserved"]

\* custody.reserve, from the local socket.
CustodyReserve(r) ==
    /\ phase = "open"
    /\ r \notin starting
    /\ Reserve(r)
    /\ UNCHANGED <<late, running, stream, nextStream, registry, starting, planeVars, phase>>

\* Mutation: the mark that loses a concurrent claim its race is set after the
\* spawn.
ClaimsUnmarked(r) ==
    /\ running' = [running EXCEPT ![r] = "spawning"]
    /\ stream' = [stream EXCEPT ![r] = nextStream]
    /\ UNCHANGED desk

\* A claim the desk grants: it is marked before the spawn is awaited.
Granted(r) ==
    /\ desk' = [desk EXCEPT ![r] = "claimed"]
    /\ running' = [running EXCEPT ![r] = "spawning"]
    /\ stream' = [stream EXCEPT ![r] = nextStream]

\* custody.claim: a stream id is spent on every attempt.
CustodyClaim(r) ==
    /\ phase = "open"
    /\ nextStream <= MaxStreams
    /\ nextStream' = nextStream + 1
    /\ \/ /\ desk[r] = "reserved" /\ r \notin late
          /\ Granted(r)
       \/ /\ desk[r] = "reserved" /\ r \in late
          /\ desk' = [desk EXCEPT ![r] = "dropped"]
          /\ UNCHANGED <<running, stream>>
       \/ /\ desk[r] # "reserved"
          /\ UNCHANGED <<desk, running, stream>>
    /\ UNCHANGED <<late, registry, starting, planeVars, phase>>

\* openSession: the process is there, its session registered and watched.  The
\* time of its reservation is never looked at again.
SpawnSucceeds(r) ==
    /\ running[r] = "spawning"
    /\ running' = [running EXCEPT ![r] = "live"]
    /\ registry' = registry \cup {r}
    /\ late' = late \ {r}
    /\ UNCHANGED <<desk, stream, nextStream, starting, planeVars, phase>>

\* The spawn fails: the reservation may be claimed again within its time.
SpawnFails(r) ==
    /\ running[r] = "spawning"
    /\ running' = [running EXCEPT ![r] = "none"]
    /\ desk' = [desk EXCEPT ![r] = "reserved"]
    /\ UNCHANGED <<late, stream, nextStream, registry, starting, planeVars, phase>>

\* launch.start: the selection is joined with the boarded projects and the
\* installed agents, which takes awaits.
LaunchBegins(r) ==
    /\ phase = "open"
    /\ desk[r] = "none" /\ r \notin starting
    /\ starting' = starting \cup {r}
    /\ UNCHANGED <<desk, late, running, stream, nextStream, registry, planeVars, phase>>

\* Nothing the host offers matches.
LaunchRefused(r) ==
    /\ r \in starting
    /\ starting' = starting \ {r}
    /\ UNCHANGED <<desk, late, running, stream, nextStream, registry, planeVars, phase>>

\* The composed spec is reserved and claimed, whatever became of the caller
\* and of the daemon in the meantime.
LaunchStarts(r) ==
    /\ r \in starting
    /\ nextStream <= MaxStreams
    /\ starting' = starting \ {r}
    /\ desk' = [Swept EXCEPT ![r] = "claimed"]
    /\ running' = [running EXCEPT ![r] = "spawning"]
    /\ stream' = [stream EXCEPT ![r] = nextStream]
    /\ nextStream' = nextStream + 1
    /\ UNCHANGED <<late, registry, planeVars, phase>>

\* The process exits: the end-watch buffers a report (the oldest gives way
\* over the cap) and forgets the session.
Exits(r) ==
    /\ running[r] = "live"
    /\ running' = [running EXCEPT ![r] = "ended"]
    /\ LET grown == Append(ended, r)
       IN  IF Len(grown) > MaxEnded
           THEN ended' = Tail(grown) /\ dropped' = dropped \cup {Head(grown)}
           ELSE ended' = grown /\ UNCHANGED dropped
    /\ registry' = registry \ {r}
    /\ stream' = [stream EXCEPT ![r] = 0]
    /\ exposed' = IF crossed THEN exposed \cup {r} ELSE exposed
    /\ UNCHANGED <<desk, late, nextStream, starting, beats, plane, crossed, phase>>

-----------------------------------------------------------------------------
(* Heartbeats, and the attention hook's own. *)

\* Mutation: the reports are drained when the beat is sent.
SendsAndDrains(b) ==
    /\ beats' = [beats EXCEPT ![b] = [at |-> "sent", live |-> registry,
                                      ended |-> ended]]
    /\ ended' = <<>>
    /\ UNCHANGED <<plane, dropped>>

\* sendHeartbeat: every live session and the buffered ends, as they are now.
Sends(b) ==
    /\ beats' = [beats EXCEPT ![b] = [at |-> "sent", live |-> registry,
                                      ended |-> ended]]
    /\ UNCHANGED <<ended, plane, dropped>>

\* Beats of the uplink under way.
Out == {b \in Slots : b > 0 /\ beats[b] # NoBeat}

\* The interval fires, whether or not the last beat was answered.
BeatFires(b) ==
    /\ phase = "open" /\ b > 0
    /\ beats[b] = NoBeat
    /\ Sends(b)
    /\ crossed' = (Out # {})
    /\ exposed' = IF Out # {} THEN exposed \cup ToSet(ended) ELSE exposed
    /\ UNCHANGED <<deskVars, phase>>

\* The attention hook reports its session live before it raises: the one the
\* caller named, or the latest.
HookBeats(r) ==
    /\ phase = "open"
    /\ beats[0] = NoBeat
    /\ running[r] # "none"
    /\ beats' = [beats EXCEPT ![0] = [at |-> "sent", live |-> {r},
                                      ended |-> <<>>]]
    /\ UNCHANGED <<deskVars, ended, plane, dropped, crossed, exposed, phase>>

Fits(beat) == Cardinality(beat.live) + Len(beat.ended) <= MaxBatch

\* POST /v1/host/heartbeat: every report overwrites its session's row, the
\* ends after the live ones.
Lands(b) ==
    /\ beats[b].at = "sent" /\ Fits(beats[b])
    /\ beats' = [beats EXCEPT ![b].at = "answered"]
    /\ plane' = [r \in Refs |->
                   CASE r \in ToSet(beats[b].ended) -> "ended"
                     [] r \in beats[b].live \ ToSet(beats[b].ended) ->
                          IF plane[r] \in {"ended", "revived"} THEN "revived"
                          ELSE "live"
                     [] OTHER -> plane[r]]
    /\ UNCHANGED <<deskVars, ended, dropped, crossed, exposed, phase>>

\* The beat in slot b is over; with the last one beats cross no more.
BeatEnds(b) ==
    /\ beats' = [beats EXCEPT ![b] = NoBeat]
    /\ crossed' = (crossed /\ Out \ {b} # {})
    /\ UNCHANGED exposed

\* A batch over the plane's limit is a 400; a request or an answer may also be
\* lost.  The beat rejects and the buffer stays.
BeatFails(b) ==
    /\ beats[b] # NoBeat
    /\ BeatEnds(b)
    /\ UNCHANGED <<deskVars, ended, plane, dropped, phase>>

\* The answer: as many reports as were sent leave the front of the buffer.
BeatResolves(b) ==
    /\ beats[b].at = "answered"
    /\ BeatEnds(b)
    /\ ended' = SubSeq(ended, Len(beats[b].ended) + 1, Len(ended))
    /\ UNCHANGED <<deskVars, plane, dropped, phase>>

-----------------------------------------------------------------------------
(* close(). *)

\* The uplink goes quiet, connections close, the socket stops listening.
CloseBegins ==
    /\ phase = "open"
    /\ phase' = "closing"
    /\ UNCHANGED <<deskVars, planeVars>>

\* Every session the registry lists is disposed.
CloseEnds ==
    /\ phase = "closing"
    /\ phase' = "closed"
    /\ running' = [r \in Refs |-> IF r \in registry THEN "disposed"
                                  ELSE running[r]]
    /\ UNCHANGED <<desk, late, stream, nextStream, registry, starting, planeVars>>

CustodyNext ==
    \/ CloseBegins \/ CloseEnds
    \/ \E r \in Refs :
         \/ TimePasses(r) \/ CustodyReserve(r) \/ CustodyClaim(r) \/ SpawnSucceeds(r)
         \/ SpawnFails(r) \/ LaunchBegins(r) \/ LaunchRefused(r)
         \/ LaunchStarts(r) \/ Exits(r) \/ HookBeats(r)
    \/ \E b \in Slots :
         BeatFires(b) \/ Lands(b) \/ BeatFails(b) \/ BeatResolves(b)

CustodySpec == CustodyInit /\ [][CustodyNext]_custodyVars

-----------------------------------------------------------------------------

\* However claims, failures, expiry and sweeps interleave, a reference is run
\* once: a process is spawned for it only while none was, and never again
\* after one has lived.  (open.ts: "a double-run cannot produce two sessions".)
RunsOnce ==
    [][\A r \in Refs : running'[r] = "spawning" /\ running[r] # "spawning" =>
           running[r] = "none"]_custodyVars

\* Sessions that run at the same time have streams of their own: a controller
\* tells their frames apart by nothing else.
StreamsDiffer ==
    \A r, q \in Refs :
        r # q /\ running[r] \in {"spawning", "live"}
              /\ running[q] \in {"spawning", "live"} => stream[r] # stream[q]

\* An end waits in the buffer until a beat that carried it has landed, however
\* beats fail.  (serve.ts: "drained only once the beat resolves, so a failed
\* beat keeps them for the next".)  Two cases are excepted, in which the answer
\* to a beat drains by count what it did not carry: the buffer's cap has cut it
\* under a beat in flight; or the end was in the buffer while beats crossed,
\* for the interval fires whether or not the last beat was answered.  Crossing
\* beats harm no other end, and none once all of them are over.  A row that was
\* ended may since have been revived: the hook's beat, sent before the exit, can
\* land after it, and nothing tells that end again.
EndsKept ==
    dropped = {} =>
        \A r \in Refs \ exposed : running[r] = "ended" =>
            r \in ToSet(ended) \/ plane[r] \in {"ended", "revived"}

\* What the daemon tells others of its sessions adds up: their streams differ,
\* and an end no crossing beats were there for is kept until it was told.
ReportsAddUp == StreamsDiffer /\ EndsKept
=============================================================================
