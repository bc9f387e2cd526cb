----------------------------- MODULE HostUplink -----------------------------
(***************************************************************************)
(* A docked daemon's dial-out to a relay cell: the reconnecting loop of    *)
(* relay-uplink.ts, the registration and the data dials of host-adapter.ts *)
(* and data-connection.ts, and, at the other end, the relay process of     *)
(* apps/relay, which shuts down when its last socket has gone.             *)
(*                                                                         *)
(* The cell is modelled by what it sends (RelayCell models what it keeps). *)
(* wire holds the messages under way to the daemon.  A chunk may carry     *)
(* several: the code that waits for `host-registered' resumes only when    *)
(* its chunk has been read to the end.  A connection whose far end goes    *)
(* away without a word is reported by nobody (nodeSocketDuplex).           *)
(***************************************************************************)
EXTENDS Integers, Sequences, SequencesExt

CONSTANTS
    Tickets,       \* bridges the cell may ask for
    InitialDelay,  \* backoff.initialMs
    MaxDelay,      \* backoff.maxMs
    Factor,        \* backoff.factor
    MaxAttempts    \* bound: registrations tried

ASSUME DelayAssumption ==
    /\ InitialDelay \in Nat \ {0} /\ MaxDelay \in Nat /\ Factor \in Nat \ {0}
    /\ InitialDelay <= MaxDelay
ASSUME AttemptsAssumption == MaxAttempts \in Nat \ {0}

VARIABLES
    loop,      \* where runLoop stands
    closed,    \* close() of the uplink has run
    delay,     \* backoffDelay
    attempts,  \* registrations tried so far
    control,   \* the control connection of the current registration
    proved,    \* a challenge was answered: the data key is known
    wire,      \* control messages under way to the daemon
    lost,      \* the far end of the control connection went away silently
    dials,     \* the data dial of each ticket
    callers,   \* the controller at the relay that each ticket brought
    relay      \* the relay process

loopVars == <<loop, closed, delay, attempts>>
vars == <<loopVars, control, proved, wire, lost, dials, callers, relay>>

LoopStates == {"dialing", "registering", "settled", "registered", "backoff",
               "stopped"}

\* A data dial: connecting for a live registration, connecting for one that was
\* torn down, waiting for data-ready, handed to the daemon, over.
DialStates == {"none", "connecting", "orphan", "waiting", "bridged", "over"}

\* A controller at the relay: none yet, waiting for the host's dial, spliced to
\* it, refused by the cell's bridge timer, or gone by itself.
CallerStates == {"none", "waiting", "spliced", "refused", "left"}

Message == [t : {"host-challenge", "host-registered", "close", "drain"}]
             \cup [t : {"conn-open"}, ticket : Tickets]

TypeOK ==
    /\ loop \in LoopStates
    /\ closed \in BOOLEAN
    /\ delay \in InitialDelay..MaxDelay
    /\ attempts \in 0..MaxAttempts
    /\ control \in {"none", "open", "closed"}
    /\ proved \in BOOLEAN
    /\ wire \in Seq(Message)
    /\ lost \in BOOLEAN
    /\ dials \in [Tickets -> DialStates]
    /\ callers \in [Tickets -> CallerStates]
    /\ relay \in {"serving", "draining", "exited"}

Init ==
    /\ loop = "dialing" /\ closed = FALSE
    /\ delay = InitialDelay /\ attempts = 1
    /\ control = "none" /\ proved = FALSE
    /\ wire = <<>> /\ lost = FALSE
    /\ dials = [t \in Tickets |-> "none"]
    /\ callers = [t \in Tickets |-> "none"]
    /\ relay = "serving"

-----------------------------------------------------------------------------
(* The registration loop. *)

\* Mutation: the delay is not capped.
GrowUncapped(d) == d * Factor

\* The delay after the one just slept.
Grow(d) == IF d * Factor > MaxDelay THEN MaxDelay ELSE d * Factor

\* registerOnce has resolved: back off, unless close() has run.
AfterAttempt == loop' = IF closed THEN "stopped" ELSE "backoff"

\* The backoff sleep ends, by itself or woken by close().
Wakes ==
    /\ loop = "backoff"
    /\ closed \/ attempts < MaxAttempts
    /\ delay' = Grow(delay)
    /\ IF closed
       THEN loop' = "stopped" /\ UNCHANGED <<attempts, control>>
       ELSE /\ loop' = "dialing" /\ attempts' = attempts + 1
            /\ control' = "none"
    /\ UNCHANGED <<closed, proved, wire, lost, dials, callers, relay>>

\* options.connect resolves: send host-hello and wait.
Connects ==
    /\ loop = "dialing"
    /\ relay = "serving"
    /\ loop' = "registering"
    /\ control' = "open" /\ proved' = FALSE /\ wire' = <<>> /\ lost' = FALSE
    /\ UNCHANGED <<closed, delay, attempts, dials, callers, relay>>

\* options.connect rejects.
ConnectFails ==
    /\ loop = "dialing"
    /\ AfterAttempt
    /\ UNCHANGED <<closed, delay, attempts, control, proved, wire, lost, dials,
                   callers, relay>>

-----------------------------------------------------------------------------
(* Control messages, in the order they arrive. *)

Arrives(m) == wire # <<>> /\ Head(wire) = m /\ wire' = Tail(wire)

\* host-challenge: prove the host's key, keep the data key.
Challenge ==
    /\ loop = "registering"
    /\ Arrives([t |-> "host-challenge"])
    /\ proved' = TRUE
    /\ UNCHANGED <<loopVars, control, lost, dials, callers, relay>>

\* host-registered: the promise resolves; whoever waits for it runs when the
\* chunk has been read.
Acknowledged ==
    /\ loop = "registering"
    /\ proved
    /\ Arrives([t |-> "host-registered"])
    /\ loop' = "settled"
    /\ UNCHANGED <<closed, delay, attempts, control, proved, lost, dials,
                   callers, relay>>

\* close, or a message that has no place in a registration: it is rejected.
Refused ==
    /\ loop = "registering"
    /\ \/ Arrives([t |-> "close"])
       \/ ~proved /\ Arrives([t |-> "host-registered"])
       \/ \E m \in Message : m.t \in {"conn-open", "drain"} /\ Arrives(m)
    /\ control' = "closed"
    /\ AfterAttempt
    /\ UNCHANGED <<closed, delay, attempts, proved, lost, dials, callers, relay>>

\* A message behind host-registered in its chunk: the registration's handler is
\* done and the one for a registered host is not there yet.
FallsBetween ==
    /\ loop = "settled"
    /\ wire # <<>>
    /\ wire' = Tail(wire)
    /\ lost' = (lost \/ Head(wire).t = "close")
    /\ UNCHANGED <<loopVars, control, proved, dials, callers, relay>>

\* Mutation: the data connections outlive the registration.
TornDownAlone(s) == IF s = "connecting" THEN "orphan" ELSE s

\* What becomes of a dial when its registration is torn down: one that is still
\* connecting finds out when it is through.
TornDown(s) ==
    CASE s = "connecting" -> "orphan"
      [] s \in {"waiting", "bridged"} -> "over"
      [] OTHER -> s

\* teardown, then onClose and with it registerOnce.
Teardown ==
    /\ control' = "closed"
    /\ dials' = [t \in Tickets |-> TornDown(dials[t])]

\* Mutation: a registration that comes after close() is kept.
RegisteredRegardless ==
    /\ loop = "settled"
    /\ loop' = "registered" /\ delay' = InitialDelay
    /\ UNCHANGED <<control, dials>>
    /\ UNCHANGED <<closed, attempts, proved, wire, lost, callers, relay>>

\* The chunk is read and registerHostWithCell returns; if the uplink was closed
\* meanwhile the registration is closed at once.
Registered ==
    /\ loop = "settled"
    /\ IF closed
       THEN loop' = "stopped" /\ Teardown /\ UNCHANGED delay
       ELSE /\ loop' = "registered" /\ delay' = InitialDelay
            /\ UNCHANGED <<control, dials>>
    /\ UNCHANGED <<closed, attempts, proved, wire, lost, callers, relay>>

\* conn-open: dial a data connection (openData).
ConnOpen(t) ==
    /\ loop = "registered"
    /\ Arrives([t |-> "conn-open", ticket |-> t])
    /\ dials' = [dials EXCEPT ![t] = "connecting"]
    /\ UNCHANGED <<loopVars, control, proved, lost, callers, relay>>

\* drain: the uplink passes no onDrain.
DrainMessage ==
    /\ loop = "registered"
    /\ Arrives([t |-> "drain"])
    /\ UNCHANGED <<loopVars, control, proved, lost, dials, callers, relay>>

\* close: the registration is over, and its bridges with it.
ControlCloses ==
    /\ loop = "registered"
    /\ Arrives([t |-> "close"])
    /\ Teardown
    /\ AfterAttempt
    /\ UNCHANGED <<closed, delay, attempts, proved, lost, callers, relay>>

-----------------------------------------------------------------------------
(* Data dials. *)

DialGoes(t, s) ==
    /\ dials' = [dials EXCEPT ![t] = s]
    /\ UNCHANGED <<loopVars, control, proved, wire, lost, callers, relay>>

\* The dial is through: authenticate it, or close it if the registration has
\* gone in the meantime.
DialConnects(t) ==
    /\ relay = "serving"
    /\ \/ dials[t] = "connecting" /\ DialGoes(t, "waiting")
       \/ dials[t] = "orphan" /\ DialGoes(t, "over")

\* The dial fails, or the cell refuses it, or answers something else.
DialFails(t) ==
    /\ dials[t] \in {"connecting", "orphan", "waiting"}
    /\ DialGoes(t, "over")

\* data-ready: switch to raw and hand the duplex to the daemon.  A controller
\* that left by itself is spliced all the same: nobody told the cell.
DataReady(t) ==
    /\ dials[t] = "waiting" /\ callers[t] \in {"spliced", "left"}
    /\ DialGoes(t, "bridged")

\* The daemon closes the bridge it was handed.
BridgeEnds(t) == dials[t] = "bridged" /\ DialGoes(t, "over")

-----------------------------------------------------------------------------
(* The daemon and the relay process. *)

\* close() of the uplink.
UplinkClose ==
    /\ ~closed
    /\ closed' = TRUE
    /\ IF loop = "registered"
       THEN Teardown /\ loop' = "stopped"
       ELSE UNCHANGED <<control, dials, loop>>
    /\ UNCHANGED <<delay, attempts, proved, wire, lost, callers, relay>>

\* The cell speaks: it challenges, it acknowledges a proof or refuses, it asks
\* a registered host for bridges, it drops the host.
Unheard == control = "open" /\ ~lost

CellSends(m) ==
    /\ Unheard
    /\ wire' = Append(wire, m)
    /\ UNCHANGED <<loopVars, control, proved, lost, dials, callers, relay>>

\* The control messages that would follow an acknowledgement already on its way.
Acked == loop \in {"settled", "registered"}
           \/ Contains(wire, [t |-> "host-registered"])
Over == Contains(wire, [t |-> "close"])

CellAnswers ==
    /\ loop = "registering" /\ wire = <<>>
    /\ \/ CellSends([t |-> IF proved THEN "host-registered" ELSE "host-challenge"])
       \/ CellSends([t |-> "close"])

\* A controller presents ticket t: the host is asked to dial.
CellOpens(t) ==
    /\ relay = "serving" /\ Acked /\ ~Over /\ Unheard
    /\ callers[t] = "none"
    /\ callers' = [callers EXCEPT ![t] = "waiting"]
    /\ wire' = Append(wire, [t |-> "conn-open", ticket |-> t])
    /\ UNCHANGED <<loopVars, control, proved, lost, dials, relay>>

CallerGoes(t, s) ==
    /\ callers' = [callers EXCEPT ![t] = s]
    /\ UNCHANGED <<loopVars, control, proved, wire, lost, dials, relay>>

\* The host's dial authenticates: the cell splices the two, data-ready follows.
CellSplices(t) ==
    /\ dials[t] = "waiting" /\ callers[t] = "waiting"
    /\ CallerGoes(t, "spliced")

\* The bridge timer of a controller whose host did not dial.
CellRefuses(t) == callers[t] = "waiting" /\ CallerGoes(t, "refused")

\* The controller closes its end, whenever it likes.
CallerLeaves(t) ==
    /\ callers[t] \in {"waiting", "spliced"}
    /\ CallerGoes(t, "left")

CellDrops == Acked /\ ~Over /\ CellSends([t |-> "close"])

\* The relay's end of the connection is gone without a message: nothing reports
\* it to the daemon.
FarEndLost ==
    /\ Unheard
    /\ lost' = TRUE /\ wire' = <<>>
    /\ UNCHANGED <<loopVars, control, proved, dials, callers, relay>>

\* SIGTERM at the relay: drain the cell and stop listening.
Shutdown ==
    /\ relay = "serving"
    /\ relay' = "draining"
    /\ wire' = IF Unheard /\ Acked /\ ~Over THEN Append(wire, [t |-> "drain"])
                                            ELSE wire
    /\ UNCHANGED <<loopVars, control, proved, lost, dials, callers>>

\* Sockets the relay still has: this daemon's, and those of controllers.  When a
\* host lets go of a bridge the cell does not learn of it (RelayCell,
\* CloseClosesOther): a spliced controller's socket stays until it leaves.
Sockets ==
    \/ Unheard /\ ~Over
    \/ \E t \in Tickets : dials[t] \in {"waiting", "bridged"}
    \/ \E t \in Tickets : callers[t] \in {"waiting", "spliced"}

\* server.close() calls back when every socket has closed, and no sooner: close
\* the cell and exit.
RelayExits ==
    /\ relay = "draining"
    /\ ~Sockets
    /\ relay' = "exited"
    /\ UNCHANGED <<loopVars, control, proved, wire, lost, dials, callers>>

Reads ==
    \/ Challenge \/ Acknowledged \/ Refused \/ FallsBetween
    \/ DrainMessage \/ ControlCloses
    \/ \E t \in Tickets : ConnOpen(t)

Next ==
    \/ Wakes \/ Connects \/ ConnectFails
    \/ Reads \/ Registered
    \/ \E t \in Tickets :
         \/ DialConnects(t) \/ DialFails(t) \/ DataReady(t) \/ BridgeEnds(t)
         \/ CellOpens(t) \/ CellSplices(t) \/ CellRefuses(t) \/ CallerLeaves(t)
    \/ UplinkClose
    \/ CellAnswers \/ CellDrops \/ FarEndLost \/ Shutdown \/ RelayExits

Spec == Init /\ [][Next]_vars

-----------------------------------------------------------------------------
(* Properties. *)

\* No connection outlives its registration: while the uplink backs off, dials
\* or has stopped, no data connection of an earlier registration is open.
NothingOrphaned ==
    loop # "registered" =>
        \A t \in Tickets : dials[t] \notin {"connecting", "waiting", "bridged"}

\* The uplink is quiet: the loop is over and every connection is closed.
Quiet ==
    /\ loop = "stopped" /\ control # "open"
    /\ \A t \in Tickets : dials[t] \in {"none", "over"}

\* relay-uplink.ts on close(): safe mid-dial, mid-registration, mid-backoff and
\* while registered, it leaves no connection behind - unless the cell went away
\* in the middle of a registration, which has no timeout.
UplinkStops == closed ~> (Quiet \/ (lost /\ loop = "registering"))

\* Host and relay that are both shut down, in whatever order, let go of each
\* other: the relay, which waits for its sockets, exits - as long as no spliced
\* controller stays.  One that does keeps the relay up, though its host is gone:
\* server.close() waits for it and cell.close() comes only after.
BothShutDown ==
    (closed /\ relay = "draining") ~>
        (relay = "exited" \/ \E t \in Tickets : callers[t] = "spliced")

\* A shutdown at either end comes to an end (close() of the uplink, the SIGTERM
\* handler of apps/relay).
ShutdownsEnd == UplinkStops /\ BothShutDown
=============================================================================
