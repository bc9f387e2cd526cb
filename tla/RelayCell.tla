------------------------------ MODULE RelayCell ------------------------------
(***************************************************************************)
(* The relay cell of packages/relay-core/src/cell.ts: the process that     *)
(* authenticates hosts on control connections, admits controllers that     *)
(* carry a ticket, and splices a controller and a host data connection     *)
(* into a bridge.                                                          *)
(*                                                                         *)
(* The cell is one JavaScript event loop.  An action is one turn of it     *)
(* that touches the cell's state: a frame dispatched, the code after an    *)
(* `await' resumed, a timer fired, a peer close reported, drain() or       *)
(* close() called.  Whatever can run between two turns can run here        *)
(* between two actions.                                                    *)
(*                                                                         *)
(* Cryptography is modelled by what it establishes.  `peer[c]' is the      *)
(* party at the far end of c: a host, which holds that host's static key,  *)
(* or a Stranger.  Registration on c derives a fresh data-leg key that     *)
(* only the cell and peer[c] hold: the key is named by c itself.  The      *)
(* nonce of a pending bridge is drawn once per admitted controller: it is  *)
(* named by that controller connection.                                    *)
(*                                                                         *)
(* Bytes piped across a bridge change no cell state and are left out, as   *)
(* are the codes of `close' messages.                                      *)
(***************************************************************************)
EXTENDS Integers, Sequences, FiniteSets

CONSTANTS
    Conns,            \* connections that may reach the cell
    Hosts,            \* host ids the authorizer knows
    Tickets,          \* tickets the control plane issued
    TicketHost,       \* the host each ticket is routed to
    Stranger,         \* a party that holds no host key
    Parties,          \* who connects: hosts, and the Stranger
    None,             \* JavaScript's undefined
    MaxUsedTickets,   \* MAX_USED_TICKETS
    ConsumeOnResolve, \* resolveTicket deletes the ticket it returns (GETDEL)
    Monitored,        \* the duplex offers onPeerClose
    CoalescedFrames   \* a peer may put frames behind a refused one in a chunk

ASSUME TicketHostAssumption == TicketHost \in [Tickets -> Hosts]
ASSUME NoneAssumption == None \notin Conns \cup Hosts \cup Tickets
ASSUME StrangerAssumption == Stranger \notin Hosts
ASSUME PartiesAssumption == Parties \subseteq Hosts \cup {Stranger}
ASSUME MaxUsedAssumption == MaxUsedTickets \in Nat
ASSUME SwitchAssumption ==
    /\ ConsumeOnResolve \in BOOLEAN
    /\ Monitored \in BOOLEAN
    /\ CoalescedFrames \in BOOLEAN

VARIABLES
    role,       \* Conn.role, or "unborn" before the connection is accepted
    open,       \* ~ conn.outer.closed
    hostId,     \* Conn.hostId
    challenge,  \* Conn.challenge is set
    keyed,      \* Conn.dataKey is set
    ticket,     \* Conn.ticket
    call,       \* the authorizer call the connection awaits: none, made, or
                \* carried out with its answer on the way back
    arg,        \* the argument of that call
    hosts,      \* #hosts: the control connection of each registered host
    pending,    \* #pending: the controller waiting on each ticket
    timers,     \* armed bridge timers, each with the controller it was set for
    bridges,    \* #bridges
    used,       \* #usedTickets, oldest first
    draining,   \* #draining
    closed,     \* #closed
    peer,       \* who is at the far end of the connection
    gone,       \* connections whose far end has closed, unreported
    offers,     \* conn-open messages sent, with the control they went to
    sent,       \* MACs of data-auths that hosts have put on the clear wire
    consumed,   \* tickets the authorizer has deleted
    turn        \* the connection whose chunk is still being parsed

connVars == <<role, open, hostId, challenge, keyed, ticket>>
callVars == <<call, arg, consumed>>
cellVars == <<hosts, pending, timers, bridges, used>>
modeVars == <<draining, closed>>
envVars  == <<peer, gone, offers, sent, turn>>
vars == <<connVars, callVars, cellVars, modeVars, envVars>>

Roles == {"unborn", "unclassified", "control-pending", "control",
          "controller-data", "host-data"}
Calls == {"idle", "asked", "resolved"}
Bridge == [ticket : Tickets, controller : Conns, host : Conns]
Timer  == [ticket : Tickets, controller : Conns]
\* The data-auth MAC: the key it was made under and what it covers.
Mac    == [key : Conns, ticket : Tickets, nonce : Conns]
Offer  == [control : Conns, ticket : Tickets, nonce : Conns]

TypeOK ==
    /\ role \in [Conns -> Roles]
    /\ open \in [Conns -> BOOLEAN]
    /\ hostId \in [Conns -> Hosts \cup {None}]
    /\ challenge \in [Conns -> BOOLEAN]
    /\ keyed \in [Conns -> BOOLEAN]
    /\ ticket \in [Conns -> Tickets \cup {None}]
    /\ call \in [Conns -> Calls]
    /\ arg \in [Conns -> Hosts \cup Tickets \cup {None}]
    /\ hosts \in [Hosts -> Conns \cup {None}]
    /\ pending \in [Tickets -> Conns \cup {None}]
    /\ timers \subseteq Timer
    /\ bridges \subseteq Bridge
    /\ used \in Seq(Tickets)
    /\ draining \in BOOLEAN
    /\ closed \in BOOLEAN
    /\ peer \in [Conns -> Hosts \cup {Stranger}]
    /\ gone \subseteq Conns
    /\ offers \subseteq Offer
    /\ sent \subseteq Mac
    /\ consumed \subseteq Tickets
    /\ turn \in Conns \cup {None}

Init ==
    /\ role = [c \in Conns |-> "unborn"]
    /\ open = [c \in Conns |-> FALSE]
    /\ hostId = [c \in Conns |-> None]
    /\ challenge = [c \in Conns |-> FALSE]
    /\ keyed = [c \in Conns |-> FALSE]
    /\ ticket = [c \in Conns |-> None]
    /\ call = [c \in Conns |-> "idle"]
    /\ arg = [c \in Conns |-> None]
    /\ hosts = [h \in Hosts |-> None]
    /\ pending = [t \in Tickets |-> None]
    /\ timers = {}
    /\ bridges = {}
    /\ used = << >>
    /\ draining = FALSE
    /\ closed = FALSE
    /\ peer = [c \in Conns |-> Stranger]
    /\ gone = {}
    /\ offers = {}
    /\ sent = {}
    /\ consumed = {}
    /\ turn = None

-----------------------------------------------------------------------------
(* Tearing a connection down. *)

\* conn.bridge, when #bridges still has it.
BridgesOf(c) == {b \in bridges : c \in {b.controller, b.host}}

\* Mutation: #bridges keeps the bridges of a closed connection.
EndsNoBridge(S) == {}

\* The bridges that end with the connections of S.
EndedWith(S) == UNION {BridgesOf(c) : c \in S}

\* The connections that close when those of S do: S and their bridge peers.
ClosedWith(S) == S \cup UNION {{b.controller, b.host} : b \in EndedWith(S)}

\* #cleanup of the connections of S but for #pending, and their close: the
\* registration only while it is still theirs, the bridge with its far end,
\* the data-leg key.
Cleanup(S) ==
    /\ hosts' = [h \in Hosts |->
                   IF \E c \in S : hostId[c] = h /\ hosts[h] = c
                   THEN None ELSE hosts[h]]
    /\ bridges' = bridges \ EndedWith(S)
    /\ open' = [d \in Conns |-> open[d] /\ d \notin ClosedWith(S)]
    /\ keyed' = [d \in Conns |-> keyed[d] /\ d \notin S]

\* #cleanup(c) followed by c.outer.close(): the whole of #detach, and of
\* #refuse but for its `close' message.
Teardown(c) ==
    /\ Cleanup({c})
    /\ pending' = [t \in Tickets |->
                   IF ticket[c] = t /\ pending[t] = c THEN None ELSE pending[t]]
    /\ timers' = {x \in timers :
                   ~ /\ x.ticket = ticket[c]
                     /\ x.controller = c
                     /\ pending[x.ticket] = c}

\* Nothing of what Teardown may change is changed.
NoTeardown == UNCHANGED <<hosts, pending, timers, bridges, open, keyed>>

-----------------------------------------------------------------------------
(* Frames. *)

\* c is not in the raw phase: it has not been spliced.
Framed(c) == BridgesOf(c) = {}

\* A frame of c may be dispatched.  The receive loop tests #closed once per
\* chunk, so the frames behind a refused one are still dispatched.
CanReceive(c) ==
    /\ role[c] # "unborn"
    /\ Framed(c)
    /\ \/ open[c] /\ c \notin gone
       \/ turn = c

\* After a frame of c, the rest of its chunk.
RestOfChunk(c) == turn' = IF CoalescedFrames THEN c ELSE None

\* A frame of c is dispatched, in the role c has when it arrives.
Receives(c, r) ==
    /\ CanReceive(c)
    /\ role[c] = r
    /\ RestOfChunk(c)

\* The await of c resumes: its continuation holds the argument no longer.
CallEnds(c) ==
    /\ call' = [call EXCEPT ![c] = "idle"]
    /\ arg' = [arg EXCEPT ![c] = None]

\* Mutation: nothing is looked at again after an await.
NotLookedAt(c) == TRUE

\* The check after an await: the cell and the connection are still open.
StillLive(c) == ~closed /\ open[c]

\* #accept.  A closed cell closes the duplex and keeps nothing of it.
Accept(c, p) ==
    /\ role[c] = "unborn"
    /\ ~closed
    /\ role' = [role EXCEPT ![c] = "unclassified"]
    /\ open' = [open EXCEPT ![c] = TRUE]
    /\ peer' = [peer EXCEPT ![c] = p]
    /\ turn' = None
    /\ UNCHANGED <<hostId, challenge, keyed, ticket, callVars, cellVars,
                   modeVars, gone, offers, sent>>

\* host-hello: #classify starts #beginRegistration, which calls
\* hostStaticPublicKey and awaits it.
HostHello(c, h) ==
    /\ Receives(c, "unclassified")
    /\ role' = [role EXCEPT ![c] = "control-pending"]
    /\ call' = [call EXCEPT ![c] = "asked"]
    /\ arg' = [arg EXCEPT ![c] = h]
    /\ UNCHANGED <<open, hostId, challenge, keyed, ticket, consumed, cellVars,
                   modeVars, peer, gone, offers, sent>>

\* #beginRegistration after its await: challenge the host the authorizer knows.
RegistrationChallenged(c) ==
    /\ role[c] = "control-pending"
    /\ call[c] = "asked"
    /\ StillLive(c)
    /\ CallEnds(c)
    /\ hostId' = [hostId EXCEPT ![c] = arg[c]]
    /\ challenge' = [challenge EXCEPT ![c] = TRUE]
    /\ turn' = None
    /\ UNCHANGED <<role, open, keyed, ticket, consumed, cellVars, modeVars,
                   peer, gone, offers, sent>>

\* An await of c ends in a refusal.  A negative answer refuses only on an open
\* connection of an open cell; a rejected call reaches #fail in any state.
CallRefused(c) ==
    /\ call[c] # "idle"
    /\ CallEnds(c)
    /\ Teardown(c)
    /\ turn' = None
    /\ UNCHANGED <<role, hostId, challenge, ticket, consumed, used, modeVars,
                   peer, gone, offers, sent>>

\* An await of c ends when the cell or the connection has closed: it returns.
CallTooLate(c) ==
    /\ call[c] # "idle"
    /\ ~StillLive(c)
    /\ CallEnds(c)
    /\ turn' = None
    /\ UNCHANGED <<connVars, consumed, cellVars, modeVars, peer, gone, offers,
                   sent>>

\* The state of #onProof that a proof is checked against is complete.
Challenged(c) == challenge[c] /\ hostId[c] # None

\* #onProof, proof accepted: register c, closing the connection it replaces.
\* Only the holder of the host's static key can answer the challenge.
ProofAccepted(c) ==
    /\ Receives(c, "control-pending")
    /\ Challenged(c)
    /\ peer[c] = hostId[c]
    /\ challenge' = [challenge EXCEPT ![c] = FALSE]
    /\ open' = [d \in Conns |->
                  open[d] /\ ~(d = hosts[hostId[c]] /\ d # c)]
    /\ keyed' = [keyed EXCEPT ![c] = TRUE]
    /\ hosts' = [hosts EXCEPT ![hostId[c]] = c]
    /\ role' = [role EXCEPT ![c] = "control"]
    /\ UNCHANGED <<hostId, ticket, callVars, pending, timers, bridges, used,
                   modeVars, peer, gone, offers, sent>>

\* #onProof, any other frame: a proof before the challenge, a wrong proof, or
\* no proof at all.  The challenge is dropped and the connection refused.
ProofRefused(c) ==
    /\ Receives(c, "control-pending")
    /\ challenge' = [challenge EXCEPT ![c] = FALSE]
    /\ Teardown(c)
    /\ UNCHANGED <<role, hostId, ticket, callVars, used, modeVars, peer, gone,
                   offers, sent>>

\* data-auth from a controller: #beginControllerBridge up to its await.
ControllerAuth(c, t) ==
    /\ Receives(c, "unclassified")
    /\ role' = [role EXCEPT ![c] = "controller-data"]
    /\ \/ /\ draining
          /\ Teardown(c)
          /\ UNCHANGED <<call, arg>>
       \/ /\ ~draining
          /\ call' = [call EXCEPT ![c] = "asked"]
          /\ arg' = [arg EXCEPT ![c] = t]
          /\ NoTeardown
    /\ UNCHANGED <<hostId, challenge, ticket, consumed, used, modeVars, peer,
                   gone, offers, sent>>

\* Mutation: evicts one entry too many.
MarkTicketUsedOffByOne(t) ==
    LET s == Append(used, t) IN
    used' = IF Len(s) >= MaxUsedTickets
            THEN SubSeq(s, Len(s) - MaxUsedTickets + 2, Len(s))
            ELSE s

\* #markTicketUsed: append, then evict the oldest beyond the cap.
MarkTicketUsed(t) ==
    LET s == Append(used, t) IN
    used' = IF Len(s) > MaxUsedTickets
            THEN SubSeq(s, Len(s) - MaxUsedTickets + 1, Len(s))
            ELSE s

TicketUsed(t) == \E i \in 1..Len(used) : used[i] = t

\* #hosts has the host of t.
Online(t) == hosts[TicketHost[t]] # None

\* Mutation: no timer is armed.
ArmsNothing(t, c) == UNCHANGED timers

\* setTimeout of #onBridgeTimeout.
ArmTimer(t, c) == timers' = timers \cup {[ticket |-> t, controller |-> c]}

\* #beginControllerBridge after its await, every check passed: the ticket is
\* marked, the timer armed, the bridge made pending and the host told.  A
\* ticket that has expired by now, was used here before, or whose host is not
\* registered is refused like one that does not resolve: CallRefused.
ControllerAdmitted(c) ==
    LET t == arg[c]
        h == TicketHost[t] IN
    /\ role[c] = "controller-data"
    /\ call[c] = "resolved"
    /\ StillLive(c)
    /\ ~TicketUsed(t)
    /\ Online(t)
    /\ MarkTicketUsed(t)
    /\ CallEnds(c)
    /\ ticket' = [ticket EXCEPT ![c] = t]
    /\ hostId' = [hostId EXCEPT ![c] = h]
    /\ ArmTimer(t, c)
    /\ pending' = [pending EXCEPT ![t] = c]
    /\ offers' = offers \cup {[control |-> hosts[h], ticket |-> t, nonce |-> c]}
    /\ turn' = None
    /\ UNCHANGED <<role, open, challenge, keyed, consumed, hosts, bridges,
                   modeVars, peer, gone, sent>>

\* Mutation: a MAC of any registered host will do.
MacVerifiesAnyKey(t, m) == m.ticket = t /\ m.nonce = pending[t]

\* verifyDataAuthMac under the key of the control registered now.
MacVerifies(t, m) ==
    LET control == hosts[TicketHost[t]] IN
    /\ control # None
    /\ keyed[control]
    /\ m = [key |-> control, ticket |-> t, nonce |-> pending[t]]

\* The MAC over conn-open o under the data-leg key of the registration on k.
MacOver(k, o) == [key |-> k, ticket |-> o.ticket, nonce |-> o.nonce]

\* A host answers the conn-open o with a data-auth.  Its MAC crosses the wire
\* in the clear: from now on whoever captured it can present it as well, even
\* before the host's own dial is handled.
HostSendsAuth(o) ==
    /\ o \in offers
    /\ sent' = sent \cup {MacOver(o.control, o)}
    /\ turn' = None
    /\ UNCHANGED <<connVars, callVars, cellVars, modeVars, peer, gone, offers>>

\* MACs the far end of c can present: those it computes under the keys of its
\* own registrations, over any conn-open (its nonce travels in the clear), and
\* those it captured.
KnownMacs(c) ==
    sent \cup {MacOver(k, o) :
        k \in {d \in Conns : role[d] = "control" /\ peer[d] = peer[c]},
        o \in offers}

\* The pending bridge of t, its timer cleared, is spliced with c.
Splice(t, c) ==
    /\ timers' = timers \ {[ticket |-> t, controller |-> pending[t]]}
    /\ pending' = [pending EXCEPT ![t] = None]
    /\ bridges' = bridges \cup
         {[ticket |-> t, controller |-> pending[t], host |-> c]}

\* data-auth from a host whose MAC verifies: #completeHostDial and #splice.
\* The connection turns raw, so its chunk holds no further frame.
HostDialSpliced(c, t, m) ==
    /\ CanReceive(c)
    /\ role[c] = "unclassified"
    /\ turn' = None
    /\ pending[t] # None
    /\ MacVerifies(t, m)
    /\ role' = [role EXCEPT ![c] = "host-data"]
    /\ ticket' = [ticket EXCEPT ![c] = t]
    /\ hostId' = [hostId EXCEPT ![c] = TicketHost[t]]
    /\ Splice(t, c)
    /\ UNCHANGED <<open, challenge, keyed, callVars, hosts, used, modeVars,
                   peer, gone, offers, sent>>

\* Mutation: a dial that does not authenticate burns the pending bridge too.
HostDialBurns(c) ==
    /\ Receives(c, "unclassified")
    /\ role' = [role EXCEPT ![c] = "host-data"]
    /\ Cleanup({d \in Conns : d = c \/ \E t \in Tickets : pending[t] = d})
    /\ pending' = [t \in Tickets |-> None]
    /\ timers' = {}
    /\ UNCHANGED <<hostId, challenge, ticket, callVars, used, modeVars, peer,
                   gone, offers, sent>>

\* data-auth from a host that names no pending bridge, carries no MAC or one
\* that does not verify: only this connection is refused.
HostDialRefused(c) ==
    /\ Receives(c, "unclassified")
    /\ role' = [role EXCEPT ![c] = "host-data"]
    /\ Teardown(c)
    /\ UNCHANGED <<hostId, challenge, ticket, callVars, used, modeVars, peer,
                   gone, offers, sent>>

\* Every other frame is refused or, for `close' on a control, detached: in
\* #dispatch for the roles that expect none, in #classify for the rest.
OtherFrame(c) ==
    /\ \E r \in {"unclassified", "control", "controller-data", "host-data"} :
          Receives(c, r)
    /\ Teardown(c)
    /\ UNCHANGED <<role, hostId, challenge, ticket, callVars, used, modeVars,
                   peer, gone, offers, sent>>

\* A frame too long or that does not decode: #fail, and the loop ends.
FrameError(c) ==
    /\ CanReceive(c)
    /\ turn' = None
    /\ Teardown(c)
    /\ UNCHANGED <<role, hostId, challenge, ticket, callVars, used, modeVars,
                   peer, gone, offers, sent>>

-----------------------------------------------------------------------------
(* Timers, peer closes, and the operator. *)

\* A bridge timer fires: #onBridgeTimeout looks the ticket up again and
\* refuses the controller it finds, if any.
BridgeTimeout(x) ==
    /\ x \in timers
    /\ Cleanup({c \in Conns : pending[x.ticket] = c})
    /\ pending' = [pending EXCEPT ![x.ticket] = None]
    /\ timers' = timers \ {x}
    /\ turn' = None
    /\ UNCHANGED <<role, hostId, challenge, ticket, callVars, used, modeVars,
                   peer, gone, offers, sent>>

\* The far end of c closes its end.  Over a duplex that reports it this is
\* #onPeerClose; otherwise the cell learns nothing.
PeerCloses(c) ==
    /\ open[c] /\ c \notin gone
    /\ turn' = None
    /\ \/ Monitored /\ Teardown(c) /\ UNCHANGED gone
       \/ ~Monitored /\ gone' = gone \cup {c} /\ NoTeardown
    /\ UNCHANGED <<role, hostId, challenge, ticket, callVars, used, modeVars,
                   peer, offers, sent>>

\* drain().  The `drain' message it sends changes nothing in the cell.
Drain ==
    /\ ~closed /\ ~draining
    /\ draining' = TRUE
    /\ turn' = None
    /\ UNCHANGED <<connVars, callVars, cellVars, closed, peer, gone, offers,
                   sent>>

\* Connections close() reaches: through #pending, #bridges and #hosts.
Reached == {pending[t] : t \in Tickets}
             \cup UNION {{b.controller, b.host} : b \in bridges}
             \cup {hosts[h] : h \in Hosts}

\* close().
Close ==
    /\ ~closed
    /\ closed' = TRUE
    /\ open' = [c \in Conns |-> open[c] /\ c \notin Reached]
    /\ timers' = {x \in timers : pending[x.ticket] # x.controller}
    /\ pending' = [t \in Tickets |-> None]
    /\ bridges' = {}
    /\ hosts' = [h \in Hosts |-> None]
    /\ turn' = None
    /\ UNCHANGED <<role, hostId, challenge, keyed, ticket, callVars, used,
                   draining, peer, gone, offers, sent>>

-----------------------------------------------------------------------------
(* The authorizer (external): the RelayAuthorizer the cell is built with. *)

\* resolveTicket is carried out: the record is read, and deleted if the
\* authorizer's tickets are one-time.  The answer can still be lost.
TicketResolved(c) ==
    /\ role[c] = "controller-data"
    /\ call[c] = "asked"
    /\ arg[c] \notin consumed
    /\ call' = [call EXCEPT ![c] = "resolved"]
    /\ consumed' = IF ConsumeOnResolve THEN consumed \cup {arg[c]} ELSE consumed
    /\ turn' = None
    /\ UNCHANGED <<connVars, arg, cellVars, modeVars, peer, gone, offers,
                   sent>>

-----------------------------------------------------------------------------
\* A turn of the event loop on behalf of connection c: a frame of it, the end
\* of its await, or the close of its far end.
ConnStep(c) ==
    \/ \E p \in Parties : Accept(c, p)
    \/ \E h \in Hosts : HostHello(c, h)
    \/ RegistrationChallenged(c)
    \/ CallRefused(c)
    \/ CallTooLate(c)
    \/ ProofAccepted(c)
    \/ ProofRefused(c)
    \/ \E t \in Tickets : ControllerAuth(c, t)
    \/ TicketResolved(c)
    \/ ControllerAdmitted(c)
    \/ \E t \in Tickets : \E m \in KnownMacs(c) : HostDialSpliced(c, t, m)
    \/ HostDialRefused(c)
    \/ OtherFrame(c)
    \/ FrameError(c)
    \/ PeerCloses(c)

Next ==
    \/ \E c \in Conns : ConnStep(c)
    \/ \E o \in offers : HostSendsAuth(o)
    \/ \E x \in timers : BridgeTimeout(x)
    \/ Drain
    \/ Close

Spec == Init /\ [][Next]_vars

\* The event loop runs what is ready: answered awaits and due timers.
\* A fetch to the control plane ends: the runtime gives up on one
\* that stays silent, and the HTTP authorizer turns that into a refusal.
Fairness ==
    /\ \A c \in Conns :
         WF_vars(RegistrationChallenged(c) \/ ControllerAdmitted(c)
                   \/ CallRefused(c) \/ CallTooLate(c))
    /\ \A x \in Timer : WF_vars(BridgeTimeout(x))

FairSpec == Spec /\ Fairness

-----------------------------------------------------------------------------
(* Safety. *)

\* A connection the cell still routes by - a registered control, a waiting
\* controller, the controller end of a bridge - is open and plays that role:
\* whatever closes a connection has also taken it out of every structure.
RoutedConnsLive ==
    /\ \A h \in Hosts : hosts[h] # None =>
         /\ open[hosts[h]] /\ role[hosts[h]] = "control"
         /\ hostId[hosts[h]] = h /\ keyed[hosts[h]]
    /\ \A t \in Tickets : pending[t] # None =>
         /\ open[pending[t]] /\ role[pending[t]] = "controller-data"
         /\ ticket[pending[t]] = t
    /\ \A b \in bridges :
         /\ open[b.controller] /\ role[b.controller] = "controller-data"
         /\ role[b.host] = "host-data"
         /\ ticket[b.controller] = b.ticket /\ ticket[b.host] = b.ticket

\* Every bridge the cell counts as active (cell.ts activeBridges: spliced,
\* piping bytes) has two open ends.
BridgesPipe == \A b \in bridges : open[b.controller] /\ open[b.host]

\* A connection is in at most one place: one bridge, and no bridge while it
\* waits.  Bytes of one controller never reach two hosts, or one host two
\* controllers.
NoSharedEnds ==
    /\ \A a, b \in bridges :
         {a.controller, a.host} \cap {b.controller, b.host} # {} => a = b
    /\ \A t \in Tickets : pending[t] # None => BridgesOf(pending[t]) = {}

\* Whoever is at the host end of a bridge is the host its ticket names, or
\* presents the data-auth that this host itself sent for this very controller
\* (the replay relay-core's README concedes): to have seen the conn-open, to be
\* another host, or to hold an answer to another bridge is never enough, across
\* replaced registrations, late dials and re-registrations.
BridgedToTicketHost ==
    \A b \in bridges :
        \/ peer[b.host] = TicketHost[b.ticket]
        \/ \E m \in sent : /\ peer[m.key] = TicketHost[b.ticket]
                           /\ m.ticket = b.ticket /\ m.nonce = b.controller

\* A ticket admits at most one controller, however many present it and however
\* their authorizer calls overlap: as long as the authorizer deletes what it
\* resolves or the used set has room for every ticket.  A ticket evicted at the
\* set's cap would be admitted again.
TicketSingleUse ==
    \A c, d \in Conns :
        /\ role[c] = "controller-data" /\ role[d] = "controller-data"
        /\ ticket[c] # None /\ ticket[c] = ticket[d]
        => c = d

\* The armed timers are those of the pending bridges: none is left to fire on
\* a later bridge, and no bridge waits without one.
TimersMatchPending ==
    timers = {[ticket |-> t, controller |-> pending[t]] :
                t \in {u \in Tickets : pending[u] # None}}

\* The cell's structures agree with the connections and with each other, across
\* everything that may happen between a handler's awaits.
RoutingConsistent == RoutedConnsLive /\ NoSharedEnds /\ TimersMatchPending

\* After close() no bridge, pending bridge or timer exists or appears again,
\* though authorizer calls were in flight when it ran.
CloseIsFinal ==
    closed => /\ bridges = {} /\ timers = {}
              /\ \A t \in Tickets : pending[t] = None

\* cell.ts on close(): the whole cell is torn down, every control connection
\* included.
CloseDropsControls == closed => \A h \in Hosts : hosts[h] = None

-----------------------------------------------------------------------------
(* Action properties. *)

\* A bridge ends only when one of its own ends does, by that end's step or by
\* close(), and then with both ends closed: drain() and every other
\* connection's failures leave it flowing.
BridgeEndsByItsEnds ==
    [][\A b \in bridges \ bridges' :
          /\ ~open'[b.controller] /\ ~open'[b.host]
          /\ Close \/ \E c \in {b.controller, b.host} : ConnStep(c)]_vars

\* A pending bridge goes only by being spliced, by a step of the controller
\* that waits, by its own timer, or by close(): a dial that fails to
\* authenticate, another ticket's timer, a replaced registration or drain()
\* never costs the genuine host its bridge.
PendingGoesByItsOwn ==
    [][\A t \in Tickets : pending[t] # None /\ pending'[t] # pending[t] =>
          \/ \E c \in Conns : \E m \in KnownMacs(c) : HostDialSpliced(c, t, m)
          \/ ConnStep(pending[t])
          \/ BridgeTimeout([ticket |-> t, controller |-> pending[t]])
          \/ Close]_vars

\* What is joined, or waits to be, is undone by nobody else's step.
BridgesUndisturbed == BridgeEndsByItsEnds /\ PendingGoesByItsOwn

-----------------------------------------------------------------------------
(* The rendezvous the cell implements. *)

\* The connections that took ticket t in role r.
Took(t, r) == {c \in Conns : role[c] = r /\ ticket[c] = t}
TheOne(S) == IF S = {} THEN None ELSE CHOOSE c \in S : TRUE

Meeting == INSTANCE TicketRendezvous WITH
    stage <- [t \in Tickets |->
                IF pending[t] # None THEN "waiting"
                ELSE IF \E b \in bridges : b.ticket = t THEN "joined"
                ELSE IF Took(t, "controller-data") # {} THEN "over"
                ELSE "unused"],
    controller <- [t \in Tickets |-> TheOne(Took(t, "controller-data"))],
    host <- [t \in Tickets |-> TheOne(Took(t, "host-data"))]

\* The cell implements the rendezvous: per ticket one controller, joined with
\* at most one dial, never reopened - under every interleaving of frames,
\* authorizer answers, timeouts, drops, drain() and close().
ImplementsRendezvous == Meeting!RSpec

-----------------------------------------------------------------------------
(* Liveness. *)

\* Every controller that presented a ticket is bridged or dropped, unless the
\* cell itself is closed meanwhile.
ControllerSettles ==
    \A c \in Conns :
        role[c] = "controller-data" ~>
            (BridgesOf(c) # {} \/ ~open[c] \/ closed)

\* README of relay-core: a close of either side closes the other.
CloseClosesOther ==
    \A c \in Conns :
        (\E b \in bridges : c \in {b.controller, b.host} /\ c \in gone)
            ~> (BridgesOf(c) = {})
=============================================================================
