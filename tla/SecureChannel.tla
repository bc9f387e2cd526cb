--------------------------- MODULE SecureChannel ---------------------------
(***************************************************************************)
(* The end-to-end channel of packages/channel: an ephemeral exchanged each *)
(* way, session keys derived from both ephemerals, the host's static key   *)
(* and the bound context, then numbered records under those keys.          *)
(*                                                                         *)
(* The transport between the ends belongs to somebody else (a relay): it   *)
(* may drop, repeat, swap or garble what it carries.  Bytes are abstracted *)
(* to units, an ephemeral or a record; a unit read at the wrong place is   *)
(* misframed, which is either noticed at once or swallows what follows.    *)
(* A cipher is its key: a record opens under the key and number it was     *)
(* sealed with, and under no other.                                        *)
(***************************************************************************)
EXTENDS Integers, Sequences

CONSTANTS
    Bodies,     \* frame contents
    MaxSent,    \* bound: records sealed in one direction
    MaxFaults   \* bound: faults of the transport

ASSUME ChannelAssumption == MaxSent \in Nat /\ MaxFaults \in Nat

Ends == {"initiator", "responder"}
Peer(e) == IF e = "initiator" THEN "responder" ELSE "initiator"

\* Ephemeral public keys, and what a garbled one turns into.
Ephemerals == {"eI", "eR", "garbled"}
Own(e) == IF e = "initiator" THEN "eI" ELSE "eR"

VARIABLES
    static,    \* the host's static key, as each end has it
    context,   \* the context each end binds
    state,     \* handshaking, open, closed
    seen,      \* the peer's ephemeral, once consumed
    authed,    \* #authenticated
    wedged,    \* misframed: swallowing what arrives
    begun,     \* the initiator's deferred first message has been sent
    sent,      \* bodies sealed by each end; its length is the Sealer's counter
    got,       \* bodies delivered to each end; its length is the Opener's
    wire,      \* units under way to each end
    faults     \* faults so far

config == <<static, context>>
chanVars == <<config, state, seen, authed, wedged, begun, sent, got, wire,
              faults>>

Keys == [i : Ephemerals, r : Ephemerals, s : {"host", "other"},
         c : {"bound", "unbound"}]
Unit == [t : {"ephemeral"}, e : Ephemerals]
          \cup [t : {"record"}, k : Keys, from : Ends, n : Nat, body : Bodies]
          \cup {[t |-> "garbled"]}

ChannelTypeOK ==
    /\ static \in [Ends -> {"host", "other"}]
    /\ context \in [Ends -> {"bound", "unbound"}]
    /\ state \in [Ends -> {"handshaking", "open", "closed"}]
    /\ seen \in [Ends -> Ephemerals \cup {"none"}]
    /\ authed \in [Ends -> BOOLEAN]
    /\ wedged \in [Ends -> BOOLEAN]
    /\ begun \in BOOLEAN
    /\ sent \in [Ends -> Seq(Bodies)] /\ got \in [Ends -> Seq(Bodies)]
    /\ \A e \in Ends : wire[e] \in Seq(Unit)
    /\ faults \in 0..MaxFaults

\* The responder holds the host's key; what the initiator pinned may be
\* another's, and the contexts may differ (a cross-wired bridge).
ChannelInit ==
    /\ static \in {f \in [Ends -> {"host", "other"}] : f["responder"] = "host"}
    /\ context \in {f \in [Ends -> {"bound", "unbound"}] :
                      f["responder"] = "bound"}
    /\ state = [e \in Ends |-> "handshaking"]
    /\ seen = [e \in Ends |-> "none"]
    /\ authed = [e \in Ends |-> FALSE] /\ wedged = [e \in Ends |-> FALSE]
    /\ begun = FALSE
    /\ sent = [e \in Ends |-> <<>>] /\ got = [e \in Ends |-> <<>>]
    /\ wire = [e \in Ends |-> <<>>]
    /\ faults = 0

-----------------------------------------------------------------------------
(* Keys and records. *)

\* deriveSessionKeys, as end e computes them.
SessionKeys(e) ==
    [i |-> IF e = "initiator" THEN Own(e) ELSE seen[e],
     r |-> IF e = "initiator" THEN seen[e] ELSE Own(e),
     s |-> static[e], c |-> context[e]]

\* Mutation: the record carries the number used last.
SealedWithLast(e, body) ==
    [t |-> "record", k |-> SessionKeys(e), from |-> e, n |-> Len(sent[e]) - 1,
     body |-> body]

\* Sealer.seal.
Sealed(e, body) ==
    [t |-> "record", k |-> SessionKeys(e), from |-> e, n |-> Len(sent[e]),
     body |-> body]

\* Mutation: any record of the session opens, whatever its number.
OpensAnyNumber(e, u) ==
    u.t = "record" /\ u.k = SessionKeys(e) /\ u.from = Peer(e)

\* Opener.open succeeds: the key of that direction, the number expected next.
Opens(e, u) ==
    /\ u.t = "record" /\ u.k = SessionKeys(e) /\ u.from = Peer(e)
    /\ u.n = Len(got[e])

-----------------------------------------------------------------------------
(* The ends. *)

Put(e, u) == wire' = [wire EXCEPT ![e] = Append(@, u)]

\* The initiator's message, deferred so that handlers can be registered.
Begins ==
    /\ ~begun
    /\ begun' = TRUE
    /\ IF state["initiator"] = "handshaking"
       THEN Put("responder", [t |-> "ephemeral", e |-> "eI"])
       ELSE UNCHANGED wire
    /\ UNCHANGED <<config, state, seen, authed, wedged, sent, got, faults>>

\* Mutation: an initiator that has not heard from its peer sends at will.
MaySendUngated(e) == state[e] = "open"

\* send() does not throw: the channel is open, and an initiator has used its
\* one record before authentication at most once.
MaySend(e) ==
    /\ state[e] = "open"
    /\ e = "initiator" /\ ~authed[e] => Len(sent[e]) < 1

Send(e, body) ==
    /\ MaySend(e)
    /\ Len(sent[e]) < MaxSent
    /\ sent' = [sent EXCEPT ![e] = Append(@, body)]
    /\ Put(Peer(e), Sealed(e, body))
    /\ UNCHANGED <<config, state, seen, authed, wedged, begun, got, faults>>

\* #shutdown: once, and for good.  The peer is not told.
Shutdown(e) == state' = [state EXCEPT ![e] = "closed"]

Close(e) ==
    /\ state[e] # "closed"
    /\ Shutdown(e)
    /\ UNCHANGED <<config, seen, authed, wedged, begun, sent, got, wire, faults>>

Arrives(e, u) == wire[e] # <<>> /\ u = Head(wire[e])
Taken(e) == [wire EXCEPT ![e] = Tail(@)]

\* Mutation: the responder never answers.
HandshakesSilently(e, u) ==
    /\ state[e] = "handshaking" /\ Arrives(e, u)
    /\ u.t = "ephemeral"
    /\ seen' = [seen EXCEPT ![e] = u.e]
    /\ state' = [state EXCEPT ![e] = "open"]
    /\ wire' = Taken(e)
    /\ UNCHANGED <<config, authed, wedged, begun, sent, got, faults>>

\* completeHandshake: the first bytes to arrive are the peer's ephemeral.  The
\* responder answers with its own.
Handshakes(e, u) ==
    /\ state[e] = "handshaking" /\ Arrives(e, u)
    /\ u.t = "ephemeral"
    /\ seen' = [seen EXCEPT ![e] = u.e]
    /\ state' = [state EXCEPT ![e] = "open"]
    /\ wire' = IF e = "responder"
               THEN [Taken(e) EXCEPT ![Peer(e)] =
                       Append(@, [t |-> "ephemeral", e |-> "eR"])]
               ELSE Taken(e)
    /\ UNCHANGED <<config, authed, wedged, begun, sent, got, faults>>

\* Bytes of something else in the handshake's place: an invalid key, which is
\* fatal, or keys nobody shares and a stream misframed from there on.
Misreads(e, u) ==
    /\ state[e] = "handshaking" /\ Arrives(e, u)
    /\ u.t # "ephemeral"
    /\ \/ Shutdown(e) /\ UNCHANGED <<seen, wedged>>
          /\ wire' = Taken(e)
       \/ /\ seen' = [seen EXCEPT ![e] = "garbled"]
          /\ state' = [state EXCEPT ![e] = "open"]
          /\ wedged' = [wedged EXCEPT ![e] = TRUE]
          /\ wire' = IF e = "responder"
                     THEN [Taken(e) EXCEPT ![Peer(e)] =
                             Append(@, [t |-> "ephemeral", e |-> "eR"])]
                     ELSE Taken(e)
    /\ UNCHANGED <<config, authed, begun, sent, got, faults>>

\* A record opens: the first one proves the peer.  The frame is handed over,
\* and what its handler throws is not the channel's concern.
Delivers(e, u) ==
    /\ state[e] = "open" /\ ~wedged[e] /\ Arrives(e, u)
    /\ Opens(e, u)
    /\ authed' = [authed EXCEPT ![e] = TRUE]
    /\ got' = [got EXCEPT ![e] = Append(@, u.body)]
    /\ wire' = Taken(e)
    /\ UNCHANGED <<config, state, seen, wedged, begun, sent, faults>>

\* A record that does not open is fatal (DecryptError, ReplayError).
Rejects(e, u) ==
    /\ state[e] = "open" /\ ~wedged[e] /\ Arrives(e, u)
    /\ u.t = "record" /\ ~Opens(e, u)
    /\ Shutdown(e)
    /\ wire' = Taken(e)
    /\ UNCHANGED <<config, seen, authed, wedged, begun, sent, got, faults>>

\* Bytes that are no record, read as one: a length over the cap is fatal, any
\* other is waited for.
Misframes(e, u) ==
    /\ state[e] = "open" /\ Arrives(e, u)
    /\ wedged[e] \/ u.t # "record"
    /\ \/ Shutdown(e) /\ UNCHANGED wedged
       \/ wedged' = [wedged EXCEPT ![e] = TRUE] /\ UNCHANGED state
    /\ wire' = Taken(e)
    /\ UNCHANGED <<config, seen, authed, begun, sent, got, faults>>

\* #receive after the end has closed.
Ignores(e, u) ==
    /\ state[e] = "closed" /\ Arrives(e, u)
    /\ wire' = Taken(e)
    /\ UNCHANGED <<config, state, seen, authed, wedged, begun, sent, got, faults>>

Receive(e) ==
    \E u \in {wire[e][i] : i \in 1..Len(wire[e])} :
        \/ Handshakes(e, u) \/ Misreads(e, u) \/ Delivers(e, u)
        \/ Rejects(e, u) \/ Misframes(e, u) \/ Ignores(e, u)

-----------------------------------------------------------------------------
(* The transport's faults, at the head of what it carries. *)

Tampered(e) ==
    LET w == wire[e]
    IN  {Tail(w), <<Head(w)>> \o w, <<[t |-> "garbled"]>> \o Tail(w)}
          \cup (IF Head(w).t = "ephemeral"
                THEN {<<[t |-> "ephemeral", e |-> "garbled"]>> \o Tail(w)}
                ELSE {})
          \cup (IF Len(w) > 1
                THEN {<<w[2], w[1]>> \o SubSeq(w, 3, Len(w))} ELSE {})

Tamper(e) ==
    /\ wire[e] # <<>>
    /\ faults < MaxFaults
    /\ faults' = faults + 1
    /\ wire' \in {[wire EXCEPT ![e] = w] : w \in Tampered(e)}
    /\ UNCHANGED <<config, state, seen, authed, wedged, begun, sent, got>>

ChannelNext ==
    \/ Begins
    \/ \E e \in Ends :
         Receive(e) \/ Close(e) \/ Tamper(e) \/ \E b \in Bodies : Send(e, b)

ChannelSpec == ChannelInit /\ [][ChannelNext]_chanVars

-----------------------------------------------------------------------------

\* Each direction is an authenticated FIFO stream: whatever the transport
\* drops, repeats, swaps or garbles, an end is given what its peer sealed, in
\* order and without gaps, or nothing.  (record.ts: "the channel never silently
\* skips a record".)
Fifo == INSTANCE FifoStream
          WITH Dirs <- Ends, got <- [e \in Ends |-> got[Peer(e)]]
ImplementsFifoStream == Fifo!Spec

Matched == static["initiator"] = "host" /\ context["initiator"] = "bound"

\* Ends that disagree on the host's key or on the context never exchange a
\* frame, and neither takes the other for proven.  (channel.ts: "peers with
\* mismatched context derive different keys".)
MismatchedStaySilent ==
    ~Matched => \A e \in Ends : got[e] = <<>> /\ ~authed[e]

\* An initiator seals more than its opening record only towards a peer that
\* holds the very same keys.  (channel.ts: "application traffic cannot be
\* emitted toward an unproven peer by construction".)
OnlyToProvenPeer ==
    Len(sent["initiator"]) > 1 =>
        /\ Matched
        /\ seen["initiator"] = "eR" /\ seen["responder"] = "eI"

\* Faults on the path, a wrong pin or another context bring about silence between the
\* ends, never traffic under keys they do not share.  A party on the path that takes
\* part in the handshake with an ephemeral of its own is not modelled.
ChannelSafe == MismatchedStaySilent /\ OnlyToProvenPeer

Undisturbed == Matched /\ faults = 0 /\ \A e \in Ends : state[e] # "closed"

\* Where nothing interferes, everything sealed arrives.
EverythingArrives ==
    \A e \in Ends : []<>(Undisturbed => got[Peer(e)] = sent[e])
=============================================================================
