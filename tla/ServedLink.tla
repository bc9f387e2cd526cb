----------------------------- MODULE ServedLink -----------------------------
(***************************************************************************)
(* One connection between an SDK controller and the host that serves it:   *)
(* the capability handshake, the device gate and its buffer, the dispatch  *)
(* of requests, and the controller's bookkeeping of calls and streams      *)
(* (packages/host/src/serve/serve-connection.ts, packages/sdk/src).        *)
(*                                                                         *)
(* Below lies the stream SecureChannel implements: what arrives is what    *)
(* was sent, in order.  A close of one end is not reported to the other    *)
(* (the Duplex of the Node transport has no such event) and may cut off    *)
(* what the closing end still had under way.                               *)
(***************************************************************************)
EXTENDS Integers, Sequences, SequencesExt

CONSTANTS
    MaxCalls,   \* bound: calls made on the controller
    MaxFrames,  \* bound: frames the session emits
    MaxHeld     \* MAX_FRAMES_WHILE_VERIFYING

ASSUME LinkAssumption == {MaxCalls, MaxFrames, MaxHeld} \subseteq Nat

VARIABLES
    \* what the two ends bring along
    peer,      \* the controller: current, incompatible or legacy (no Hello)
    gate,      \* the device gate: open, or admitting or refusing this device
    served, asked,  \* capabilities of the host and of the controller
    known,     \* the session is in the registry
    \* the host
    phase,     \* awaiting-hello, verifying, serving, dead
    caps,      \* negotiated
    held,      \* bufferedWhileVerifying: calls in order of arrival
    sink,      \* the subscription on the session: the call that made it, or 0
    running,   \* calls whose hook has not settled yet
    hostUp,    \* the host's channel is open
    \* the controller
    shake,     \* opening, awaiting (HelloAck), negotiated, failed
    ctlUp,     \* the controller's channel is open
    calls,     \* calls made: their method, state and the stream they concern
    tracked,   \* #streamsById / #subsByRef: the call that made the stream, or 0
    ended,     \* streams that have ended, by the call that made them
    \* between and beyond
    toHost, toCtl,  \* frames under way
    ran,       \* calls dispatched, in order (history)
    frames     \* frames emitted so far; past the bound once the session is over

linkConfig == <<peer, gate, served, asked, known>>
hostVars == <<phase, caps, held, sink, running, hostUp>>
ctlVars == <<shake, ctlUp, calls, tracked, ended>>
linkVars == <<linkConfig, hostVars, ctlVars, toHost, toCtl, ran, frames>>

Methods == {"subscribe", "unsubscribe", "input", "claim"}
Capabilities == {"pty", "input"}

\* METHOD_CAPABILITY: methods absent from it need none.
requiredCapability(method) ==
    CASE method = "subscribe" -> {"pty"}
      [] method = "input" -> {"input"}
      [] OTHER -> {}

Ids == 1..MaxCalls
Made == 1..Len(calls)
Open(c) == c \in Made /\ calls[c].st \in {"gated", "sent"}

Response == [t : {"response"}, id : Ids, ok : BOOLEAN]
Binary == [t : {"binary"}, id : Ids, last : BOOLEAN]

LinkTypeOK ==
    /\ peer \in {"current", "incompatible", "legacy"}
    /\ gate \in {"none", "admits", "refuses"}
    /\ served \in SUBSET Capabilities /\ asked \in SUBSET Capabilities
    /\ known \in BOOLEAN
    /\ phase \in {"awaiting-hello", "verifying", "serving", "dead"}
    /\ caps \in SUBSET Capabilities
    /\ held \in Seq(Ids) /\ Len(held) <= MaxHeld
    /\ sink \in Ids \cup {0} /\ running \in SUBSET Ids /\ hostUp \in BOOLEAN
    /\ shake \in {"opening", "awaiting", "negotiated", "failed"}
    /\ ctlUp \in BOOLEAN
    /\ calls \in Seq([m : Methods, st : {"gated", "sent", "ok", "failed"},
                      on : Ids \cup {0}])
    /\ tracked \in Ids \cup {0} /\ ended \in SUBSET Ids
    /\ toHost \in Seq({0} \cup Ids)
    /\ toCtl \in Seq({[t |-> "ack"]} \cup Response \cup Binary)
    /\ ran \in Seq(Ids) /\ frames \in 0..(MaxFrames + 1)

LinkInit ==
    /\ peer \in {"current", "incompatible", "legacy"}
    /\ gate \in {"none", "admits", "refuses"}
    /\ served \in {{"pty"}, Capabilities} /\ asked \in {{"input"}, Capabilities}
    /\ known \in BOOLEAN
    /\ phase = "awaiting-hello" /\ caps = {} /\ held = <<>> /\ sink = 0
    /\ running = {} /\ hostUp = TRUE
    /\ shake = "opening" /\ ctlUp = TRUE /\ calls = <<>> /\ tracked = 0
    /\ ended = {}
    /\ toHost = <<>> /\ toCtl = <<>> /\ ran = <<>> /\ frames = 0

-----------------------------------------------------------------------------
(* The controller. *)

\* The Hello is frame 0; a request is the number of its call.
\* #negotiate up to its await.  A legacy controller knows no handshake.
Greets ==
    /\ shake = "opening" /\ ctlUp
    /\ IF peer = "legacy"
       THEN shake' = "negotiated" /\ UNCHANGED toHost
       ELSE shake' = "awaiting" /\ toHost' = Append(toHost, 0)
    /\ UNCHANGED <<linkConfig, hostVars, ctlUp, calls, tracked, ended, toCtl, ran,
                   frames>>

\* Callers wait for one operation on a session before the next (the terminal
\* client subscribes once and never unsubscribes).
Settled == \A c \in Made : calls[c].m \in {"input", "claim"} \/ ~Open(c)

\* A public method of the controller up to its first await.  unsubscribe drops
\* the stream at once, and does nothing where there is none.
Calls(m) ==
    /\ ctlUp /\ Len(calls) < MaxCalls
    /\ m \in {"subscribe", "unsubscribe"} => Settled
    /\ m = "unsubscribe" => tracked # 0
    /\ calls' = Append(calls,
                       [m |-> m, st |-> IF shake = "failed" THEN "failed" ELSE "gated",
                        on |-> IF m = "unsubscribe" THEN tracked ELSE 0])
    /\ tracked' = IF m = "unsubscribe" THEN 0 ELSE tracked
    /\ UNCHANGED <<linkConfig, hostVars, shake, ctlUp, ended, toHost, toCtl, ran,
                   frames>>

\* What #send checks once negotiation has settled.
MayRequest(c) == requiredCapability(calls[c].m) \subseteq served \cap asked

\* #send past its await, in the order the calls were made.
Requests(c) ==
    /\ ctlUp /\ shake = "negotiated" /\ c \in Made /\ calls[c].st = "gated"
    /\ \A d \in 1..(c - 1) : calls[d].st # "gated"
    /\ IF MayRequest(c)
       THEN calls' = [calls EXCEPT ![c].st = "sent"] /\ toHost' = Append(toHost, c)
       ELSE calls' = [calls EXCEPT ![c].st = "failed"] /\ UNCHANGED toHost
    /\ UNCHANGED <<linkConfig, hostVars, shake, ctlUp, tracked, ended, toCtl, ran,
                   frames>>

\* Every call not settled is rejected, and with it the stream its unsubscribe
\* was to end.
Rejected(cs) == [c \in DOMAIN cs |->
                   IF cs[c].st \in {"gated", "sent"} THEN [cs[c] EXCEPT !.st = "failed"]
                   ELSE cs[c]]
StreamsOf(cs) == {cs[c].on : c \in {d \in DOMAIN cs : cs[d].m = "unsubscribe"}}

Cut(s) == {SubSeq(s, 1, k) : k \in 0..Len(s)}

\* #onClose, and what the closing socket takes with it.
CtlCloses ==
    /\ ctlUp' = FALSE
    /\ shake' = IF shake \in {"opening", "awaiting"} THEN "failed" ELSE shake
    /\ calls' = Rejected(calls)
    /\ ended' = ended \cup ({tracked} \ {0}) \cup StreamsOf(calls)
    /\ tracked' = 0
    /\ toHost' \in Cut(toHost)

ControllerCloses ==
    /\ ctlUp /\ CtlCloses
    /\ UNCHANGED <<linkConfig, hostVars, toCtl, ran, frames>>

\* The negotiation window closes without a HelloAck.
AckTimesOut ==
    /\ ctlUp /\ shake = "awaiting"
    /\ CtlCloses
    /\ UNCHANGED <<linkConfig, hostVars, toCtl, ran, frames>>

\* #handleHelloAck and the rest of #negotiate.
TakesAck ==
    /\ ctlUp /\ shake = "awaiting" /\ toCtl # <<>> /\ Head(toCtl).t = "ack"
    /\ IF peer = "incompatible"
       THEN shake' = "failed" /\ calls' = Rejected(calls)
       ELSE shake' = "negotiated" /\ UNCHANGED calls
    /\ toCtl' = Tail(toCtl)
    /\ UNCHANGED <<linkConfig, hostVars, ctlUp, tracked, ended, toHost, ran, frames>>

\* #onControl: the answer settles its call.  A subscribe registers its stream
\* before anything else is read; an unsubscribe ends its own either way.
TakesResponse ==
    /\ ctlUp /\ shake # "awaiting" /\ toCtl # <<>> /\ Head(toCtl).t = "response"
    /\ LET r == Head(toCtl)  c == r.id
       IN  /\ calls' = [calls EXCEPT ![c].st = IF r.ok THEN "ok" ELSE "failed"]
           /\ tracked' = IF calls[c].m = "subscribe" /\ r.ok THEN c ELSE tracked
           /\ ended' = IF calls[c].m = "unsubscribe" THEN ended \cup {calls[c].on}
                       ELSE ended
    /\ toCtl' = Tail(toCtl)
    /\ UNCHANGED <<linkConfig, hostVars, shake, ctlUp, toHost, ran, frames>>

\* #onBinary: the frame goes to the stream registered for the session, if any;
\* an Ended frame ends it.
TakesFrame ==
    /\ ctlUp /\ toCtl # <<>> /\ Head(toCtl).t = "binary"
    /\ ended' = IF Head(toCtl).last THEN ended \cup ({tracked} \ {0}) ELSE ended
    /\ toCtl' = Tail(toCtl)
    /\ UNCHANGED <<linkConfig, hostVars, shake, ctlUp, calls, tracked, toHost, ran,
                   frames>>

\* Frames for a closed end.
CtlIgnores ==
    /\ ~ctlUp /\ toCtl # <<>> /\ toCtl' = Tail(toCtl)
    /\ UNCHANGED <<linkConfig, hostVars, ctlVars, toHost, ran, frames>>

-----------------------------------------------------------------------------
(* The host. *)

\* The channel closes: onClose tears everything down.
HostDies ==
    /\ phase' = "dead" /\ hostUp' = FALSE /\ sink' = 0
    /\ UNCHANGED <<held, caps, running>>

\* handleSubscribe: the old sink goes, the answer, then the snapshot.
Subscribed(h, c) ==
    [h EXCEPT !.sink = c,
              !.out = @ \o <<[t |-> "response", id |-> c, ok |-> TRUE],
                             [t |-> "binary", id |-> c, last |-> FALSE]>>]

Answered(h, c, ok) ==
    [h EXCEPT !.out = Append(@, [t |-> "response", id |-> c, ok |-> ok])]

\* dispatch, on what it changes: the sink, the hooks running, the answers.
Dispatch(h, c) ==
    LET m == calls[c].m
        g == [h EXCEPT !.ran = Append(@, c)]
    IN  IF ~(requiredCapability(m) \subseteq g.caps) THEN Answered(g, c, FALSE)
        ELSE CASE m = "claim" -> [g EXCEPT !.running = @ \cup {c}]
               [] m = "unsubscribe" -> [Answered(g, c, TRUE) EXCEPT !.sink = 0]
               [] m = "subscribe" -> IF known THEN Subscribed(g, c)
                                     ELSE Answered(g, c, FALSE)
               [] m = "input" -> Answered(g, c, known)

Handler(cs) == [sink |-> sink, running |-> running, out |-> toCtl, ran |-> ran,
                caps |-> cs]

\* handleRpcPayload for each of a sequence of requests, under capabilities cs:
\* the handler after none of them, the first, the first two...
Handled(cs, requests) ==
    LET hs[i \in 0..Len(requests)] ==
          IF i = 0 THEN Handler(cs) ELSE Dispatch(hs[i - 1], requests[i])
    IN  hs

Handles(cs, requests) ==
    LET h == Handled(cs, requests)[Len(requests)]
    IN  /\ sink' = h.sink /\ running' = h.running /\ toCtl' = h.out
        /\ ran' = h.ran /\ caps' = cs

\* failClosed behind what was sent before it.
FailsClosed(out) ==
    HostDies /\ toCtl' \in Cut(out) /\ UNCHANGED ran

Ack == Append(toCtl, [t |-> "ack"])

\* handleHello and the synchronous part of runDeviceGate.
TakesHello ==
    /\ hostUp /\ phase = "awaiting-hello" /\ toHost # <<>>
    /\ toHost' = Tail(toHost)
    /\ \/ Head(toHost) # 0 /\ FailsClosed(toCtl)
       \/ /\ Head(toHost) = 0
          /\ \/ /\ peer = "incompatible" \/ gate = "refuses"
                /\ FailsClosed(Ack)
             \/ /\ peer # "incompatible" /\ gate # "none"
                /\ phase' = "verifying" /\ toCtl' = Ack
                /\ UNCHANGED <<caps, held, sink, running, hostUp, ran>>
             \/ /\ peer # "incompatible" /\ gate # "refuses"
                /\ phase' = "serving" /\ caps' = served \cap asked /\ toCtl' = Ack
                /\ UNCHANGED <<held, sink, running, hostUp, ran>>
    /\ UNCHANGED <<linkConfig, ctlVars, frames>>

\* Mutation: what was held comes back latest first.
HeldReversed == Reverse(held)

\* What admit replays: everything held, in order.
Replayed == held

\* The verdict arrives while the connection is still waiting for it.
Verdict ==
    /\ phase = "verifying"
    /\ IF gate = "admits"
       THEN /\ phase' = "serving" /\ held' = <<>>
            /\ Handles(served \cap asked, Replayed)
            /\ UNCHANGED hostUp
       ELSE FailsClosed(toCtl)
    /\ UNCHANGED <<linkConfig, ctlVars, toHost, frames>>

\* Mutation: a request that comes while the device is verified is served.
TakesRequestUnproven(c) ==
    /\ Handles(served \cap asked, <<c>>) /\ UNCHANGED <<phase, held, hostUp>>

\* onControl after the Hello: hold it while verifying, up to the bound, else
\* serve it.
TakesRequest(c) ==
    CASE phase = "serving" ->
            /\ Handles(caps, <<c>>) /\ UNCHANGED <<phase, held, hostUp>>
      [] phase = "verifying" /\ Len(held) < MaxHeld ->
            /\ held' = Append(held, c)
            /\ UNCHANGED <<phase, caps, sink, running, hostUp, toCtl, ran>>
      [] OTHER -> FailsClosed(toCtl)

HostReceives ==
    /\ hostUp /\ phase \in {"verifying", "serving"} /\ toHost # <<>>
    /\ TakesRequest(Head(toHost))
    /\ toHost' = Tail(toHost)
    /\ UNCHANGED <<linkConfig, ctlVars, frames>>

HostIgnores ==
    /\ ~hostUp /\ toHost # <<>> /\ toHost' = Tail(toHost)
    /\ UNCHANGED <<linkConfig, hostVars, ctlVars, toCtl, ran, frames>>

\* Mutation: a hook that fails is not answered.
HookSettlesSilently(c) ==
    /\ running' = running \ {c}
    /\ toCtl' \in {toCtl, Answered(Handler(caps), c, TRUE).out}

\* handleClaim past its await: the answer is dropped once the channel closed.
HookSettles(c) ==
    /\ running' = running \ {c}
    /\ IF hostUp
       THEN \E ok \in BOOLEAN : toCtl' = Answered(Handler(caps), c, ok).out
       ELSE UNCHANGED toCtl

Completes(c) ==
    /\ c \in running /\ HookSettles(c)
    /\ UNCHANGED <<linkConfig, phase, caps, held, sink, hostUp, ctlVars, toHost, ran,
                   frames>>

\* The session emits: output, or its end, after which it emits nothing.
Emits(last) ==
    /\ IF last THEN frames <= MaxFrames ELSE frames < MaxFrames
    /\ frames' = IF last THEN MaxFrames + 1 ELSE frames + 1
    /\ sink # 0
    /\ toCtl' = Append(toCtl, [t |-> "binary", id |-> sink, last |-> last])
    /\ sink' = IF last THEN 0 ELSE sink
    /\ UNCHANGED <<linkConfig, phase, caps, held, running, hostUp, ctlVars, toHost, ran>>

\* The window for the Hello closes, or the daemon closes the channel.
HostCloses ==
    /\ hostUp /\ FailsClosed(toCtl)
    /\ UNCHANGED <<linkConfig, ctlVars, toHost, frames>>

-----------------------------------------------------------------------------

CtlReceives == TakesAck \/ TakesResponse \/ TakesFrame \/ CtlIgnores
HostTakes == TakesHello \/ HostReceives \/ HostIgnores

LinkNext ==
    \/ Greets \/ AckTimesOut \/ ControllerCloses \/ CtlReceives
    \/ HostTakes \/ Verdict \/ HostCloses
    \/ \E m \in Methods : Calls(m)
    \/ \E c \in Ids : Requests(c) \/ Completes(c)
    \/ \E last \in BOOLEAN : Emits(last)

LinkSpec == LinkInit /\ [][LinkNext]_linkVars

-----------------------------------------------------------------------------

\* Nothing is served to a controller that did not greet compatibly or whose
\* device the gate refuses, the frames held back meanwhile included.
OnlyProvenServed ==
    ran # <<>> => peer = "current" /\ gate # "refuses" /\ phase \in {"serving", "dead"}

Ascending(s) == \A i, j \in DOMAIN s : i < j => s[i] < s[j]

\* The calls that are past the gate and no capability kept back.
LetGo == {c \in Made : calls[c].st # "gated" /\ MayRequest(c)}

\* Requests are dispatched in the order the controller sent them, without a
\* gap, whether they were held during verification or came after it; and until
\* an end closes, every one that was sent is dispatched, held or under way.
ServedInOrder ==
    LET line == ran \o held \o toHost
    IN  /\ Ascending(ran)
        /\ \A i \in DOMAIN ran : {c \in LetGo : c <= ran[i]} = {ran[j] : j \in 1..i}
        /\ hostUp /\ ctlUp /\ shake = "negotiated" =>
             Ascending(line) /\ {line[i] : i \in DOMAIN line} = LetGo

\* A frame never arrives ahead of the answer to the subscribe it belongs to:
\* the stream is registered by then.
AnswerBeforeFrames ==
    \A i, j \in DOMAIN toCtl :
        i < j /\ toCtl[i].t = "binary" /\ toCtl[j].t = "response" =>
            toCtl[i].id # toCtl[j].id

\* What the controller let out the host does not refuse for want of a
\* capability: both ends intersected the same sets.
NoSurpriseRefusal ==
    \A i \in DOMAIN ran : requiredCapability(calls[ran[i]].m) \subseteq caps

\* With both ends up and nothing under way, the controller has a stream for the
\* session exactly if the host has a sink for it, unless the session is over.
StreamHasSink ==
    hostUp /\ ctlUp /\ toHost = <<>> /\ toCtl = <<>> /\ Settled =>
        \/ tracked = sink
        \/ frames > MaxFrames /\ tracked \in ended

\* A controller that closes leaves no call unsettled: no caller waits for an
\* answer nobody will read.
ClosedOwesNothing == ~ctlUp => \A c \in Made : ~Open(c)

\* The two ends keep in step: order, streams, capabilities and pending calls.
LinkInStep ==
    /\ ServedInOrder /\ AnswerBeforeFrames /\ NoSurpriseRefusal
    /\ StreamHasSink /\ ClosedOwesNothing

\* While the host stays, every call settles: answered, or refused.
CallsSettle ==
    \A c \in Ids : Open(c) ~> (~hostUp \/ ~Open(c))
=============================================================================
