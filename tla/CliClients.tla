----------------------------- MODULE CliClients -----------------------------
(***************************************************************************)
(* The commands that put a session on the user's terminal: `pherry open`,  *)
(* which the shims run and which falls open to the real agent, `pherry     *)
(* attach` through the daemon, a run socket or the relay, and `pherry run` *)
(* (packages/cli/src/commands/{open,attach,run,sessions}.ts, daemon/       *)
(* client.ts, terminal-client.ts).                                         *)
(*                                                                         *)
(* One command, the host it talks to and, on the way there, the relay's    *)
(* cell.  A request is answered, refused, or, when either is gone, neither: *)
(* the socket's duplex reports no close, so a client is never told.        *)
(***************************************************************************)
EXTENDS Integers

VARIABLES
    way,        \* open, daemon, socket, relay, run
    named,      \* attach: whether a session was named
    pc,         \* the step of the command
    answer,     \* the answer to the request under way
    host,       \* the daemon, run host or remote host: up or gone
    cell,       \* relay: the cell in between, up or gone
    child,      \* the agent under the host: none, running, ended
    fell,       \* whether the real agent was run instead
    raw,        \* the terminal: raw mode, and whether keys and resizes are read
    keyed,
    ticket,     \* relay: none, fresh, aged
    authed,     \* relay: whether a record of the host was authenticated
    ends        \* how it ended: none, code, null, error

clientVars == <<way, named, pc, answer, host, cell, child, fell, raw, keyed, ticket,
                authed, ends>>

Ways == {"open", "daemon", "socket", "relay", "run"}
Calls == {"ready", "reserve", "claim", "list", "subscribe"}

\* Besides the types: keys are read only in raw mode and only while mirroring.
ClientTypeOK ==
    /\ way \in Ways /\ named \in BOOLEAN
    /\ pc \in Calls \cup {"start", "mint", "pin", "prompt", "remint", "dial", "bridge",
                          "connect", "setup", "serving", "mirror", "closing", "fallback", "over"}
    /\ answer \in {"none", "ok", "error"}
    /\ host \in {"up", "gone"} /\ cell \in {"up", "gone"}
    /\ child \in {"none", "running", "ended"}
    /\ fell \in BOOLEAN /\ raw \in BOOLEAN /\ keyed \in BOOLEAN
    /\ ticket \in {"none", "fresh", "aged"} /\ authed \in BOOLEAN
    /\ ends \in {"none", "code", "null", "error"}
    /\ keyed => raw /\ pc = "mirror"

ClientInit ==
    /\ way \in Ways /\ named \in BOOLEAN /\ pc = "start" /\ answer = "none"
    /\ host \in {"up", "gone"} /\ cell = "up"
    /\ child \in IF way \in {"open", "run"} THEN {"none"} ELSE {"running", "ended"}
    /\ fell = FALSE /\ raw = FALSE /\ keyed = FALSE /\ ticket = "none" /\ authed = FALSE
    /\ ends = "none"

-----------------------------------------------------------------------------
(* What a step comes to. *)

\* The finally of runTerminalClient.
Restored == raw' = FALSE /\ keyed' = FALSE

\* Mutation: one try around the whole of runOpen.
OpenFallsFrom == {"connect", "ready", "reserve", "claim", "subscribe", "mirror"}

\* The try of runOpen: up to the claim, and not past it.
FailsOpenAt == {"connect", "ready", "reserve", "claim"}

\* The command fails where it is: open falls open; an attach that looked for the
\* daemon's latest session goes on to the latest run socket, another host with an
\* agent of its own, if there is one; the others throw.
Fails ==
    /\ \/ /\ way = "open" /\ pc \in FailsOpenAt
          /\ pc' = "fallback" /\ fell' = TRUE /\ UNCHANGED <<way, host, child, ends>>
       \/ /\ way = "daemon" /\ ~named
          /\ pc' = "connect" /\ way' = "socket"
          /\ host' \in {"up", "gone"} /\ child' \in {"running", "ended"}
          /\ UNCHANGED <<fell, ends>>
       \/ /\ ~(way = "open" /\ pc \in FailsOpenAt)
          /\ pc' = "over" /\ ends' = "error" /\ UNCHANGED <<way, host, child, fell>>
    /\ Restored /\ answer' = "none" /\ UNCHANGED named

\* runTerminalClient goes raw before it subscribes.
Proceeds(to) ==
    /\ pc' = to /\ answer' = "none"
    /\ raw' = (raw \/ to = "subscribe") /\ keyed' = (to = "mirror")
    /\ named' = (named \/ to = "connect")
    /\ UNCHANGED <<way, host, child, fell, ends>>

\* The call that follows, in the order each command makes them.  The daemon's
\* latest session is looked up over a connection of its own.
After(call) ==
    CASE call = "ready" /\ way = "open" -> "reserve"
      [] call = "ready" /\ way # "open" /\ (way = "socket" \/ named) -> "subscribe"
      [] call = "ready" /\ way # "open" /\ way # "socket" /\ ~named -> "list"
      [] call = "reserve" -> "claim"
      [] call = "claim" -> "subscribe"
      [] call = "list" -> IF way = "daemon" THEN "connect" ELSE "subscribe"
      [] call = "subscribe" -> "mirror"

-----------------------------------------------------------------------------
(* Up to the first request. *)

\* runAttach's order, buildSpec, startRun's spawn.
Starts ==
    /\ pc = "start"
    /\ CASE way = "relay" -> pc' = "mint" /\ UNCHANGED child
         [] way = "run" -> pc' = "setup" /\ child' = "running"
         [] OTHER -> pc' = "connect" /\ UNCHANGED child
    /\ UNCHANGED <<way, named, answer, host, cell, fell, raw, keyed, ticket, authed, ends>>

\* A step on the way to the dial that goes on, with nothing else changed.
Steps(to) ==
    /\ pc' = to
    /\ UNCHANGED <<way, named, answer, host, child, fell, raw, keyed, ends>>

\* relayTicket, before the pin and again after a prompt.
Mints ==
    /\ pc \in {"mint", "remint"}
    /\ \/ ticket' = "fresh" /\ Steps(IF pc = "mint" THEN "pin" ELSE "dial")
       \/ Fails /\ UNCHANGED ticket
    /\ UNCHANGED <<cell, authed>>

\* A ticket is short-lived, a prompt is not: mint another after one.
AfterPrompt == "remint"

\* resolveRemotePin: matched, refused, or asked for.
PinsHost ==
    /\ pc = "pin" /\ (Steps("dial") \/ Steps("prompt") \/ Fails)
    /\ UNCHANGED <<cell, ticket, authed>>

ConfirmsPin ==
    /\ pc = "prompt" /\ ticket' = "aged" /\ (Steps(AfterPrompt) \/ Fails)
    /\ UNCHANGED <<cell, authed>>

\* connectUnix.
Connects ==
    /\ pc = "connect" /\ ((host = "up" /\ Proceeds("ready")) \/ Fails)
    /\ UNCHANGED <<cell, ticket, authed>>

\* connectViaCell: the dial, with the one-time ticket.
DialsCell ==
    /\ pc = "dial" /\ ((cell = "up" /\ Steps("bridge")) \/ Fails)
    /\ UNCHANGED <<cell, ticket, authed>>

\* Its wait for data-ready, which no deadline of attach covers.  The cell says ready,
\* whether or not the host is still there, or closes: a bad ticket, a host that is
\* offline, or one that has not dialled when the cell's bridge timer runs out.
CellAnswers ==
    /\ pc = "bridge" /\ cell = "up" /\ (Proceeds("ready") \/ Fails)
    /\ UNCHANGED <<cell, ticket, authed>>

-----------------------------------------------------------------------------
(* Requests and the mirror. *)

\* The host answers the request under way; claim's answer comes with the agent
\* spawned, a refusal without.
HostAnswers ==
    /\ host = "up" /\ cell = "up" /\ pc \in Calls /\ answer = "none"
    /\ \/ answer' = "ok" /\ child' = IF pc = "claim" THEN "running" ELSE child
       \/ answer' = "error" /\ pc # "ready" /\ UNCHANGED child
    /\ UNCHANGED <<way, named, pc, host, cell, fell, raw, keyed, ticket, authed, ends>>

\* The client takes the answer.  An empty list and a refusal fail; any answer
\* past the handshake is an authenticated record.
TakesAnswer ==
    /\ pc \in Calls /\ answer # "none"
    /\ \/ answer = "ok" /\ Proceeds(After(pc))
       \/ (answer = "error" \/ pc = "list") /\ Fails
    /\ authed' = (authed \/ pc # "ready")
    /\ UNCHANGED <<cell, ticket>>

\* authDeadline covers everything up to the first authenticated record.
DeadlineRuns == pc \in Calls

\* The deadline passes on a bridge that leads nowhere: the race rejects and its
\* finally closes the controller, while the mirror is still where it was.
DeadlinePasses ==
    /\ way = "relay" /\ DeadlineRuns /\ ~authed
    /\ pc' = "closing" /\ ends' = "error" /\ answer' = (IF pc = "ready" THEN answer ELSE "none")
    /\ UNCHANGED <<way, named, host, cell, child, fell, raw, keyed, ticket, authed>>

\* A mirror whose handshake had come through goes raw even now; the controller is
\* closed, so what it asks, or was asking, rejects, and its finally runs before the
\* process is out of work.
MirrorUnwinds ==
    /\ pc = "closing"
    /\ \/ answer = "ok" /\ named /\ raw' = TRUE /\ answer' = "none" /\ UNCHANGED <<pc, keyed>>
       \/ ~(answer = "ok" /\ named) /\ Restored /\ pc' = "over" /\ UNCHANGED answer
    /\ UNCHANGED <<way, named, host, cell, child, fell, ticket, authed, ends>>

\* The `ended` event, or a stream that ends without one.
Mirrors ==
    /\ pc = "mirror" /\ host = "up" /\ cell = "up"
    /\ \/ child = "ended" /\ ends' = "code"
       \/ ends' = "null"
    /\ pc' = "over" /\ Restored
    /\ UNCHANGED <<way, named, answer, host, cell, child, fell, ticket, authed>>

\* The real agent runs to its end in the client's place.
FallbackEnds ==
    /\ pc = "fallback" /\ pc' = "over" /\ ends' = "code"
    /\ UNCHANGED <<way, named, answer, host, cell, child, fell, raw, keyed, ticket, authed>>

-----------------------------------------------------------------------------
(* `pherry run`. *)

\* startRun's catch disposes the session it has spawned.
SetupFails == pc' = "over" /\ ends' = "error" /\ child' = "ended"

SetsUp ==
    /\ pc = "setup"
    /\ \/ pc' = "serving" /\ UNCHANGED <<child, ends>>
       \/ SetupFails
    /\ UNCHANGED <<way, named, answer, host, cell, fell, raw, keyed, ticket, authed>>

\* The session's end closes the run, and so does close(), which disposes it.
RunCloses ==
    /\ pc = "serving" /\ pc' = "over"
    /\ ends' = IF child = "ended" THEN "code" ELSE "null"
    /\ child' = "ended"
    /\ UNCHANGED <<way, named, answer, host, cell, fell, raw, keyed, ticket, authed>>

-----------------------------------------------------------------------------

ChildEnds ==
    /\ child = "running" /\ child' = "ended"
    /\ UNCHANGED <<way, named, pc, answer, host, cell, fell, raw, keyed, ticket, authed, ends>>

\* The host dies, and its agents with it; an answer on the wire may be lost.
HostDies ==
    /\ host = "up" /\ way # "run" /\ host' = "gone"
    /\ child' = IF child = "running" THEN "ended" ELSE child
    /\ answer' \in {answer, "none"}
    /\ UNCHANGED <<way, named, pc, cell, fell, raw, keyed, ticket, authed, ends>>

CellDies ==
    /\ way = "relay" /\ cell = "up" /\ cell' = "gone"
    /\ answer' \in {answer, "none"}
    /\ UNCHANGED <<way, named, pc, host, child, fell, raw, keyed, ticket, authed, ends>>

ClientSteps ==
    \/ Starts \/ Mints \/ PinsHost \/ Connects \/ DialsCell \/ TakesAnswer
    \/ DeadlinePasses \/ MirrorUnwinds \/ FallbackEnds \/ SetsUp

ClientNext ==
    \/ ClientSteps \/ ConfirmsPin \/ CellAnswers \/ HostAnswers \/ Mirrors \/ RunCloses
    \/ ChildEnds \/ HostDies \/ CellDies

\* The client goes on, and a host, and a cell, that is there answers.
ClientFairSpec ==
    /\ ClientInit /\ [][ClientNext]_clientVars
    /\ WF_clientVars(ClientSteps) /\ WF_clientVars(HostAnswers) /\ WF_clientVars(CellAnswers)

-----------------------------------------------------------------------------

\* One launch runs the agent once: what fell open was never spawned by the
\* host, even where the host refuses, or dies, after the claim.
AgentRunsOnce == fell => child = "none"

\* However the command ends, the terminal is as it was, though the deadline of a
\* relay attach ends it around a mirror that is still to unwind; so too under the
\* agent that open falls back to.
TerminalRestored == pc \in {"over", "fallback"} => ~raw /\ ~keyed

\* The relay is dialled with a ticket minted after the question, if one was asked.
DialsFreshTicket == pc = "dial" => ticket = "fresh"

\* A run that is over leaves no agent behind, whichever step of it failed.
RunLeavesNothing == way = "run" /\ pc = "over" => child # "running"

\* A command leaves the user with one agent, a usable terminal, no spent ticket
\* and nothing running that nobody will end.
ClientsSafe == AgentRunsOnce /\ TerminalRestored /\ DialsFreshTicket /\ RunLeavesNothing

\* A relay attach that never hears from the host ends all the same: by the cell's
\* bridge timer, then by its own deadline.  The exception is the wait for data-ready
\* from a cell that has died: no timer bounds it and nothing reports the close.
RelayAttachSettles ==
    (way = "relay" /\ pc \in {"bridge", "ready"}) ~>
        (authed \/ pc = "over" \/ (pc = "bridge" /\ cell = "gone"))

\* open.ts: "so a custody failure can never break the user's launch".
LaunchProceeds == (way = "open" /\ pc = "connect") ~> (fell \/ child # "none")
=============================================================================
