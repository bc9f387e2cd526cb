# pherry, verified

TLA+ models of pherry: a host daemon that keeps agent sessions under custody,
controllers (CLI, phone) that watch and drive them over an encrypted channel, a
blind relay that joins the two, a control plane that issues identity and tickets,
and the CLI that sets all of it up. The modules are translated from the TypeScript
under `packages/` and `apps/`; TLC checks them on small instances and TLAPS proves
every safety property of the passing runs for every instance (three theorems have a
hypothesis about the deployment, named in section 4).

Run a model with `tlc -config <cfg> <module>`, the proofs of a module with
`tlapm <module>.tla`. `PROJECT.json` lists every run, the source lines
behind every definition, the findings and the hazards.

## 1. The system

| Component | State it keeps | Operations | Talks to | Module |
|---|---|---|---|---|
| Relay cell (`relay-core/src/cell.ts`) | registered hosts, pending bridges with timers, bridges, used tickets, draining, closed; per connection its role, challenge, data key, ticket | accept, one handler per outer message, two awaits on the authorizer, bridge timeout, peer close, `drain`, `close` | control plane (authorizer), hosts, controllers | `RelayCell` |
| Host adapter, uplink, relay process (`host-adapter.ts`, `relay-uplink.ts`, `apps/relay`) | registration, data dials, backoff; the relay's sockets | register, dial on `conn-open`, reconnect, close; shutdown | cell, daemon | `HostUplink` |
| CLI authorization (`services/cli-auth.ts`) | Redis: request, grant, token | start, approve, exchange | CLI, browser | `CliAuth` |
| Credentials (`routers/user.ts`, `services/pairing.ts`, `relay-coordination.ts`, `rate-limit.ts`, `audit.ts`) | hosts, devices, pair tokens, audit events; tickets and counters in Redis | register, mint, redeem, revoke, issue and consume ticket | CLI, phones, relay | `Plane` |
| Tenancy (`routers/webhooks.ts`, `services/auth.ts`) | users, orgs, primary org | apply webhook, authenticate | identity provider | `Tenancy` |
| Attention (`services/attention*.ts`, `views/Attention.tsx`) | suppression keys, event rows, push tokens; the inbox's list and cursor | raise, fan out, poll, acknowledge | daemon, phones, dashboard | `Attention` |
| Session (`host/src/session`) | emulator, sequence number, subscribers with paused and missed, viewports, size authority | output, exit, subscribe, resize, release, resume, dispose | PTY, served connections | `Session` |
| Served connection and SDK controller (`host/src/serve`, `sdk/src`) | phase, held frames, subscription, running hooks; pending calls, streams | hello, device gate, dispatch, hooks, close; negotiate, call, close | channel, session, custody desk | `ServedLink` |
| Secure channel (`packages/channel`) | handshake phase, record counters, byte queue | handshake, seal, open, close | any duplex | `SecureChannel` |
| Custody desk, heartbeats (`host/src/custody`, `launch.ts`, `serve.ts`) | reservations, registry, streams, ended reports | reserve, claim, spawn, launch, sweep, beat | session, control plane | `Custody` |
| Daemon process (`commands/serve.ts`) | pid file, key files, socket | start, close, stop | every local command | `ServeLock` |
| Dock (`commands/dock.ts`, `service/`) | dock.json, pins, keyring, boot service | sign in, register, anchor, install, restart, pair | control plane, daemon, phone | `Dock` |
| Trust files (`known-hosts.ts`, `device-keyring.ts`) | known_hosts.json, devices.json | trust, forget, enroll, revoke, resolve | CLI commands, daemon | `TrustFiles` |
| Boarding (`commands/board.ts`, `custody/`) | lists, shims, rc block | board, unboard, anchor; a launch | shell | `Boarding` |
| Terminal clients (`commands/open.ts`, `attach.ts`, `run.ts`) | terminal mode, request under way | connect, reserve, claim, attach, mirror | daemon, relay | `CliClients` |

Everything in TypeScript is single-threaded per process, so the hard behaviour is
*between* turns: state read before an `await` and used after it, timers that fire on
what has changed since, several frames in one chunk, transports that fill and drain,
peers that vanish unreported; in the control plane, replicas that interleave between
any two statements and die between them; on the user's machine, commands that share
files without a lock and are killed between two writes.

What makes each part correct:

- cell: it routes only by live connections; a ticket is worth one controller and one
  bridge, to its own host; nothing fails for one connection because of another; every
  waiting controller is settled; `close` is final;
- uplink and relay: a registration takes its dials with it; a shutdown ends once the
  controllers have left;
- control plane: one token per approval, one device per pairing, one route per ticket
  and none to a revoked host; no credential is handed out that is not in the log; access
  follows membership; one event per window, and none given again behind the cursor;
- session: no screen is torn, viewers that fall behind are resynced and cost bounded
  memory, the exit reaches everyone, the PTY's size belongs to somebody who is there;
- link: what arrives is a prefix of what was sent; nothing is served before its device
  is proven; every call settles;
- daemon: the files lead to the one that serves; a reference is run once; an end is
  drained only after it was told;
- CLI: what an interrupted command left behind never makes the next one claim
  something false; one launch, one agent, one usable terminal.

Several of these hold only where certain steps did not overlap, or one was not left
half done, because the code does not guard against it. Those cases are then in the models
and in the runs; a history records that one has happened (`raced`, `crossed`, `overtaken`,
`reached`, `older`), the property excepts exactly what it exposes, says what still holds,
and section 5 lists the case as a divergence.

## 2. Modules

### RelayCell, TicketRendezvous

`RelayCell` has one action per turn of the cell's event loop. Its variables carry
the names of the fields of `CellImpl` and `Conn`.

- A frame goes through `#dispatch`: `HostHello`, `ProofAccepted`, `ProofRefused`,
  `ControllerAuth`, `HostDialSpliced`, `HostDialRefused`, `OtherFrame`, and
  `FrameError` for one that does not decode.
- An await is split in two: `HostHello` and `ControllerAuth` make the call;
  `RegistrationChallenged`, `ControllerAdmitted`, `CallRefused` and `CallTooLate`
  are the code after it. `TicketResolved` is the control plane carrying the call
  out, so that the answer can be lost after the ticket was deleted.
- `BridgeTimeout`, `PeerCloses`, `Drain`, `Close` are the timers, the transport's
  report and the operator.
- `Cleanup` and `Teardown` are `#cleanup`, and `#detach` / `#refuse` around it.

Cryptography is modelled by what it establishes: `peer` says who is at the far end,
only a host can prove its own id, and a MAC is a record of the key, ticket and
nonce it was made with. `HostSendsAuth` is a host putting its data-auth on the clear
wire (`sent`); from then on anybody may present it (`KnownMacs`), so a racing dial with a
captured MAC is among the dials that are spliced. Three switches describe deployments: `ConsumeOnResolve`
(the HTTP authorizer deletes a ticket it resolves, an in-memory one need not),
`Monitored` (the duplex reports that the peer closed) and `CoalescedFrames` (a
peer puts frames behind a refused one in the same chunk).

`TicketRendezvous` is the promise: per ticket one controller is admitted, waits, is
joined with at most one dial, and it ends; nothing restarts. `RelayCell` maps to it
by what its maps and connections say of a ticket (`Meeting`).

### HostUplink

`runLoop` of the uplink with its backoff, the registration, and a dial per ticket.
`wire` is the control stream; `Reads` takes a chunk, so that messages behind
`host-registered` fall between the two handlers as in `registerHost`. A dial of a
registration that was torn down while it connected is an `orphan`. The cell is
modelled by what it sends and by the controllers it has (`callers`): it splices one or
refuses it by the bridge timer, and a spliced one stays until it leaves by itself. The
relay process is modelled by `RelayExits`, which waits for every accepted socket, as
`server.close` does: the daemon's and the controllers' (`Sockets`). A loss of the far
end is silent.

### CliAuth, Plane, Tenancy, Attention

Each database or Redis statement is an action, so requests interleave as they do
across replicas; `ApprovalDies`, `ExchangeDies` and the failing statements of `Plane`
are a replica lost, or a statement that throws, inside a call. Secrets and codes are
modelled by whether they match.

- `CliAuth`: one request; `callback` chooses the loopback or the headless flow.
- `Plane`: a request is at the statement it runs next (`at`), about a row (`on`). The
  guarded `UPDATE` of a redemption, the `GETDEL` of a ticket, `INSERT` followed by the
  audit append and only then the answer, and the rate limiter's `SET NX PX` and `INCR`
  are each one action. The answer of a request that found the row revoked already
  counts as an answer about that row.
- `Tenancy`: one person, the provider's events and their webhooks, delivered at
  least once and in any order. `overtaken` notes a departure that was acknowledged
  before a joining that preceded it.
- `Attention`: one session and kind, one phone, one inbox. A raise reads the clock,
  takes the suppression key, inserts and pushes in separate steps; the inbox polls, also
  while an earlier poll is unanswered, gets a page of at most `ListCap` events, newest
  first, merges it and acknowledges optimistically. `reached` is the furthest its cursor
  has been.

### Session

One session, its viewers and their transports. `Broadcast` is `#broadcast`,
`Subscribe`, `ResizeViewer`, `Unsubscribe`, `Answer` and `ConnCloses` are the
handlers of a served connection with what they call in the session, `Flush` is the
transport emptying, with the `drain` event and `#resumeSubscriber` if it was full,
and `Vanishes` a far end that goes away, which `nodeSocketDuplex` reports to
nobody. A screen is the number of frames it is made of; `torn` remembers a live
frame painted over a screen that lacked an earlier one. A transport's buffer counts
frames up to its high-water mark; `live` counts the live frames in it without that
bound, so that an unbounded backlog shows.

### SecureChannel, FifoStream, ServedLink

`SecureChannel` has the two ends of a channel and a transport that belongs to
somebody else. A unit on the wire is an ephemeral or a record; a unit read where
another kind was expected is misframed, which the code notices or which swallows what
follows. Keys are symbolic: the ephemerals, the static key and the context each end
has. `FifoStream` is what it promises: what each end delivers is a prefix of what the
other sent.

`ServedLink` is the RPC connection above that stream: hello and negotiation, the gate
that verifies a device while frames are held, dispatch, hooks that settle later,
subscriptions, and on the controller's side gated calls, the pending table and the
streams. Either end may close at any time; the other is not told. Dispatch works on a
record (sink, hooks running, answers, calls dispatched), because `admit` replays all
that was held in one turn: `Handled` is the record after each of a sequence of
requests, and `Handles` makes the last one the state.

### Custody, ServeLock

`Custody` is the desk, the registry, remote launches and the heartbeats with their
ended reports, up to the rows of the control plane. The interval beats whether or not
the last beat was answered: `crossed` notes that beats are under way together, `exposed`
the ends that were in the buffer meanwhile. `ServeLock` is the life of `pherry serve`
and `serve --stop` as the files see it, one file operation per action. Commands overlap
freely; `raced` notes that they have, until a command finds nobody running.

### Dock, TrustFiles, Boarding, CliClients

One action per file operation or call. Each may be killed, or refused, wherever the
code awaits: `Gives` in `Dock`, `Dies` in `TrustFiles`, `Killed` in `Boarding`,
`HostDies` in `CliClients`. A `writeFile` truncates first: `Opens` in `TrustFiles` erases
what the file held, and a command that dies before its write leaves it empty and
unreadable; `kept` notes the pins that were recorded and not since replaced. A repo may
contain others (`Above` in `Boarding`); the shim takes the first line that is a prefix of
the working directory. `CliClients` has the cell beside the host: an attach waits for the
cell (`bridge`), then for the host under `authDeadline`, behind which the mirror still
unwinds (`closing`). `older` in `Dock` marks a daemon that was up before the dock file
was written.

### MC modules with several parts

`MCSecure`, `MCDaemon`, `MCPlane` and `MCCli` put several components in one run. The
components share no variable; the initial states choose the `part` that a behaviour
belongs to, and the others rest. The state space is the sum, not the product, of the
parts', and fairness is asked only of the part that runs. `MCRelayCell`, `MCSession`,
`MCCliAuth`, `MCLimiter` and `MCCliClients` instantiate one component.

## 3. Runs

| Run | Distinct states | Instance | Shows |
|---|---|---|---|
| `cell_safety` | 921,956 | 4 connections of 2 hosts, 1 ticket, an authorizer that keeps tickets | routing and timers consistent, bridges with two open ends, to the ticket's own host or a data-auth it sent; a bridge ends by its own ends only; close is final |
| `cell_live` | 76,346 | 3 connections, coalesced frames, tickets kept | single use from the used-ticket set alone; the cell implements `TicketRendezvous`; every controller is bridged or dropped |
| `session_flow` | 836,364 | 2 viewers, 2 sizes, high water 1, snapshot 1 | screens whole, nobody lost, size follows its authority, who missed frames is resynced |
| `secure_link` | 330,130 | 2 bodies, 2 records each way, 1 fault; 3 calls, 2 frames held | the channel implements `FifoStream`, mismatched ends stay silent, nothing is emitted to an unproven peer, everything arrives where nothing interferes; only proven devices are served, the ends keep in step, every call settles |
| `daemon_parts` | 475,849 | 3 runs of serve and a stop, overlapping; 2 references, 3 claims, 2 beats at once; 2 tickets, 3 registrations | files lead to the daemon where no commands raced, a reference runs once, ends are drained once told unless beats crossed, no dial outlives its registration, shutdowns end |
| `plane_parts` | 1,837,599 | 3 approvals, 2 exchanges; 2 raises, 2 polls at once, pages of 1; 2 requests at once of 4; 2 orgs, 6 events in any order | tokens, pairings and tickets once, revoked is not routed, handed out is logged, one event per window and none again behind the cursor, access follows membership unless a departure overtook |
| `cli_parts` | 918,657 | 2 docks, 2 hosts; 2 overlapping commands on 2 hosts, 2 keys, a device; 3 boardings of 2 repos, one inside the other; every client | what dock shows as done holds; pins and revocations stick; boarding takes hold; one agent and a usable terminal; commands end |

Runs that end in a violation document a disagreement between the code and what the
repository says of it; section 5 lists them.

Bounds. Four connections are two more than a bridge: a host's control connection, a
controller, a dial, and one to interfere (a second controller, a replacing
registration, a wrong dial). One ticket is enough for everything but eviction,
because tickets share only the used-ticket set. A transport that is full with one
frame pauses, misses and resyncs within two live frames, and two resizes let an
authority change hands and fall back. One fault of the transport is enough for each
kind at each place; two records let one be repeated, swapped or dropped before
another. Three calls let one be held, one run and one wait for the negotiation, with a
bound of two held frames to exceed. Two overlapping requests, with two more after
them, are a race and a retry. Two docks are an interrupted one and the next. Three
serve runs are a daemon, its crash and two successors. Connections are symmetric;
symmetry is used without liveness only. Deadlock is not checked: when every connection
is dead, the bounds are reached or the commands are over, the systems rightly stop.

Bounds that are named in the MC modules or follow from an instance: in `MCDaemon` no run
of serve begins while runs that have raced are alive (`OneRace`), and at most two
heartbeats are under way, in the first free slots (`TwoBeats`). With one ticket nothing is
evicted from the used-ticket set; that case is the proof's (`SingleUseKept`).
`TrustFiles` and `Boarding` choose initially whether commands overlap (`alone`,
`oneAtATime`), and the promises that need one at a time name it.

Fairness.
- `cell_live`: an authorizer call ends (the HTTP authorizer answers or fails; a
  rejection is `#fail`) and due timers fire; nothing is assumed of peers or operators.
- `session_flow`: the transport of a viewer that is still there drains.
- `secure_link`: the transport carries, received frames are handled, verification and
  hooks settle, the negotiation window is a timer. Nobody has to send or close.
- `daemon_parts`: the uplink's sleep ends, a dial connects or fails, a cell that is
  there answers, its bridge timer fires, the relay exits when it can. A controller need
  not leave: `ShutdownsEnd` speaks of a relay whose controllers have left.
- `cli_parts`: the command goes on, what expires expires, a host and a cell that are
  there answer. The browser and the phone need not act.

## 4. Proofs

Eight modules hold theorems; `PROJECT.json` lists them. Each states an inductive
invariant, has one lemma per action (or group of actions that leave the same things
alone), and ends with the theorems. Every invariant and every action property or
refinement of a passing run is the conclusion of one of them, for any sets and bounds
that satisfy the named `ASSUME`s.

- `RelayCellProofs`: `TypeCorrect` needs the awaits typed by the role that made
  them (`CallsTyped`). The other theorems rest on one invariant: the routing structures
  are mutually consistent, a connection's phase limits what it can hold, a connection's
  data key was agreed with the host it proved to be, and a ticket has been taken by at
  most one connection (`Takers`). What keeps a second one out differs: with one-time
  tickets the deletion at the control plane leaves one *holder* of a ticket, an await
  that has been answered or a connection that took it (`Holders`); otherwise it is in
  `#usedTickets`, which must then have room for every ticket. The hypothesis
  `SingleUseKept` is the disjunction; without either an evicted ticket admits again.
  They hold with coalesced frames and unreported closes, but for `BridgesFlow`, which
  excludes coalesced frames (section 5). `HostGenuine` says whose data connection a
  bridge may end at: one of the ticket's host, or one that presents a MAC this host sent
  for this very controller. The argument is that a MAC under the bridge's key is known
  only once sent. `Undisturbed` is an action property: a step tears down only what its
  own connection is an end of (`TeardownOwn`, `StepOwn`). It and `Rendezvous` treat every step but an admission and a splice at once
  (`Quiet`: nothing joins, what ends has closed ends). For the refinement of
  `TicketRendezvous` a ticket is dialled only after a controller took it, and once
  the dial is there the controller no longer waits (`DialledOnce`): a step moves one
  ticket at most, and forwards.
- `SecureChannelProofs`: the transport invents no records. Each one under way, wherever
  it was moved, was sealed by the far end under keys that end has for good, with the
  number and body of its place in what was sent (`Genuine`). So the record that opens
  is the next one, which is the refinement of `FifoStream` (`IsFifo`), and the first
  that opens shows that both ends derived the same keys (`Agreed`, which gives
  `ChannelFailsClosed`).
- `LinkProofs`: `OnlyProven` needs the phases, the gate and the capabilities (`Proven`)
  and that nothing but the Hello is under way before the handshake is through
  (`Greeted`). For `InStepHolds`, the calls dispatched, held and under way are the calls
  let go, in ascending order (`Lined`): every move from one queue to the next keeps it,
  and a cut shortens it only from behind. Answers and frames under way belong to calls
  dispatched, each answered once and before its frames (`Answers`); a dispatched call
  that has not settled has its hook running or its answer under way (`Owed`); the
  controller's stream is the host's sink, or is about to be through the one subscribe
  or unsubscribe pending, or the session is over (`Streams`). That there is one such
  call at a time is what callers keep to (`Settled` in `ServedLink`). The verdict
  dispatches any number of held requests in one step: `DispatchKeeps` is the step for
  one, `AllHandled` the induction over them, by the least index that fails, and
  `RunExists` shows that the recursion of `Handled` has a solution.
- `SessionProofs`: screens (a subscriber that is not marked missed has every
  frame), attachment (a connection that holds a subscription is a subscriber until
  the session is over, which is why `Ended` reaches it), the agreement of the
  viewports, the `touched` sets and the open connections (a resize needs no
  subscription, so releasing subscriptions only would not do), and the backlog
  (a transport below its mark counts every live frame it holds). `MemoryBounded`
  assumes that every duplex reports backpressure; `session_relay` shows what
  happens when one does not. `SizeOwned` is an action property.
- `DaemonProofs`. *The lock*: as long as no commands have overlapped at most one run is
  alive; what each file holds follows from the step that run is at, and a stop that polls
  has sent its target on its way out (`FilesOf`, `StopOK`, in `LockInv`). Whatever
  overlaps, `LockBase` holds, which is what a command that finds nobody running starts
  from again (`RaceOver`): the premise of `LockHolds` is a state of the system, not an
  assumption on it. *Custody*: the mark a claim leaves on a reservation stays as long as
  a process may exist for it, and a remote launch makes a reference of its own
  (`Claims`, which gives `OneRun`). For `NoEndLost`, unless beats cross there is one
  interval beat out and it carries the front of the buffer of ends (`Ordered`), so that
  a landed beat drains just what it carried; while they cross, every end in the buffer
  is marked exposed (`AllExposed`); and of what is no longer in the buffer everything
  was told, exposed or cut by the cap (`Kept`). *The uplink*: dials begin only
  under a registration, and every way out of one tears them down; with the types this
  is inductive as it stands.
- `PlaneProofs`: ownership. A guarded `UPDATE`, a `GETDEL` or an insert lets
  one request through and leaves a mark that is never taken back; that request is the
  only one that will enroll, resolve or log on account of it (`Pairing`, `Ticketing`,
  `Logging`). A client may be told of a revocation that the log lacks; the request that
  revoked is then still to log it, or failed there (`Telling`, `Accounted`). That a revoked host is not routed to needs what a request knows of the
  host it is about (`Routing`): revocation is never undone, so a host that was revoked
  when the ticket was presented is found revoked when it is loaded.
- `ControlPlaneProofs`. *CLI authorization*: a grant is in one place - in Redis, held by
  one exchange, or behind one token - and its approval was answered with success.
  *Tenancy*: of an organisation the person has left, a departure is still under way
  behind every webhook that would adopt it (`Departs`), unless the departure was
  overtaken; `overtaken` is cleared when the person leaves again, since the new departure
  is behind them all. *Attention*: the raises that hold a row, or are
  about to insert one, are no more than the windows opened (`Windows`, by cardinality);
  what was given lies behind the furthest the cursor has been (`Paged`), however polls
  overlap.
- `CliProofs`. *Clients*: where an open may still fall open the host has spawned nothing
  (`NothingSpawned`), and raw mode is a matter of the step. *Trust files*: a pin on disk,
  or in the copy a command is about to write, was vouched for; with one command at a
  time what the file held is in the copy from the truncation to the write, so a file
  that can be read has every pin kept (`JobOK`, `AloneOK`). `DialsVouched` needs no such
  premise; the promises that do name `alone`. *Dock*: how far each step has brought the
  files, and the daemon where it is not `older` (`DockPhases`). *Boarding*: what a command
  with nobody beside it has made true by the step it is at, whatever a killed one left
  (`BoardCmdOK`, `BoardAlone`), which decides a launch wherever no repo above is boarded
  (`TakesHold`).

`SecureTypes`, `DaemonTypes`, `ControlTypes` and `CliTypes` state the types of the parts
that share a run, from the invariants of each.

Assumptions are the named `ASSUME`s of the modules: distinctness of `None` and
`NoRow`, hosts for tickets, positive capacities, finite tables, bounds that are natural
numbers. TLC evaluates them on every run.

Model-checked only: liveness (`ControllerSettles`, `MissedResyncs`, `EverythingArrives`,
`CallsSettle`, `ShutdownsEnd`, `CommandsEnd`), because the prover treats neither
fairness nor `ENABLED`. Hypotheses about the constants remain in three theorems:
`SingleUse` (`SingleUseKept`, above), `BridgesFlow` (no coalesced frames) and
`MemoryBounded` (every duplex reports backpressure); section 5 has the other cases.

## 5. Where code and documentation disagree

With a run each:

- `cell_deployed`: over node sockets the closing of one side of a bridge does not
  close the other, because nothing reports it.
- `cliauth_twice`: between the exchange's `GETDEL` and `DEL` the
  request is pending and without a grant; it can be approved and exchanged again.
- `session_relay`: viewers over the relay are never paused.
- `plane_limiter`: a rate counter that expires between `SET NX PX` and `INCR` comes
  back without an expiry.
- `cli_launch`: an intercepted launch whose daemon goes away after the connection was
  made neither falls back nor starts.

The code permits each of these, and a property names the exception in its formula:
drop the named disjunct or premise and the run finds it (a cut buffer with `MaxEnded = 1`,
an undone revocation with a second device).

- `LockSafe` (`raced`): commands that overlap between `readPidFile` and `writePidFile`
  (`serve.ts:216-223`) start two daemons, though the pid file is to make it a singleton.
- `ReportsAddUp` (`exposed`, `dropped`): the interval beats although the last beat is
  unanswered (`relay-uplink.ts:97-101`). Two beats of one buffer drain it twice
  (`serve.ts:398`), and an end that came between them is dropped unreported. When the
  cap cuts the buffer under a beat, its answer drains one end too many. A hook's beat
  that arrives after the end makes the ended row live again (`revived`).
- `OffboardedIsOut` (`overtaken`): webhooks arrive out of order, as the handler itself
  expects (`webhooks.ts:122`), and a joining that comes after the departure restores access.
- `NeverRedelivered` (`reached`): the inbox's interval has no guard (`Attention.tsx:46`);
  the older of two answers, merged last, puts the cursor back, and an acknowledged event
  is shown again.
- `HandedIsLogged` (`unlogged`): a revocation whose audit append failed is answered with
  an error, but its retry finds the row revoked and answers ok, and the log never
  mentions it (`user.ts:253-265`, `299-311`).
- `BridgedToTicketHost`: who captures a data-auth in flight may replay it and win the
  splice, as `relay-core/README.md:171-175` says; what it wins is ciphertext.
- `ShutdownsEnd` (`callers`): `server.close` waits for every accepted socket
  (`apps/relay/src/main.ts:44`), and a controller whose host let go stays spliced
  (`cell_deployed`); the relay stays up as long as it does.
- `DockSafe` (`older`): a dock that is interrupted between `dock.json` and the daemon's
  restart, or asks for one, leaves a daemon of the identity before; the next dock reuses
  the credential, takes the daemon for current (`dock.ts:288`) and shows done.
- `PinsKept` (`torn`): a command killed between the truncation and the write of
  `known_hosts.json` (`known-hosts.ts:156`) destroys every pin; the file is refused until
  the user removes it.
- `TrustSafe`, `PinsKept` (`alone`): of two commands on one file the later write undoes
  the earlier, a pin or a revocation.
- `BoardSafe` (`Above`): the shim takes the first boarded line that is a prefix of the
  working directory (`shim.ts:94-103`), so with a parent boarded a nested repo that was
  unboarded or anchored still launches into custody.
- `CommandsEnd` (`cell = "gone"`): `connectViaCell` is awaited before the deadline is
  (`attach.ts:241`); on a cell that dies after the dial it waits for ever.

Met while modelling, reproducible by checking the named definition, or by changing the
named constant of a run:

- `CloseDropsControls` (`RelayCell`): a connection being challenged when `close()` runs
  is not reached by it, and its proof registers the host in a closed cell.
- `BridgesPipe` with `CoalescedFrames = TRUE`: a connection refused by one frame of a
  chunk is spliced by the next; the bridge has a closed end.
- `FallenBehindCaughtUp` (`Session`): a viewer that is behind when the process exits is
  sent `Ended` and dropped, without the final screen. A viewer that vanished counts as
  open until something closes its connection, so a size may belong to it for as long.
- `SessionsSpared` (`Dock`): a daemon whose session list was empty when probed, or could not be had, is
  restarted with the sessions it has when the stop arrives.
- Dock: the code to confirm a phone is compared by the user; who accepts another
  phone's enrolls that phone's key. No property speaks of it.
- Attention: the healing of a bad push token may delete one registered meanwhile
  (`LiveTokenKept`); an event stamped before and inserted after the inbox's cursor moved,
  or cut off a page by `LIST_CAP` (`attention.ts:27`), is never listed.
- Uplink: a `conn-open` in the chunk of `host-registered` is ignored; the controller
  waits for the cell's timer.
- Credentials: the host limit is counted before the insert, and two registrations can
  pass it together; a replica that dies between insert and audit leaves a row that
  no log mentions, though nobody was handed it.

What the models leave out next to what they have: in `CliAuth` the grant's `SET NX` and
the answer are one step; in `Tenancy` a webhook's handler is; in `SecureChannel` the
party on the path drops, repeats, swaps and garbles but runs no handshake of its own with
either end.

## 6. Not modelled, and the plan

Not modelled by choice: key derivation and ciphers, PTYs and terminal emulation,
byte-level framing, message texts and push protocols, configuration and argument
parsing, listings and renaming, the dashboard's other views, and the Swift client,
which follows the channel and the controller modelled here.

Left of the plan, in order:

1. Action properties that the code relies on and no run states yet, with their
   theorems: what a viewer's screen, a reservation and a credential may never go back
   to.
2. `RelayCell` and `HostUplink` in one composition, so that the lost `conn-open` and
   the cell's timer meet in one behaviour.
3. The byte arithmetic of `outer-frame.ts`, `byte-queue.ts` and `ring.ts` against
   reference definitions.
