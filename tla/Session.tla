------------------------------- MODULE Session -------------------------------
(***************************************************************************)
(* One agent session of the host daemon and the connections that view it:  *)
(* packages/host/src/session/session.ts driven by the session handlers of  *)
(* packages/host/src/serve/serve-connection.ts.                            *)
(*                                                                         *)
(* The session fans every chunk of PTY output out to its subscribers,      *)
(* pauses a subscriber whose transport is full, resyncs it with a snapshot *)
(* when the transport drains, and decides whose viewport sizes the PTY.    *)
(* The daemon is one event loop: an action is one of its turns, a handler  *)
(* with the reply it sends.                                                *)
(*                                                                         *)
(* A screen is modelled by its version, the number of live frames it is    *)
(* made of.  A snapshot is stamped with that number (the emulator is       *)
(* written before the fan-out), a live frame with the next one.  A channel *)
(* delivers what it is given in order, so `view' is the version a viewer's *)
(* screen has once everything sent to it is painted.                       *)
(***************************************************************************)
EXTENDS Integers, FiniteSets

CONSTANTS
    Viewers,        \* connections served, one terminal behind each
    FlowControlled, \* those whose duplex has `writable' and `onDrain'
    Sizes,          \* terminal sizes
    FirstSize,      \* the size the process was spawned with
    HighWater,      \* frames a transport holds before write() returns false
    SnapshotCost,   \* frames in a snapshot
    MaxSeq,         \* bound: live frames sent
    MaxTick,        \* bound: viewports recorded
    None

ASSUME ViewersAssumption == FlowControlled \subseteq Viewers /\ None \notin Viewers
ASSUME SizesAssumption == FirstSize \in Sizes /\ None \notin Sizes
ASSUME CapacityAssumption == HighWater \in Nat \ {0} /\ SnapshotCost \in Nat
ASSUME BoundsAssumption == MaxSeq \in Nat /\ MaxTick \in Nat
ASSUME NoneAssumption == None \notin [size : Sizes, at : Nat]

VARIABLES
    seq,        \* #seq
    ended,      \* #ended
    disposed,   \* #disposed, and the session is out of the registry
    size,       \* #cols x #rows, of the PTY and the emulator alike
    sub,        \* #subscribers: absent, flowing, paused, or paused and missed
    viewports,  \* #viewports: the last viewport recorded for each viewer
    tick,       \* #viewportTick
    authority,  \* #sizeAuthority
    conn,       \* the served connection: not yet open, open, or torn down
    subscribed, \* its `subscriptions' map has the session
    touched,    \* its `touched' set has the session
    buffered,   \* frames in its transport's buffer, at most HighWater counted
    live,       \* how many of them are live frames
    view,       \* the version of the viewer's screen
    torn,       \* viewers a live frame reached that missed the one before
    told,       \* viewers that were sent Ended on their latest subscription
    gone        \* viewers whose far end vanished

sessionVars == <<seq, ended, disposed, size>>
sizingVars  == <<viewports, tick, authority>>
connVars    == <<conn, subscribed, touched>>
wireVars    == <<buffered, live, view, torn>>
vars == <<sessionVars, sub, sizingVars, connVars, wireVars, told, gone>>

SubStates  == {"absent", "flowing", "paused", "missed"}
ConnStates == {"new", "open", "dead"}
Viewport   == [size : Sizes, at : Nat]

TypeOK ==
    /\ seq \in Nat
    /\ ended \in BOOLEAN
    /\ disposed \in BOOLEAN
    /\ size \in Sizes
    /\ sub \in [Viewers -> SubStates]
    /\ viewports \in [Viewers -> Viewport \cup {None}]
    /\ tick \in Nat
    /\ authority \in Viewers \cup {None}
    /\ conn \in [Viewers -> ConnStates]
    /\ subscribed \subseteq Viewers
    /\ touched \subseteq Viewers
    /\ buffered \in [Viewers -> 0..HighWater]
    /\ live \in [Viewers -> Nat]
    /\ view \in [Viewers -> Nat]
    /\ torn \subseteq Viewers
    /\ told \subseteq Viewers
    /\ gone \subseteq Viewers

\* The session has just been spawned.
Init ==
    /\ seq = 0
    /\ ended = FALSE
    /\ disposed = FALSE
    /\ size = FirstSize
    /\ sub = [v \in Viewers |-> "absent"]
    /\ viewports = [v \in Viewers |-> None]
    /\ tick = 0
    /\ authority = None
    /\ conn = [v \in Viewers |-> "new"]
    /\ subscribed = {}
    /\ touched = {}
    /\ buffered = [v \in Viewers |-> 0]
    /\ live = [v \in Viewers |-> 0]
    /\ view = [v \in Viewers |-> 0]
    /\ torn = {}
    /\ told = {}
    /\ gone = {}

-----------------------------------------------------------------------------
(* The transport (node-socket.ts). *)

\* A buffer of n frames after k more are written.
Fill(n, k) == IF n + k < HighWater THEN n + k ELSE HighWater

\* `writable' over a buffer of n frames.  A duplex without the member is taken
\* to be always writable.
Writable(v, n) == v \in FlowControlled => n < HighWater

-----------------------------------------------------------------------------
(* The fan-out. *)

\* The subscribers a non-terminal frame is sent to.
Flowing(subs) == {v \in Viewers : subs[v] = "flowing"}

\* Mutation: Ended is skipped for a paused subscriber like any other frame.
SubscribersFlowing == Flowing(sub)

\* The subscribers a terminal frame is sent to, paused or not.
Subscribers == {v \in Viewers : sub[v] # "absent"}

\* What sending leaves a subscriber in.
Fed(v, n) == IF Writable(v, n) THEN "flowing" ELSE "paused"

\* #broadcast of an Output or Resized frame to the subscribers subs, followed
\* by a control reply to the connections of replies.
Broadcast(subs, replies) ==
    LET fed == [v \in Viewers |-> IF v \in Flowing(subs)
                                  THEN Fill(buffered[v], 1) ELSE buffered[v]] IN
    /\ seq < MaxSeq
    /\ seq' = seq + 1
    /\ sub' = [v \in Viewers |->
                 CASE subs[v] = "flowing" -> Fed(v, fed[v])
                   [] subs[v] = "absent" -> "absent"
                   [] OTHER -> "missed"]
    /\ buffered' = [v \in Viewers |-> IF v \in replies THEN Fill(fed[v], 1)
                                                       ELSE fed[v]]
    /\ live' = [v \in Viewers |-> IF v \in Flowing(subs) THEN live[v] + 1
                                                         ELSE live[v]]
    /\ view' = [v \in Viewers |-> IF v \in Flowing(subs) THEN seq'
                                                         ELSE view[v]]
    /\ torn' = torn \cup {v \in Flowing(subs) : view[v] # seq}

\* No frame is sent, but a reply to each connection of replies.
OnlyReplies(subs, replies) ==
    /\ sub' = subs
    /\ buffered' = [v \in Viewers |-> IF v \in replies THEN Fill(buffered[v], 1)
                                                       ELSE buffered[v]]
    /\ UNCHANGED <<seq, live, view, torn>>

\* resize(): the PTY and the emulator take size s and every subscriber is
\* told, unless the session is over.
Resize(s, subs, replies) ==
    \/ /\ ~ended /\ ~disposed
       /\ size' = s
       /\ Broadcast(subs, replies)
    \/ /\ ended \/ disposed
       /\ UNCHANGED size
       /\ OnlyReplies(subs, replies)

\* #onOutput: ring, emulator, fan-out.
Output ==
    /\ ~ended /\ ~disposed
    /\ Broadcast(sub, {})
    /\ UNCHANGED <<ended, disposed, size, sizingVars, connVars, told, gone>>

\* #onExit: Ended is forced through to every subscriber, paused or not, and
\* they are all dropped.
Exit ==
    /\ ~ended /\ ~disposed
    /\ seq' = seq + 1
    /\ ended' = TRUE
    /\ told' = told \cup Subscribers
    /\ buffered' = [v \in Viewers |-> IF v \in Subscribers THEN Fill(buffered[v], 1)
                                                           ELSE buffered[v]]
    /\ sub' = [v \in Viewers |-> "absent"]
    /\ UNCHANGED <<disposed, size, sizingVars, connVars, live, view, torn, gone>>

\* dispose(): by the daemon's end-watch, which also takes the session out of
\* the registry, or by its shutdown, once it has closed every channel.
Dispose ==
    /\ ~disposed
    /\ ended \/ \A v \in Viewers : conn[v] # "open"
    /\ disposed' = TRUE
    /\ sub' = [v \in Viewers |-> "absent"]
    /\ UNCHANGED <<seq, ended, size, sizingVars, connVars, wireVars, told, gone>>

-----------------------------------------------------------------------------
(* A connection's requests. *)

\* A connection is accepted and negotiated.
Connect(v) ==
    /\ conn[v] = "new"
    /\ conn' = [conn EXCEPT ![v] = "open"]
    /\ UNCHANGED <<sessionVars, sub, sizingVars, subscribed, touched, wireVars,
                   told, gone>>

\* A request of v reaches the session: it is open and the registry has it.
Served(v) == conn[v] = "open" /\ v \notin gone /\ ~disposed

\* observeViewer, when the request carries a viewport.
Observe(v, s) ==
    \/ /\ s = None
       /\ UNCHANGED <<viewports, tick>>
    \/ /\ s # None
       /\ tick < MaxTick
       /\ tick' = tick + 1
       /\ viewports' = [viewports EXCEPT ![v] = [size |-> s, at |-> tick']]

\* handleSubscribe: drop the connection's own subscription if it has one,
\* record the viewport, acknowledge, then subscribe(): the snapshot, Ended if
\* the session is over, and the subscriber, paused if that filled the
\* transport.
Subscribe(v, s) ==
    LET n == Fill(buffered[v], 1 + SnapshotCost + IF ended THEN 1 ELSE 0) IN
    /\ Served(v)
    /\ Observe(v, s)
    /\ touched' = touched \cup {v}
    /\ subscribed' = subscribed \cup {v}
    /\ buffered' = [buffered EXCEPT ![v] = n]
    /\ sub' = [sub EXCEPT ![v] = IF ended THEN "flowing" ELSE Fed(v, n)]
    /\ view' = [view EXCEPT ![v] = seq]
    /\ torn' = torn \ {v}
    /\ told' = IF ended THEN told \cup {v} ELSE told \ {v}
    /\ UNCHANGED <<sessionVars, authority, conn, live, gone>>

\* Mutation: resizing does not claim the authority.
ResizeUnclaimed(v, s) ==
    /\ Served(v)
    /\ tick < MaxTick
    /\ tick' = tick + 1
    /\ viewports' = [viewports EXCEPT ![v] = [size |-> s, at |-> tick']]
    /\ touched' = touched \cup {v}
    /\ Resize(s, sub, {v})
    /\ UNCHANGED <<ended, disposed, authority, conn, subscribed, told, gone>>

\* handleResize: resizeViewer, which needs no subscription, and the reply.
ResizeViewer(v, s) ==
    /\ Served(v)
    /\ tick < MaxTick
    /\ tick' = tick + 1
    /\ viewports' = [viewports EXCEPT ![v] = [size |-> s, at |-> tick']]
    /\ authority' = v
    /\ touched' = touched \cup {v}
    /\ Resize(s, sub, {v})
    /\ UNCHANGED <<ended, disposed, conn, subscribed, told, gone>>

\* Any other request is answered and leaves the session as it is: input, an
\* unsubscribe without a subscription, or one the daemon refuses.
Answer(v) ==
    /\ conn[v] = "open" /\ v \notin gone
    /\ OnlyReplies(sub, {v})
    /\ UNCHANGED <<ended, disposed, size, sizingVars, connVars, told, gone>>

-----------------------------------------------------------------------------
(* Departures. *)

\* The viewers other than v with a recorded viewport, and the latest of them.
Others(v) == {w \in Viewers \ {v} : viewports[w] # None}
Heirs(v)  == {w \in Others(v) :
                \A x \in Others(v) : viewports[x].at <= viewports[w].at}

\* releaseViewer once the subscriber of v is gone: v's record is dropped and,
\* if v held the size, the latest remaining viewport takes it.
Release(v, replies) ==
    LET subs == [sub EXCEPT ![v] = "absent"] IN
    /\ viewports' = [viewports EXCEPT ![v] = None]
    /\ \/ /\ authority # v
          /\ UNCHANGED <<authority, size>>
          /\ OnlyReplies(subs, replies)
       \/ /\ authority = v
          /\ Others(v) = {}
          /\ authority' = None
          /\ UNCHANGED size
          /\ OnlyReplies(subs, replies)
       \/ /\ authority = v
          /\ \E h \in Heirs(v) :
               /\ authority' = h
               /\ IF viewports[h].size # size
                  THEN Resize(viewports[h].size, subs, replies)
                  ELSE UNCHANGED size /\ OnlyReplies(subs, replies)

\* handleUnsubscribe of a subscription that exists.
Unsubscribe(v) ==
    /\ conn[v] = "open" /\ v \notin gone
    /\ v \in subscribed
    /\ subscribed' = subscribed \ {v}
    /\ Release(v, {v})
    /\ UNCHANGED <<ended, disposed, tick, conn, touched, told, gone>>

\* The channel closes (a fatal record, the host's own close) or close() is
\* called: teardownAll, which releases the viewer where it touched.
ConnCloses(v) ==
    /\ conn[v] = "open"
    /\ conn' = [conn EXCEPT ![v] = "dead"]
    /\ subscribed' = subscribed \ {v}
    /\ touched' = touched \ {v}
    /\ \/ /\ v \in touched
          /\ Release(v, {})
       \/ /\ v \notin touched
          /\ OnlyReplies([sub EXCEPT ![v] = "absent"], {})
          /\ UNCHANGED <<size, viewports, authority>>
    /\ UNCHANGED <<ended, disposed, tick, told, gone>>

\* The far end of v goes away.  nodeSocketDuplex reports no such thing, so the
\* channel stays open; nothing will drain any more.
Vanishes(v) ==
    /\ conn[v] = "open" /\ v \notin gone
    /\ gone' = gone \cup {v}
    /\ UNCHANGED <<sessionVars, sub, sizingVars, connVars, wireVars, told>>

-----------------------------------------------------------------------------
(* The transport of v empties.  When it was full this is the `drain' event, *)
(* and #resumeSubscriber runs: nothing was missed, or a Gap and a fresh     *)
(* snapshot go out, which may fill the transport again.                     *)

\* Mutation: a drain resumes only subscribers that missed nothing.
DrainedUnmissed(v) ==
    v \in FlowControlled /\ buffered[v] = HighWater /\ sub[v] # "missed"

\* Emptying the transport of v fires `drain'.
Drained(v) == v \in FlowControlled /\ buffered[v] = HighWater

\* Mutation: a resumed subscriber is never resynced.
ResyncsNever(v) == FALSE

\* #resumeSubscriber finds that frames were dropped.
Resyncs(v) == Drained(v) /\ sub[v] = "missed"

Flush(v) ==
    LET n == IF Resyncs(v) THEN Fill(0, 1 + SnapshotCost) ELSE 0 IN
    /\ conn[v] = "open" /\ v \notin gone
    /\ buffered[v] > 0
    /\ buffered' = [buffered EXCEPT ![v] = n]
    /\ live' = [live EXCEPT ![v] = 0]
    /\ sub' = [sub EXCEPT ![v] =
                 IF Drained(v) /\ @ \in {"paused", "missed"} THEN Fed(v, n) ELSE @]
    /\ view' = [view EXCEPT ![v] = IF Resyncs(v) THEN seq ELSE @]
    /\ torn' = IF Resyncs(v) THEN torn \ {v} ELSE torn
    /\ UNCHANGED <<sessionVars, sizingVars, connVars, told, gone>>

-----------------------------------------------------------------------------
Next ==
    \/ Output
    \/ Exit
    \/ Dispose
    \/ \E v \in Viewers :
         \/ Connect(v)
         \/ \E s \in Sizes \cup {None} : Subscribe(v, s)
         \/ \E s \in Sizes : ResizeViewer(v, s)
         \/ Answer(v)
         \/ Unsubscribe(v)
         \/ ConnCloses(v)
         \/ Vanishes(v)
         \/ Flush(v)

Spec == Init /\ [][Next]_vars

\* A viewer that is there reads, so its transport empties.
FairSpec == Spec /\ \A v \in Viewers : WF_vars(Flush(v))

-----------------------------------------------------------------------------
(* Safety. *)

\* No viewer ever has a live frame painted over a screen that lacks an earlier
\* one: pauses, drops, resyncs and re-subscribes leave every screen whole.
ScreensWhole == torn = {}

\* A subscriber that counts as caught up is: it lacks no frame, and one that
\* missed some knows it has to resync.
CaughtUp ==
    ~ended => \A v \in Viewers :
        /\ sub[v] \in {"flowing", "paused"} => view[v] = seq
        /\ sub[v] = "missed" => view[v] < seq

\* No viewer is left hanging on a dropped exit: once the process is gone every
\* connection that holds a subscription has been sent Ended, however full its
\* transport was.
EndedReachesAll == ended => subscribed \subseteq told

\* The size of the PTY never belongs to a connection that was closed: its authority,
\* and every viewport it could fall back to, is of an open one.  A viewer that
\* vanished without a close counts as open, as it does for the host.
NoDanglingAuthority ==
    /\ authority # None => viewports[authority] # None
    /\ \A v \in Viewers : viewports[v] # None => conn[v] = "open"

\* The session loses track of no viewer: not of who is behind, not of who has to
\* learn of the exit, not of whose window the size is.
ViewersAccounted == CaughtUp /\ EndedReachesAll /\ NoDanglingAuthority

\* A stalled viewer costs the host a bounded backlog of live frames.
BacklogBounded == \A v \in Viewers : live[v] <= HighWater

-----------------------------------------------------------------------------
(* Action properties. *)

\* The PTY changes size only to the recorded viewport of the viewer that has
\* the authority afterwards.
SizeFollowsAuthority ==
    [][size' # size =>
         authority' # None /\ viewports'[authority'].size = size']_vars

-----------------------------------------------------------------------------
(* Liveness. *)

\* The version of the final screen: Ended is a frame, not a change to it.
Screen == IF ended THEN seq - 1 ELSE seq

\* A subscriber that missed frames is resynced, unless the session ends first
\* or the viewer leaves.
MissedResyncs ==
    \A v \in Viewers :
        sub[v] = "missed" ~> (sub[v] # "missed" \/ v \in gone)

\* session.ts on flow control: a viewer that fell behind is caught up when its
\* transport drains.
FallenBehindCaughtUp ==
    \A v \in Viewers :
        sub[v] = "missed" ~> (view[v] >= Screen \/ v \in gone \/ v \notin subscribed)
=============================================================================
