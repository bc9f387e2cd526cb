---------------------------- MODULE SessionProofs ----------------------------
(***************************************************************************)
(* Proofs about Session, for any number of viewers, sizes and any capacity *)
(* of the transports.                                                      *)
(***************************************************************************)
EXTENDS Session, TLAPS

\* The daemon's maps agree: who has a viewport recorded is an open connection
\* that knows it touched the session, and a size authority has a record.
Sizing ==
    /\ authority # None => viewports[authority] # None
    /\ \A v \in Viewers :
         viewports[v] # None => conn[v] = "open" /\ v \in touched

\* Until the session is over, a connection that holds a subscription is a
\* subscriber: the exit will reach it.
Attached ==
    /\ \A v \in Viewers : v \in subscribed => conn[v] = "open"
    /\ ~ended /\ ~disposed => \A v \in subscribed : sub[v] # "absent"

\* A transport that is not full holds all the live frames it counts; one that
\* feeds on has room for another.
Backlog ==
    \A v \in FlowControlled :
        /\ live[v] <= HighWater
        /\ buffered[v] < HighWater => live[v] <= buffered[v]
        /\ ~ended /\ sub[v] = "flowing" => live[v] < HighWater

Screens == ScreensWhole /\ CaughtUp

IInv == TypeOK /\ Screens /\ Attached /\ EndedReachesAll /\ Sizing /\ Backlog

\* A buffer stays within its bound, and counts every frame while it is short
\* of it.
LEMMA FillFacts ==
  ASSUME NEW n \in 0..HighWater, NEW k \in Nat
  PROVE  /\ Fill(n, k) \in 0..HighWater
         /\ Fill(n, k) < HighWater => Fill(n, k) = n + k /\ n < HighWater
  BY CapacityAssumption DEF Fill

\* A buffer that gets a frame or none only grows.
LEMMA BufferGrows ==
  ASSUME NEW n \in 0..HighWater, NEW m \in {n, Fill(n, 1)}
  PROVE  m \in 0..HighWater /\ (m < HighWater => n < HighWater /\ n <= m)
<1>1. /\ Fill(n, 1) \in 0..HighWater
      /\ Fill(n, 1) < HighWater => Fill(n, 1) = n + 1 /\ n < HighWater
  BY FillFacts
<1>2. CASE m = n
  BY <1>2
<1>3. CASE m = Fill(n, 1)
  BY <1>1, <1>3, CapacityAssumption
<1> QED
  BY <1>2, <1>3

\* No viewport record is taken for a missing one.
LEMMA NoneIsNoViewport == None \notin Viewport
  BY NoneAssumption DEF Viewport

\* A session that has just been spawned satisfies the invariant.
LEMMA InitIInv == Init => IInv
<1> SUFFICES ASSUME Init PROVE IInv
  OBVIOUS
<1> USE DEF Init
<1>1. TypeOK
  <2>1. 0 \in 0..HighWater
    BY CapacityAssumption
  <2> QED
    BY <2>1, SizesAssumption DEF TypeOK, SubStates, ConnStates
<1>2. Screens /\ Attached /\ EndedReachesAll /\ Sizing
  BY ViewersAssumption DEF Screens, ScreensWhole, CaughtUp, Attached, EndedReachesAll, Sizing
<1>3. Backlog
  BY CapacityAssumption, ViewersAssumption DEF Backlog
<1> QED
  BY <1>1, <1>2, <1>3 DEF IInv

\* What the fan-out needs of the subscribers it is given: the session's own,
\* possibly without one that is leaving.
Subs(subs) ==
    /\ subs \in [Viewers -> SubStates]
    /\ \A v \in Viewers : subs[v] \in {sub[v], "absent"}

\* #broadcast keeps screens whole and backlogs bounded, whoever pauses.
LEMMA BroadcastKeeps ==
  ASSUME TypeOK, Screens, Backlog, ~ended, NEW subs, Subs(subs),
         NEW replies \in SUBSET Viewers, Broadcast(subs, replies),
         UNCHANGED ended
  PROVE  /\ Screens' /\ Backlog'
         /\ seq' \in Nat /\ sub' \in [Viewers -> SubStates]
         /\ buffered' \in [Viewers -> 0..HighWater]
         /\ live' \in [Viewers -> Nat] /\ view' \in [Viewers -> Nat]
         /\ torn' \subseteq Viewers
         /\ \A v \in Viewers : subs[v] # "absent" => sub'[v] # "absent"
<1> USE DEF TypeOK, Subs, SubStates
<1> DEFINE fed == [v \in Viewers |-> IF v \in Flowing(subs)
                                     THEN Fill(buffered[v], 1) ELSE buffered[v]]
<1>1. \A v \in Viewers :
        /\ fed[v] \in 0..HighWater
        /\ fed[v] < HighWater => fed[v] = (IF v \in Flowing(subs)
                                           THEN buffered[v] + 1 ELSE buffered[v])
  BY FillFacts DEF Flowing
<1>2. \A v \in Viewers :
        /\ buffered'[v] = (IF v \in replies THEN Fill(fed[v], 1) ELSE fed[v])
        /\ buffered'[v] \in 0..HighWater
        /\ buffered'[v] < HighWater =>
             fed[v] < HighWater /\ fed[v] <= buffered'[v]
  BY <1>1, FillFacts DEF Broadcast
<1>3. \A v \in Viewers :
        sub'[v] = (IF subs[v] = "flowing" THEN Fed(v, fed[v])
                   ELSE IF subs[v] = "absent" THEN "absent" ELSE "missed")
  BY DEF Broadcast
<1>4. /\ seq' = seq + 1
      /\ live' = [v \in Viewers |-> IF v \in Flowing(subs) THEN live[v] + 1
                                                           ELSE live[v]]
      /\ view' = [v \in Viewers |-> IF v \in Flowing(subs) THEN seq'
                                                           ELSE view[v]]
      /\ torn' = torn \cup {v \in Flowing(subs) : view[v] # seq}
      /\ sub' \in [Viewers -> SubStates]
      /\ buffered' \in [Viewers -> 0..HighWater]
  BY <1>2, <1>3 DEF Broadcast, Fed
<1>5. \A v \in Flowing(subs) : sub[v] = "flowing"
  BY DEF Flowing
<1>6. Screens'
  <2>1. \A v \in Flowing(subs) : view[v] = seq
    BY <1>5 DEF Screens, CaughtUp, Flowing
  <2>2. ScreensWhole'
    BY <1>4, <2>1 DEF Screens, ScreensWhole
  <2>3. ASSUME NEW v \in Viewers PROVE
          /\ sub'[v] \in {"flowing", "paused"} => view'[v] = seq'
          /\ sub'[v] = "missed" => view'[v] < seq'
    BY <1>3, <1>4 DEF Screens, CaughtUp, Flowing, Fed
  <2> QED
    BY <2>2, <2>3 DEF Screens, CaughtUp
<1>7. Backlog'
  <2> SUFFICES ASSUME NEW v \in FlowControlled
               PROVE  /\ live'[v] <= HighWater
                      /\ buffered'[v] < HighWater => live'[v] <= buffered'[v]
                      /\ sub'[v] = "flowing" => live'[v] < HighWater
    BY DEF Backlog
  <2>0. v \in Viewers
    BY ViewersAssumption
  <2>1. CASE v \in Flowing(subs)
    BY <1>1, <1>2, <1>3, <1>4, <1>5, <2>0, <2>1, CapacityAssumption
       DEF Backlog, Flowing, Fed, Writable
  <2>2. CASE v \notin Flowing(subs)
    BY <1>1, <1>2, <1>3, <1>4, <2>0, <2>2, CapacityAssumption
       DEF Backlog, Flowing
  <2> QED
    BY <2>1, <2>2
<1> QED
  BY <1>3, <1>4, <1>6, <1>7 DEF Flowing, Fed

\* A step that sends only replies keeps them too.
LEMMA RepliesKeep ==
  ASSUME TypeOK, Screens, Backlog, NEW subs, Subs(subs),
         NEW replies \in SUBSET Viewers, OnlyReplies(subs, replies),
         UNCHANGED ended
  PROVE  /\ Screens' /\ Backlog'
         /\ seq' \in Nat /\ sub' \in [Viewers -> SubStates]
         /\ buffered' \in [Viewers -> 0..HighWater]
         /\ live' \in [Viewers -> Nat] /\ view' \in [Viewers -> Nat]
         /\ torn' \subseteq Viewers
         /\ \A v \in Viewers : subs[v] # "absent" => sub'[v] # "absent"
<1> USE DEF TypeOK, Subs, OnlyReplies
<1>1. \A v \in Viewers :
        /\ buffered'[v] \in 0..HighWater
        /\ buffered'[v] < HighWater =>
             buffered[v] < HighWater /\ buffered[v] <= buffered'[v]
  <2> SUFFICES ASSUME NEW v \in Viewers
               PROVE  /\ buffered'[v] \in 0..HighWater
                      /\ buffered'[v] < HighWater =>
                           buffered[v] < HighWater /\ buffered[v] <= buffered'[v]
    OBVIOUS
  <2>1. buffered[v] \in 0..HighWater
    OBVIOUS
  <2>2. buffered'[v] \in {buffered[v], Fill(buffered[v], 1)}
    OBVIOUS
  <2> QED
    BY <2>1, <2>2, BufferGrows
<1>2. buffered' \in [Viewers -> 0..HighWater]
  BY <1>1
<1>3. Screens'
  BY DEF Screens, ScreensWhole, CaughtUp
<1>4. Backlog'
  BY <1>1, ViewersAssumption, CapacityAssumption DEF Backlog
<1> QED
  BY <1>2, <1>3, <1>4

\* So does resize(), whether the session is live or over.
LEMMA ResizeKeeps ==
  ASSUME TypeOK, Screens, Backlog, NEW subs, Subs(subs),
         NEW replies \in SUBSET Viewers, NEW s \in Sizes,
         Resize(s, subs, replies), UNCHANGED ended
  PROVE  /\ Screens' /\ Backlog' /\ size' \in Sizes
         /\ seq' \in Nat /\ sub' \in [Viewers -> SubStates]
         /\ buffered' \in [Viewers -> 0..HighWater]
         /\ live' \in [Viewers -> Nat] /\ view' \in [Viewers -> Nat]
         /\ torn' \subseteq Viewers
         /\ \A v \in Viewers : subs[v] # "absent" => sub'[v] # "absent"
<1>1. CASE ~ended /\ Broadcast(subs, replies) /\ size' = s
  BY <1>1, BroadcastKeeps
<1>2. CASE OnlyReplies(subs, replies) /\ UNCHANGED size
  BY <1>2, RepliesKeep DEF TypeOK
<1> QED
  BY <1>1, <1>2 DEF Resize

\* And releaseViewer, which leaves no record of the viewer and hands the size
\* to one that has a record, or to nobody.
LEMMA ReleaseKeeps ==
  ASSUME TypeOK, Screens, Backlog, Sizing, NEW v \in Viewers,
         NEW replies \in SUBSET Viewers, Release(v, replies), UNCHANGED ended
  PROVE  /\ Screens' /\ Backlog' /\ size' \in Sizes
         /\ seq' \in Nat /\ sub' \in [Viewers -> SubStates]
         /\ buffered' \in [Viewers -> 0..HighWater]
         /\ live' \in [Viewers -> Nat] /\ view' \in [Viewers -> Nat]
         /\ torn' \subseteq Viewers
         /\ \A w \in Viewers \ {v} : sub[w] # "absent" => sub'[w] # "absent"
         /\ viewports' = [viewports EXCEPT ![v] = None]
         /\ authority' \in Viewers \cup {None}
         /\ authority' # None => viewports'[authority'] # None
<1> DEFINE subs == [sub EXCEPT ![v] = "absent"]
<1>1. Subs(subs) /\ \A w \in Viewers \ {v} : subs[w] = sub[w]
  BY DEF TypeOK, Subs, SubStates
<1>2. viewports' = [viewports EXCEPT ![v] = None]
  BY DEF Release
<1> HIDE DEF subs
<1>3. CASE authority # v /\ UNCHANGED <<authority, size>> /\ OnlyReplies(subs, replies)
  BY <1>1, <1>2, <1>3, RepliesKeep, ViewersAssumption DEF TypeOK, Sizing
<1>4. CASE authority' = None /\ UNCHANGED size /\ OnlyReplies(subs, replies)
  BY <1>1, <1>2, <1>4, RepliesKeep DEF TypeOK
<1>5. ASSUME NEW h \in Heirs(v), authority' = h,
             \/ Resize(viewports[h].size, subs, replies)
             \/ UNCHANGED size /\ OnlyReplies(subs, replies)
      PROVE  /\ Screens' /\ Backlog' /\ size' \in Sizes
             /\ seq' \in Nat /\ sub' \in [Viewers -> SubStates]
             /\ buffered' \in [Viewers -> 0..HighWater]
             /\ live' \in [Viewers -> Nat] /\ view' \in [Viewers -> Nat]
             /\ torn' \subseteq Viewers
             /\ \A w \in Viewers \ {v} : sub[w] # "absent" => sub'[w] # "absent"
             /\ authority' \in Viewers \cup {None}
             /\ authority' # None => viewports'[authority'] # None
  <2>1. h \in Viewers /\ h # v /\ viewports[h] # None
    BY DEF Heirs, Others
  <2>2. viewports[h].size \in Sizes
    BY <2>1 DEF TypeOK, Viewport
  <2>3. authority' \in Viewers /\ viewports'[authority'] # None
    BY <1>2, <1>5, <2>1 DEF TypeOK
  <2>4. CASE Resize(viewports[h].size, subs, replies)
    BY <1>1, <2>2, <2>3, <2>4, ResizeKeeps
  <2>5. CASE UNCHANGED size /\ OnlyReplies(subs, replies)
    BY <1>1, <2>3, <2>5, RepliesKeep DEF TypeOK
  <2> QED
    BY <1>5, <2>4, <2>5
<1> QED
  BY <1>2, <1>3, <1>4, <1>5 DEF Release, subs

\* PTY output is fanned out.
LEMMA OutputStep == ASSUME IInv, Output PROVE IInv'
<1> USE DEF IInv
<1>1. Subs(sub)
  BY DEF TypeOK, Subs
<1>2. /\ Broadcast(sub, {}) /\ ~ended /\ ~disposed
      /\ UNCHANGED <<ended, disposed, size, viewports, tick, authority, conn,
                     subscribed, touched, told, gone>>
  BY DEF Output, sizingVars, connVars
<1>3. Screens' /\ Backlog' /\ TypeOK'
  BY <1>1, <1>2, BroadcastKeeps DEF TypeOK
<1>4. \A v \in Viewers : sub[v] # "absent" => sub'[v] # "absent"
  BY <1>1, <1>2, BroadcastKeeps
<1>5. Attached' /\ EndedReachesAll' /\ Sizing'
  BY <1>2, <1>4 DEF TypeOK, Attached, EndedReachesAll, Sizing
<1> QED
  BY <1>3, <1>5

\* The process exits: everyone with a subscription was a subscriber, and is
\* sent Ended.
LEMMA ExitStep == ASSUME IInv, Exit PROVE IInv'
<1> USE DEF IInv
<1>1. \A v \in Viewers :
        /\ buffered'[v] \in 0..HighWater
        /\ buffered'[v] < HighWater =>
             buffered[v] < HighWater /\ buffered[v] <= buffered'[v]
  <2> SUFFICES ASSUME NEW v \in Viewers
               PROVE  /\ buffered'[v] \in 0..HighWater
                      /\ buffered'[v] < HighWater =>
                           buffered[v] < HighWater /\ buffered[v] <= buffered'[v]
    OBVIOUS
  <2>1. buffered[v] \in 0..HighWater
    BY DEF TypeOK
  <2>2. buffered'[v] \in {buffered[v], Fill(buffered[v], 1)}
    BY DEF Exit, Subscribers
  <2> QED
    BY <2>1, <2>2, BufferGrows
<1>2. TypeOK'
  BY <1>1 DEF Exit, Subscribers, TypeOK, SubStates, sizingVars, connVars
<1>3. Screens' /\ Sizing'
  BY DEF Exit, Screens, ScreensWhole, CaughtUp, Sizing, sizingVars, connVars
<1>4. Attached' /\ EndedReachesAll'
  BY DEF Exit, Subscribers, TypeOK, Attached, EndedReachesAll, connVars
<1>5. Backlog'
  BY <1>1, ViewersAssumption, CapacityAssumption DEF Exit, TypeOK, Backlog
<1> QED
  BY <1>2, <1>3, <1>4, <1>5

\* The session is disposed of: its subscribers are dropped.
LEMMA DisposeStep == ASSUME IInv, Dispose PROVE IInv'
<1> USE DEF IInv, Dispose, sizingVars, connVars, wireVars
<1>1. TypeOK'
  BY DEF TypeOK, SubStates
<1>2. Screens' /\ Sizing' /\ Backlog'
  BY ViewersAssumption DEF TypeOK, Screens, ScreensWhole, CaughtUp, Sizing, Backlog
<1>3. Attached' /\ EndedReachesAll'
  BY DEF TypeOK, Attached, EndedReachesAll
<1> QED
  BY <1>1, <1>2, <1>3

\* A connection opens, or its far end vanishes: the session does not notice.
LEMMA QuietStep ==
  ASSUME IInv, NEW v \in Viewers, Connect(v) \/ Vanishes(v)
  PROVE  IInv'
<1> USE DEF IInv, sessionVars, sizingVars, connVars, wireVars
<1>1. /\ UNCHANGED <<seq, ended, disposed, size, sub, viewports, tick, authority,
                     subscribed, touched, buffered, live, view, torn, told>>
      /\ conn' \in [Viewers -> ConnStates]
      /\ \A w \in Viewers : conn[w] = "open" => conn'[w] = "open"
      /\ gone' \subseteq Viewers
  BY DEF Connect, Vanishes, TypeOK, ConnStates
<1>2. TypeOK'
  BY <1>1 DEF TypeOK
<1>3. Screens' /\ Backlog' /\ EndedReachesAll'
  BY <1>1 DEF Screens, ScreensWhole, CaughtUp, Backlog, EndedReachesAll
<1>4. Attached' /\ Sizing'
  BY <1>1 DEF TypeOK, Attached, Sizing
<1> QED
  BY <1>2, <1>3, <1>4

\* A request that changes nothing is answered.
LEMMA AnswerStep == ASSUME IInv, NEW v \in Viewers, Answer(v) PROVE IInv'
<1> USE DEF IInv
<1>1. Subs(sub) /\ {v} \in SUBSET Viewers
  BY DEF TypeOK, Subs
<1>2. /\ OnlyReplies(sub, {v})
      /\ UNCHANGED <<ended, disposed, size, viewports, tick, authority, conn,
                     subscribed, touched, told, gone>>
  BY DEF Answer, sizingVars, connVars
<1>3. Screens' /\ Backlog' /\ TypeOK'
  BY <1>1, <1>2, RepliesKeep DEF TypeOK
<1>4. Attached' /\ EndedReachesAll' /\ Sizing'
  BY <1>2 DEF OnlyReplies, TypeOK, Attached, EndedReachesAll, Sizing
<1> QED
  BY <1>3, <1>4

\* A viewer subscribes or re-subscribes: the snapshot makes it current.
LEMMA SubscribeStep ==
  ASSUME IInv, NEW v \in Viewers, NEW s \in Sizes \cup {None}, Subscribe(v, s)
  PROVE  IInv'
<1> USE DEF IInv
<1> DEFINE n == Fill(buffered[v], 1 + SnapshotCost + IF ended THEN 1 ELSE 0)
<1>1. /\ n \in 0..HighWater
      /\ n < HighWater => buffered[v] < HighWater /\ buffered[v] <= n
  <2>1. buffered[v] \in 0..HighWater
    BY DEF TypeOK
  <2>2. 1 + SnapshotCost + (IF ended THEN 1 ELSE 0) \in Nat
    BY CapacityAssumption
  <2> QED
    BY SMTT(40), <2>1, <2>2, FillFacts
<1> HIDE DEF n
<1>2. /\ conn[v] = "open" /\ ~disposed
      /\ UNCHANGED <<seq, ended, disposed, size, authority, conn, live, gone>>
      /\ touched' = touched \cup {v}
      /\ subscribed' = subscribed \cup {v}
      /\ buffered' = [buffered EXCEPT ![v] = n]
      /\ sub' = [sub EXCEPT ![v] = IF ended THEN "flowing" ELSE Fed(v, n)]
      /\ view' = [view EXCEPT ![v] = seq]
      /\ torn' = torn \ {v}
      /\ told' = IF ended THEN told \cup {v} ELSE told \ {v}
  BY DEF Subscribe, Served, sessionVars, n
<1>3. /\ viewports' \in [Viewers -> Viewport \cup {None}]
      /\ tick' \in Nat
      /\ \A w \in Viewers \ {v} : viewports'[w] = viewports[w]
      /\ viewports'[v] # None \/ viewports'[v] = viewports[v]
  <2>1. CASE s = None
    BY <2>1 DEF Subscribe, Observe, TypeOK
  <2>2. CASE s # None
    <3> DEFINE r == [size |-> s, at |-> tick']
    <3>1. tick' = tick + 1 /\ viewports' = [viewports EXCEPT ![v] = r]
      BY <2>2 DEF Subscribe, Observe
    <3>2. r \in Viewport /\ tick' \in Nat
      BY <2>2, <3>1 DEF TypeOK, Viewport
    <3>3. None \notin Viewport
      BY NoneIsNoViewport
    <3> HIDE DEF r
    <3> QED
      BY <3>1, <3>2, <3>3 DEF TypeOK
  <2> QED
    BY <2>1, <2>2
<1>4. Fed(v, n) \in {"flowing", "paused"}
  BY DEF Fed
<1>5. TypeOK'
  BY <1>1, <1>2, <1>3, <1>4 DEF TypeOK, SubStates
<1>6. Screens'
  BY <1>2, <1>4 DEF TypeOK, Screens, ScreensWhole, CaughtUp
<1>7. Attached' /\ EndedReachesAll'
  BY <1>2, <1>4 DEF TypeOK, Attached, EndedReachesAll
<1>8. Sizing'
  BY <1>2, <1>3 DEF TypeOK, Sizing
<1>9. Backlog'
  BY <1>1, <1>2, ViewersAssumption, CapacityAssumption
     DEF TypeOK, Backlog, Fed, Writable
<1> QED
  BY <1>5, <1>6, <1>7, <1>8, <1>9

\* A viewer resizes: it becomes the authority and has a record.
LEMMA ResizeViewerStep ==
  ASSUME IInv, NEW v \in Viewers, NEW s \in Sizes, ResizeViewer(v, s)
  PROVE  IInv'
<1> USE DEF IInv
<1> DEFINE r == [size |-> s, at |-> tick']
<1>1. /\ conn[v] = "open"
      /\ tick' = tick + 1
      /\ viewports' = [viewports EXCEPT ![v] = r]
      /\ authority' = v
      /\ touched' = touched \cup {v}
      /\ Resize(s, sub, {v})
      /\ UNCHANGED <<ended, disposed, conn, subscribed, told, gone>>
  BY DEF ResizeViewer, Served
<1>2. r \in Viewport /\ r # None /\ tick' \in Nat
  <2>1. r \in Viewport /\ tick' \in Nat
    BY <1>1 DEF TypeOK, Viewport
  <2> QED
    BY <2>1, NoneIsNoViewport
<1> HIDE DEF r
<1>3. Subs(sub)
  BY DEF TypeOK, Subs
<1>4. {v} \in SUBSET Viewers
  OBVIOUS
<1>5. /\ Screens' /\ Backlog' /\ size' \in Sizes
      /\ seq' \in Nat /\ sub' \in [Viewers -> SubStates]
      /\ buffered' \in [Viewers -> 0..HighWater]
      /\ live' \in [Viewers -> Nat] /\ view' \in [Viewers -> Nat]
      /\ torn' \subseteq Viewers
      /\ \A w \in Viewers : sub[w] # "absent" => sub'[w] # "absent"
  BY <1>1, <1>3, <1>4, ResizeKeeps
<1>6. TypeOK'
  BY <1>1, <1>2, <1>5 DEF TypeOK
<1>7. Attached' /\ EndedReachesAll'
  BY <1>1, <1>5 DEF TypeOK, Attached, EndedReachesAll
<1>8. Sizing'
  BY <1>1, <1>2 DEF TypeOK, Sizing
<1> QED
  BY <1>5, <1>6, <1>7, <1>8

\* A viewer unsubscribes and is released.
LEMMA UnsubscribeStep ==
  ASSUME IInv, NEW v \in Viewers, Unsubscribe(v)
  PROVE  IInv'
<1> USE DEF IInv
<1>1. /\ conn[v] = "open"
      /\ subscribed' = subscribed \ {v}
      /\ Release(v, {v})
      /\ UNCHANGED <<ended, disposed, tick, conn, touched, told, gone>>
  BY DEF Unsubscribe
<1>2. /\ Screens' /\ Backlog' /\ size' \in Sizes
      /\ seq' \in Nat /\ sub' \in [Viewers -> SubStates]
      /\ buffered' \in [Viewers -> 0..HighWater]
      /\ live' \in [Viewers -> Nat] /\ view' \in [Viewers -> Nat]
      /\ torn' \subseteq Viewers
      /\ \A w \in Viewers \ {v} : sub[w] # "absent" => sub'[w] # "absent"
      /\ viewports' = [viewports EXCEPT ![v] = None]
      /\ authority' \in Viewers \cup {None}
      /\ authority' # None => viewports'[authority'] # None
  BY <1>1, ReleaseKeeps
<1>3. TypeOK'
  BY <1>1, <1>2 DEF TypeOK
<1>4. Attached' /\ EndedReachesAll'
  BY <1>1, <1>2 DEF TypeOK, Attached, EndedReachesAll
<1>5. Sizing'
  BY <1>1, <1>2 DEF TypeOK, Sizing
<1> QED
  BY <1>2, <1>3, <1>4, <1>5

\* A connection closes: what it touched is released, and where it touched
\* nothing there is nothing to release.
LEMMA ConnClosesStep ==
  ASSUME IInv, NEW v \in Viewers, ConnCloses(v)
  PROVE  IInv'
<1> USE DEF IInv
<1>1. /\ conn' = [conn EXCEPT ![v] = "dead"]
      /\ subscribed' = subscribed \ {v}
      /\ touched' = touched \ {v}
      /\ UNCHANGED <<ended, disposed, tick, told, gone>>
  BY DEF ConnCloses
<1>2. /\ Screens' /\ Backlog' /\ size' \in Sizes
      /\ seq' \in Nat /\ sub' \in [Viewers -> SubStates]
      /\ buffered' \in [Viewers -> 0..HighWater]
      /\ live' \in [Viewers -> Nat] /\ view' \in [Viewers -> Nat]
      /\ torn' \subseteq Viewers
      /\ \A w \in Viewers \ {v} : sub[w] # "absent" => sub'[w] # "absent"
      /\ viewports' = [viewports EXCEPT ![v] = None]
      /\ authority' \in Viewers \cup {None}
      /\ authority' # None => viewports'[authority'] # None
  <2>1. CASE v \in touched /\ Release(v, {})
    BY <1>1, <2>1, ReleaseKeeps
  <2>2. CASE /\ v \notin touched
             /\ OnlyReplies([sub EXCEPT ![v] = "absent"], {})
             /\ UNCHANGED <<size, viewports, authority>>
    <3> DEFINE subs == [sub EXCEPT ![v] = "absent"]
    <3>1. Subs(subs) /\ \A w \in Viewers \ {v} : subs[w] = sub[w]
      BY DEF TypeOK, Subs, SubStates
    <3>2. OnlyReplies(subs, {})
      BY <2>2
    <3> HIDE DEF subs
    <3>3. /\ Screens' /\ Backlog'
          /\ seq' \in Nat /\ sub' \in [Viewers -> SubStates]
          /\ buffered' \in [Viewers -> 0..HighWater]
          /\ live' \in [Viewers -> Nat] /\ view' \in [Viewers -> Nat]
          /\ torn' \subseteq Viewers
          /\ \A w \in Viewers : subs[w] # "absent" => sub'[w] # "absent"
      BY <1>1, <3>1, <3>2, RepliesKeep
    <3>4. viewports[v] = None
      BY <2>2 DEF Sizing
    <3>5. viewports' = [viewports EXCEPT ![v] = None]
      BY <2>2, <3>4 DEF TypeOK
    <3> QED
      BY <2>2, <3>1, <3>3, <3>5 DEF TypeOK, Sizing
  <2> QED
    BY <2>1, <2>2 DEF ConnCloses
<1>3. TypeOK'
  BY <1>1, <1>2 DEF TypeOK, ConnStates
<1>4. Attached' /\ EndedReachesAll'
  BY <1>1, <1>2 DEF TypeOK, Attached, EndedReachesAll
<1>5. Sizing'
  BY <1>1, <1>2 DEF TypeOK, Sizing
<1> QED
  BY <1>2, <1>3, <1>4, <1>5

\* A transport empties and its subscriber resumes, resynced if it missed
\* anything.
LEMMA FlushStep ==
  ASSUME IInv, NEW v \in Viewers, Flush(v)
  PROVE  IInv'
<1> USE DEF IInv
<1> DEFINE n == IF Resyncs(v) THEN Fill(0, 1 + SnapshotCost) ELSE 0
<1>1. n \in 0..HighWater
  <2>1. 0 \in 0..HighWater /\ 1 + SnapshotCost \in Nat
    BY CapacityAssumption
  <2> QED
    BY <2>1, FillFacts
<1>2. /\ buffered' = [buffered EXCEPT ![v] = n]
      /\ live' = [live EXCEPT ![v] = 0]
      /\ view' = [view EXCEPT ![v] = IF Resyncs(v) THEN seq ELSE @]
      /\ torn' = IF Resyncs(v) THEN torn \ {v} ELSE torn
      /\ sub' = [sub EXCEPT ![v] =
                   IF Drained(v) /\ @ \in {"paused", "missed"} THEN Fed(v, n) ELSE @]
      /\ UNCHANGED <<seq, ended, disposed, size, viewports, tick, authority, conn,
                     subscribed, touched, told, gone>>
  BY DEF Flush, sessionVars, sizingVars, connVars
<1> HIDE DEF n
<1>3. Fed(v, n) \in {"flowing", "paused"}
  BY DEF Fed
<1>4. TypeOK'
  BY <1>1, <1>2, <1>3 DEF TypeOK, SubStates
<1>5. /\ sub'[v] = "absent" <=> sub[v] = "absent"
      /\ \A w \in Viewers \ {v} : sub'[w] = sub[w] /\ view'[w] = view[w]
  BY <1>2, <1>3 DEF TypeOK
<1>6. Screens'
  <2>1. ScreensWhole'
    BY <1>2 DEF Screens, ScreensWhole
  <2>2. ASSUME ~ended
        PROVE  /\ sub'[v] \in {"flowing", "paused"} => view'[v] = seq
               /\ sub'[v] = "missed" => view'[v] < seq
    <3>1. CASE Resyncs(v)
      BY <1>2, <1>3, <3>1 DEF TypeOK, Resyncs
    <3>2. CASE ~Resyncs(v) /\ sub[v] # "missed"
      BY <1>2, <1>3, <2>2, <3>2 DEF TypeOK, Screens, CaughtUp
    <3>3. CASE ~Drained(v)
      BY <1>2, <2>2, <3>3 DEF TypeOK, Resyncs, Screens, CaughtUp
    <3> QED
      BY <3>1, <3>2, <3>3 DEF Resyncs
  <2>3. CaughtUp'
    BY <1>2, <1>5, <2>2 DEF Screens, CaughtUp
  <2> QED
    BY <2>1, <2>3 DEF Screens
<1>7. Attached' /\ EndedReachesAll' /\ Sizing'
  BY <1>2, <1>5 DEF TypeOK, Attached, EndedReachesAll, Sizing
<1>8. Backlog'
  <2> SUFFICES ASSUME NEW w \in FlowControlled
               PROVE  /\ live'[w] <= HighWater
                      /\ buffered'[w] < HighWater => live'[w] <= buffered'[w]
                      /\ ~ended' /\ sub'[w] = "flowing" => live'[w] < HighWater
    BY DEF Backlog
  <2>1. w \in Viewers
    BY ViewersAssumption
  <2>2. CASE w = v
    BY <1>1, <1>2, <2>1, <2>2, CapacityAssumption DEF TypeOK
  <2>3. CASE w # v
    BY <1>2, <2>1, <2>3 DEF TypeOK, Backlog
  <2> QED
    BY <2>2, <2>3
<1> QED
  BY <1>4, <1>6, <1>7, <1>8

\* The invariant is inductive.
LEMMA NextIInv == IInv /\ [Next]_vars => IInv'
<1> SUFFICES ASSUME IInv, [Next]_vars PROVE IInv'
  OBVIOUS
<1>1. CASE Output \/ Exit \/ Dispose
  BY <1>1, OutputStep, ExitStep, DisposeStep
<1>2. ASSUME NEW v \in Viewers,
             \/ Connect(v) \/ Vanishes(v) \/ Flush(v)
             \/ Answer(v) \/ Unsubscribe(v) \/ ConnCloses(v)
      PROVE  IInv'
  BY <1>2, QuietStep, FlushStep, AnswerStep, UnsubscribeStep, ConnClosesStep
<1>3. ASSUME NEW v \in Viewers, NEW s \in Sizes \cup {None}, Subscribe(v, s)
      PROVE  IInv'
  BY <1>3, SubscribeStep
<1>4. ASSUME NEW v \in Viewers, NEW s \in Sizes, ResizeViewer(v, s)
      PROVE  IInv'
  BY <1>4, ResizeViewerStep
<1>5. CASE UNCHANGED vars
  BY <1>5 DEF vars, sessionVars, sizingVars, connVars, wireVars, IInv, TypeOK,
              Screens, ScreensWhole, CaughtUp, Attached, EndedReachesAll, Sizing, Backlog
<1> QED
  BY <1>1, <1>2, <1>3, <1>4, <1>5 DEF Next

\* Every reachable state satisfies it.
LEMMA SpecIInv == Spec => []IInv
  BY InitIInv, NextIInv, PTL DEF Spec

\* Type correctness.
THEOREM TypeCorrect == Spec => []TypeOK
  BY SpecIInv, PTL DEF IInv

\* #broadcast, #resumeSubscriber and subscribe() keep every viewer's screen
\* whole, however many viewers pause, miss frames and resync, and the session
\* always knows who is behind.
THEOREM ScreensSafe == Spec => [](ScreensWhole /\ CaughtUp)
  BY SpecIInv, PTL DEF IInv, Screens

\* The exit of the process reaches every connection that holds a subscription.
THEOREM ExitTold == Spec => []EndedReachesAll
  BY SpecIInv, PTL DEF IInv

\* releaseViewer, run for every session a closing connection touched, leaves no
\* authority and no viewport of a viewer that is gone.
THEOREM AuthorityAttached == Spec => []NoDanglingAuthority
<1>1. IInv => NoDanglingAuthority
  BY DEF IInv, Sizing, NoDanglingAuthority
<1> QED
  BY <1>1, SpecIInv, PTL

\* No viewer is lost track of, for any number of viewers and any capacity.
THEOREM NobodyLost == Spec => []ViewersAccounted
<1>1. IInv => ViewersAccounted
  BY DEF IInv, Screens, Sizing, NoDanglingAuthority, ViewersAccounted
<1> QED
  BY <1>1, SpecIInv, PTL

\* When every duplex reports backpressure, no viewer's backlog of live frames
\* exceeds its transport's capacity.
THEOREM MemoryBounded ==
  ASSUME FlowControlled = Viewers
  PROVE  Spec => []BacklogBounded
<1>1. IInv => BacklogBounded
  BY DEF IInv, Backlog, BacklogBounded
<1> QED
  BY <1>1, SpecIInv, PTL

\* releaseViewer resizes only to the viewport of the heir.
LEMMA ReleaseSizes ==
  ASSUME TypeOK, NEW v \in Viewers, NEW replies, Release(v, replies), size' # size
  PROVE  authority' # None /\ viewports'[authority'].size = size'
<1>1. PICK h \in Heirs(v) : /\ authority' = h
                            /\ Resize(viewports[h].size, [sub EXCEPT ![v] = "absent"], replies)
  BY DEF Release
<1>2. size' = viewports[h].size
  BY <1>1 DEF Resize
<1>3. h \in Viewers /\ h # v /\ h # None
  BY ViewersAssumption DEF Heirs, Others
<1>4. viewports'[h] = viewports[h]
  BY <1>3 DEF Release, TypeOK
<1> QED
  BY <1>1, <1>2, <1>3, <1>4

\* Across every step, the PTY only takes the size of the viewer in authority.
THEOREM SizeOwned == Spec => SizeFollowsAuthority
<1>1. ASSUME IInv, Next, size' # size
      PROVE  authority' # None /\ viewports'[authority'].size = size'
  <2>1. ~Output /\ ~Exit /\ ~Dispose
    BY <1>1 DEF Output, Exit, Dispose, sessionVars
  <2>2. ASSUME NEW v \in Viewers
        PROVE  /\ ~Connect(v) /\ ~Vanishes(v) /\ ~Flush(v) /\ ~Answer(v)
               /\ \A s \in Sizes \cup {None} : ~Subscribe(v, s)
    BY <1>1 DEF Connect, Vanishes, Flush, Answer, Subscribe, sessionVars
  <2>3. ASSUME NEW v \in Viewers, NEW s \in Sizes, ResizeViewer(v, s)
        PROVE  authority' # None /\ viewports'[authority'].size = size'
    <3>1. authority' = v /\ size' = s
      BY <1>1, <2>3 DEF ResizeViewer, Resize
    <3>2. viewports'[v] = [size |-> s, at |-> tick']
      BY <1>1, <2>3 DEF ResizeViewer, IInv, TypeOK
    <3> QED
      BY <3>1, <3>2, ViewersAssumption
  <2>4. ASSUME NEW v \in Viewers, Unsubscribe(v) \/ ConnCloses(v)
        PROVE  authority' # None /\ viewports'[authority'].size = size'
    <3>1. Release(v, {v}) \/ Release(v, {})
      BY <1>1, <2>4 DEF Unsubscribe, ConnCloses
    <3> QED
      BY <1>1, <3>1, ReleaseSizes DEF IInv
  <2> QED
    BY <1>1, <2>1, <2>2, <2>3, <2>4 DEF Next
<1>2. IInv /\ [Next]_vars =>
        [size' # size => authority' # None /\ viewports'[authority'].size = size']_vars
  BY <1>1 DEF vars, sessionVars
<1> QED
  BY <1>2, SpecIInv, PTL DEF Spec, SizeFollowsAuthority
=============================================================================
