--------------------------- MODULE RelayCellProofs ---------------------------
(***************************************************************************)
(* The relay cell is safe for every set of connections, hosts and tickets: *)
(* type correctness of RelayCell, and the inductive invariant behind its   *)
(* safety properties.                                                      *)
(***************************************************************************)
EXTENDS RelayCell, FiniteSetTheorems, TLAPS

-----------------------------------------------------------------------------
(* Type correctness. *)

\* What an await carries agrees with the role that made it: a host id while
\* registering, a ticket while bridging.  A challenge is outstanding only once
\* the await that led to it is over.
CallsTyped ==
    \A c \in Conns :
        /\ call[c] = "asked" =>
             \/ role[c] = "control-pending" /\ arg[c] \in Hosts
             \/ role[c] = "controller-data" /\ arg[c] \in Tickets
        /\ call[c] = "resolved" =>
             role[c] = "controller-data" /\ arg[c] \in Tickets
        /\ role[c] \in {"unborn", "unclassified"} => call[c] = "idle"
        /\ challenge[c] => role[c] = "control-pending" /\ call[c] = "idle"

Typed == TypeOK /\ CallsTyped

\* An empty cell is typed.
LEMMA InitTyped == Init => Typed
<1> SUFFICES ASSUME Init PROVE Typed
  OBVIOUS
<1>1. used \in Seq(Tickets)
  BY DEF Init
<1>2. CallsTyped
  BY DEF Init, CallsTyped
<1> QED
  BY <1>1, <1>2 DEF Init, Typed, TypeOK, Roles, Calls

\* #cleanup and the close after it keep every structure typed.
LEMMA TeardownTyped ==
    ASSUME Typed, NEW c \in Conns, Teardown(c)
    PROVE  /\ hosts' \in [Hosts -> Conns \cup {None}]
           /\ pending' \in [Tickets -> Conns \cup {None}]
           /\ timers' \subseteq Timer
           /\ bridges' \subseteq Bridge
           /\ open' \in [Conns -> BOOLEAN]
           /\ keyed' \in [Conns -> BOOLEAN]
BY DEF Typed, TypeOK, Teardown, Cleanup, EndedWith

\* Every handler, resumed await, timer and operator call keeps the types.
LEMMA NextTyped == Typed /\ [Next]_vars => Typed'
<1> SUFFICES ASSUME Typed, [Next]_vars PROVE Typed'
  OBVIOUS
<1> USE DEF Typed
<1>1. ASSUME NEW c \in Conns, NEW p \in Parties, Accept(c, p) PROVE Typed'
  BY <1>1, PartiesAssumption DEF TypeOK, CallsTyped, Accept, Roles, Calls,
     callVars, cellVars, modeVars
<1>2. ASSUME NEW c \in Conns, NEW h \in Hosts, HostHello(c, h) PROVE Typed'
  BY <1>2 DEF TypeOK, CallsTyped, HostHello, Receives, RestOfChunk, Roles,
     Calls, cellVars, modeVars
<1>3. ASSUME NEW c \in Conns, RegistrationChallenged(c) PROVE Typed'
  BY <1>3 DEF TypeOK, CallsTyped, RegistrationChallenged, StillLive, CallEnds, Roles,
     Calls, cellVars, modeVars
<1>4. ASSUME NEW c \in Conns, CallRefused(c) PROVE Typed'
  BY <1>4, TeardownTyped DEF TypeOK, CallsTyped, CallRefused, CallEnds, Roles,
     Calls, modeVars
<1>5. ASSUME NEW c \in Conns, CallTooLate(c) PROVE Typed'
  BY <1>5 DEF TypeOK, CallsTyped, CallTooLate, StillLive, CallEnds, Roles, Calls,
     connVars, cellVars, modeVars
<1>6. ASSUME NEW c \in Conns, ProofAccepted(c) PROVE Typed'
  <2>1. hostId[c] \in Hosts
    BY <1>6 DEF TypeOK, ProofAccepted, Challenged
  <2>2. hosts' \in [Hosts -> Conns \cup {None}]
    BY <1>6, <2>1 DEF TypeOK, ProofAccepted
  <2>3. open' \in [Conns -> BOOLEAN] /\ keyed' \in [Conns -> BOOLEAN]
    BY <1>6 DEF TypeOK, ProofAccepted
  <2>4. role' \in [Conns -> Roles] /\ challenge' \in [Conns -> BOOLEAN]
        /\ turn' \in Conns \cup {None}
    BY <1>6 DEF TypeOK, ProofAccepted, Receives, RestOfChunk, Roles
  <2>5. CallsTyped'
    BY <1>6 DEF TypeOK, CallsTyped, ProofAccepted, Receives, Challenged,
       callVars
  <2> QED
    BY <1>6, <2>2, <2>3, <2>4, <2>5 DEF TypeOK, ProofAccepted, callVars,
       modeVars
<1>7. ASSUME NEW c \in Conns, ProofRefused(c) PROVE Typed'
  BY <1>7, TeardownTyped DEF TypeOK, CallsTyped, ProofRefused, Receives,
     RestOfChunk, Roles, Calls, callVars, modeVars
<1>8. ASSUME NEW c \in Conns, NEW t \in Tickets, ControllerAuth(c, t)
      PROVE  Typed'
  <2>1. CASE draining
    BY <1>8, <2>1, TeardownTyped DEF TypeOK, CallsTyped, ControllerAuth, Receives,
       RestOfChunk, Roles, Calls, modeVars
  <2>2. CASE ~draining
    BY <1>8, <2>2 DEF TypeOK, CallsTyped, ControllerAuth, Receives, RestOfChunk,
       NoTeardown, Roles, Calls, modeVars
  <2> QED  BY <2>1, <2>2
<1>9. ASSUME NEW c \in Conns, TicketResolved(c) PROVE Typed'
  BY <1>9 DEF TypeOK, CallsTyped, TicketResolved, Roles, Calls, connVars,
     cellVars, modeVars
<1>10. ASSUME NEW c \in Conns, ControllerAdmitted(c) PROVE Typed'
  <2>1. arg[c] \in Tickets /\ TicketHost[arg[c]] \in Hosts
    BY <1>10, TicketHostAssumption DEF ControllerAdmitted, StillLive, Online, ArmTimer, CallsTyped
  <2>2. used' \in Seq(Tickets)
    <3> DEFINE s == Append(used, arg[c])
    <3>1. s \in Seq(Tickets) /\ Len(s) \in Nat
      BY <2>1 DEF TypeOK
    <3>2. ASSUME Len(s) > MaxUsedTickets
          PROVE  SubSeq(s, Len(s) - MaxUsedTickets + 1, Len(s)) \in Seq(Tickets)
      BY <3>1, <3>2, MaxUsedAssumption
    <3> QED
      BY <1>10, <3>1, <3>2 DEF ControllerAdmitted, StillLive, Online, ArmTimer, MarkTicketUsed
  <2> QED
    BY <1>10, <2>1, <2>2 DEF TypeOK, CallsTyped, ControllerAdmitted, StillLive, Online, ArmTimer, CallEnds,
       Roles, Calls, Timer, Offer, modeVars
<1>11. ASSUME NEW c \in Conns, NEW t \in Tickets, NEW m \in KnownMacs(c),
              HostDialSpliced(c, t, m)
       PROVE  Typed'
  <2>1. TicketHost[t] \in Hosts /\ pending[t] \in Conns
    BY <1>11, TicketHostAssumption DEF HostDialSpliced, Splice, TypeOK
  <2> QED
    BY <1>11, <2>1 DEF TypeOK, CallsTyped, HostDialSpliced, Splice, Roles, Calls,
       Bridge, callVars, modeVars
<1>12. ASSUME NEW c \in Conns, HostDialRefused(c) PROVE Typed'
  BY <1>12, TeardownTyped DEF TypeOK, CallsTyped, HostDialRefused, Receives,
     RestOfChunk, Roles, Calls, callVars, modeVars
<1>13. ASSUME NEW c \in Conns, OtherFrame(c) PROVE Typed'
  BY <1>13, TeardownTyped DEF TypeOK, CallsTyped, OtherFrame, Receives,
     RestOfChunk, callVars, modeVars
<1>14. ASSUME NEW c \in Conns, FrameError(c) PROVE Typed'
  BY <1>14, TeardownTyped DEF TypeOK, CallsTyped, FrameError, callVars,
     modeVars
<1>15. ASSUME NEW c \in Conns, PeerCloses(c) PROVE Typed'
  BY <1>15, TeardownTyped DEF TypeOK, CallsTyped, PeerCloses, NoTeardown,
     callVars, modeVars
<1>16. ASSUME NEW x \in timers, BridgeTimeout(x) PROVE Typed'
  BY <1>16 DEF TypeOK, CallsTyped, BridgeTimeout, Cleanup, EndedWith, callVars, modeVars
<1>17. CASE Drain
  BY <1>17 DEF TypeOK, CallsTyped, Drain, connVars, callVars, cellVars
<1>18. CASE Close
  BY <1>18 DEF TypeOK, CallsTyped, Close, callVars
<1>20. ASSUME NEW o \in offers, HostSendsAuth(o) PROVE Typed'
  BY <1>20 DEF TypeOK, CallsTyped, HostSendsAuth, MacOver, Mac, Offer, connVars,
     callVars, cellVars, modeVars
<1>19. CASE UNCHANGED vars
  BY <1>19 DEF TypeOK, CallsTyped, vars, connVars, callVars, cellVars,
     modeVars, envVars
<1> QED
  BY <1>1, <1>2, <1>3, <1>4, <1>5, <1>6, <1>7, <1>8, <1>9, <1>10, <1>11,
     <1>12, <1>13, <1>14, <1>15, <1>16, <1>17, <1>18, <1>19, <1>20 DEF Next, ConnStep

\* Every variable of the cell stays in its type: in particular no handler ever
\* files undefined, or a connection of the wrong map, in a routing structure.
THEOREM TypeCorrect == Spec => []TypeOK
<1>1. Typed => TypeOK
  BY DEF Typed
<1> QED
  BY <1>1, InitTyped, NextTyped, PTL DEF Spec

-----------------------------------------------------------------------------
(* The inductive invariant. *)

HostsOK ==
    \A h \in Hosts : hosts[h] # None =>
        /\ open[hosts[h]] /\ role[hosts[h]] = "control"
        /\ hostId[hosts[h]] = h /\ keyed[hosts[h]] /\ peer[hosts[h]] = h

PendingOK ==
    \A t \in Tickets : pending[t] # None =>
        /\ open[pending[t]] /\ role[pending[t]] = "controller-data"
        /\ ticket[pending[t]] = t

BridgesOK ==
    \A b \in bridges :
        /\ open[b.controller] /\ role[b.controller] = "controller-data"
        /\ role[b.host] = "host-data"
        /\ ticket[b.controller] = b.ticket /\ ticket[b.host] = b.ticket

\* A ticket has one bridge at most, and none while it is pending.
OnePlace ==
    /\ \A a, b \in bridges : a.ticket = b.ticket => a = b
    /\ \A b \in bridges : pending[b.ticket] = None

TimersOK ==
    /\ \A x \in timers : pending[x.ticket] = x.controller
    /\ \A t \in Tickets : pending[t] # None =>
         [ticket |-> t, controller |-> pending[t]] \in timers

\* What the cell's routing structures say of its connections.
Routing == HostsOK /\ PendingOK /\ BridgesOK /\ OnePlace /\ TimersOK
             /\ CloseIsFinal

\* What a connection has not done yet in each phase.
Phases ==
    \A c \in Conns :
        /\ role[c] \in {"unborn", "unclassified", "control-pending"} =>
             ticket[c] = None
        /\ role[c] = "controller-data" /\ call[c] # "idle" => ticket[c] = None
        /\ challenge[c] /\ turn = c => open[c]

\* The ticket a controller connection has to itself: resolved for it and on
\* its way back, or taken.
Held(c) == IF role[c] # "controller-data" THEN None
           ELSE IF call[c] = "resolved" THEN arg[c] ELSE ticket[c]

\* With one-time tickets, a held ticket was deleted at the authorizer and has
\* one holder.
Holders ==
    ConsumeOnResolve =>
        /\ \A c \in Conns : Held(c) # None => Held(c) \in consumed
        /\ \A c, d \in Conns : Held(c) # None /\ Held(c) = Held(d) => c = d

\* The ticket a controller connection was admitted with.
Taken(c) == IF role[c] = "controller-data" THEN ticket[c] ELSE None

\* A ticket was taken once, and the cell remembers each one that was when the
\* authorizer does not.
Takers ==
    /\ \A c, d \in Conns : Taken(c) # None /\ Taken(c) = Taken(d) => c = d
    /\ ~ConsumeOnResolve =>
         /\ \A c \in Conns : Taken(c) # None => TicketUsed(Taken(c))
         /\ \A i, j \in 1..Len(used) : used[i] = used[j] => i = j

\* Either the authorizer deletes what it resolves, or the set of used tickets
\* has room for every ticket there is.  With neither, an evicted ticket admits
\* again.
SingleUseKept ==
    \/ ConsumeOnResolve
    \/ IsFiniteSet(Tickets) /\ Cardinality(Tickets) <= MaxUsedTickets

IInv == Typed /\ Routing /\ Phases /\ Holders /\ Takers

\* Connections in none of the routing structures, by their role.
Early == {"unborn", "unclassified", "control-pending"}

\* An empty cell satisfies the inductive invariant.
LEMMA InitIInv == Init => IInv
<1> SUFFICES ASSUME Init PROVE IInv
  OBVIOUS
<1>1. Routing
  BY DEF Init, Routing, HostsOK, PendingOK, BridgesOK, OnePlace, TimersOK,
     CloseIsFinal
<1>2. Phases /\ Holders /\ Takers
  BY DEF Init, Phases, Holders, Held, Takers, Taken
<1> QED
  BY <1>1, <1>2, InitTyped DEF IInv

\* No connection is an end of two bridges, or of one while it is pending.
LEMMA SharedEnds == Typed /\ Routing => NoSharedEnds
<1> SUFFICES ASSUME Typed, Routing PROVE NoSharedEnds
  OBVIOUS
<1>1. ASSUME NEW a \in bridges, NEW b \in bridges,
             {a.controller, a.host} \cap {b.controller, b.host} # {}
      PROVE  a = b
  BY <1>1 DEF Routing, BridgesOK, OnePlace, Typed, TypeOK, Bridge
<1>2. ASSUME NEW t \in Tickets, pending[t] # None
      PROVE  BridgesOf(pending[t]) = {}
  BY <1>2 DEF Routing, PendingOK, BridgesOK, OnePlace, BridgesOf, Typed,
     TypeOK, Bridge
<1> QED
  BY <1>1, <1>2 DEF NoSharedEnds

\* A step that leaves the structures alone, and touches no connection but one
\* too early to be in them.
LEMMA QuietRouting ==
    ASSUME Typed, Routing, NEW c \in Conns,
           UNCHANGED <<hosts, pending, timers, bridges, closed>>,
           \A d \in Conns :
              \/ /\ open'[d] = open[d] /\ role'[d] = role[d]
                 /\ hostId'[d] = hostId[d] /\ keyed'[d] = keyed[d]
                 /\ ticket'[d] = ticket[d] /\ peer'[d] = peer[d]
              \/ d = c /\ role[c] \in Early
    PROVE  Routing'
<1>1. HostsOK'
  <2> SUFFICES ASSUME NEW h \in Hosts, hosts[h] # None
               PROVE  /\ open'[hosts[h]] /\ role'[hosts[h]] = "control"
                      /\ hostId'[hosts[h]] = h /\ keyed'[hosts[h]]
                      /\ peer'[hosts[h]] = h
    BY DEF HostsOK
  <2>1. hosts[h] \in Conns /\ role[hosts[h]] \notin Early
    BY DEF Routing, HostsOK, Typed, TypeOK, Early
  <2> QED
    BY <2>1 DEF Routing, HostsOK
<1>2. PendingOK'
  BY DEF Routing, PendingOK, Typed, TypeOK, Early
<1>3. BridgesOK'
  BY DEF Routing, BridgesOK, Typed, TypeOK, Early, Bridge
<1>4. OnePlace' /\ TimersOK' /\ CloseIsFinal'
  BY DEF Routing, OnePlace, TimersOK, CloseIsFinal
<1> QED
  BY <1>1, <1>2, <1>3, <1>4 DEF Routing

\* Tearing one connection down keeps the routing structures in order, when the
\* step changes no role but that of a connection too early to be in them.
LEMMA TeardownRouting ==
    ASSUME Typed, Routing, NEW c \in Conns, Teardown(c),
           UNCHANGED <<hostId, ticket, peer, closed>>,
           \A d \in Conns : \/ role'[d] = role[d]
                            \/ d = c /\ role[c] \in Early
    PROVE  Routing'
<1>0. NoSharedEnds
  BY SharedEnds
<1>1. \A b \in bridges' : /\ b \in bridges
                          /\ b.controller \notin ClosedWith({c})
                          /\ b.host # c
  <2> SUFFICES ASSUME NEW b \in bridges'
               PROVE  /\ b \in bridges /\ b.host # c
                      /\ b.controller \notin ClosedWith({c})
    OBVIOUS
  <2>1. b \in bridges /\ b \notin BridgesOf(c)
    BY DEF Teardown, Cleanup, EndedWith
  <2>2. b.host # c /\ b.controller # c
    BY <2>1 DEF BridgesOf
  <2>3. ASSUME NEW a \in BridgesOf(c), b.controller \in {a.controller, a.host}
        PROVE  FALSE
    BY <1>0, <2>1, <2>3 DEF BridgesOf, NoSharedEnds
  <2> QED
    BY <2>1, <2>2, <2>3 DEF ClosedWith, EndedWith
<1>2. \A b \in bridges' : open'[b.controller]
  BY <1>1 DEF Teardown, Cleanup, EndedWith, Routing, BridgesOK, Typed, TypeOK, Bridge
<1>3. BridgesOK'
  BY <1>1, <1>2 DEF Routing, BridgesOK, Typed, TypeOK, Bridge, ClosedWith, EndedWith
<1>4. \A h \in Hosts : hosts'[h] # None =>
         /\ hosts'[h] = hosts[h] /\ hosts[h] # c
         /\ hosts[h] \notin ClosedWith({c})
  BY DEF Teardown, Cleanup, ClosedWith, EndedWith, BridgesOf, Routing, HostsOK,
     BridgesOK, Typed, TypeOK, Bridge
<1>5. HostsOK'
  <2> SUFFICES ASSUME NEW h \in Hosts, hosts'[h] # None
               PROVE  /\ open'[hosts'[h]] /\ role'[hosts'[h]] = "control"
                      /\ hostId'[hosts'[h]] = h /\ keyed'[hosts'[h]]
                      /\ peer'[hosts'[h]] = h
    BY DEF HostsOK
  <2>1. hosts'[h] = hosts[h] /\ hosts[h] \in Conns
    BY <1>4 DEF Typed, TypeOK
  <2>2. open'[hosts[h]] = open[hosts[h]] /\ keyed'[hosts[h]] = keyed[hosts[h]]
    BY <1>4, <2>1 DEF Teardown, Cleanup, EndedWith, Typed, TypeOK
  <2> QED
    BY <1>4, <2>1, <2>2 DEF Routing, HostsOK
<1>6. \A t \in Tickets : pending'[t] # None =>
         /\ pending'[t] = pending[t] /\ pending[t] # c
         /\ pending[t] \notin ClosedWith({c})
  BY <1>0 DEF Teardown, ClosedWith, EndedWith, BridgesOf, Routing, PendingOK,
     NoSharedEnds, Typed, TypeOK
<1>7. PendingOK'
  BY ZenonT(40), <1>6 DEF Teardown, Cleanup, EndedWith, Routing, PendingOK, Typed, TypeOK
<1>8. OnePlace'
  BY <1>1, <1>6 DEF Routing, OnePlace, Typed, TypeOK, Bridge
<1>9. TimersOK'
  BY <1>6 DEF Teardown, Routing, TimersOK, PendingOK, Typed, TypeOK, Timer
<1>10. CloseIsFinal'
  BY DEF Teardown, Cleanup, EndedWith, Routing, CloseIsFinal
<1> QED
  BY <1>3, <1>5, <1>7, <1>8, <1>9, <1>10 DEF Routing

\* Holding does not change, but a controller may give a ticket up.
LEMMA HeldKept ==
    ASSUME Holders, consumed \subseteq consumed',
           \A d \in Conns : Held(d)' \in {Held(d), None}
    PROVE  Holders'
BY DEF Holders

\* A bridge timer refuses the controller it was armed for: a teardown of it.
LEMMA TimeoutTearsDown ==
    ASSUME Typed, Routing, NEW x \in timers, BridgeTimeout(x)
    PROVE  x.controller \in Conns /\ Teardown(x.controller)
<1> DEFINE c == x.controller
<1>1. /\ c \in Conns /\ x.ticket \in Tickets /\ pending[x.ticket] = c
      /\ ticket[c] = x.ticket /\ x = [ticket |-> x.ticket, controller |-> c]
  BY NoneAssumption DEF Typed, TypeOK, Timer, Routing, TimersOK, PendingOK
<1>2. {d \in Conns : pending[x.ticket] = d} = {c}
  BY <1>1
<1>3. Cleanup({c})
  BY <1>2 DEF BridgeTimeout
<1>4. pending' = [t \in Tickets |-> IF ticket[c] = t /\ pending[t] = c
                                    THEN None ELSE pending[t]]
  BY <1>1 DEF BridgeTimeout, Typed, TypeOK
<1>5. timers' = {y \in timers : ~ /\ y.ticket = ticket[c]
                                  /\ y.controller = c
                                  /\ pending[y.ticket] = c}
  BY <1>1 DEF BridgeTimeout, Typed, TypeOK, Timer
<1> QED  BY <1>1, <1>3, <1>4, <1>5 DEF Teardown

\* What every step but the admission of a controller and a splice leaves alone:
\* nothing joins, who took which ticket stands, and what ends has closed ends.
Quiet ==
    /\ ticket' = ticket /\ used' = used
    /\ \A d \in Conns : role'[d] = role[d] \/ role[d] \in Early
    /\ \A t \in Tickets :
         \/ pending'[t] = pending[t]
         \/ pending'[t] = None /\ ~open'[pending[t]]
    /\ bridges' \subseteq bridges
    /\ \A b \in bridges \ bridges' : ~open'[b.controller] /\ ~open'[b.host]
    /\ \A b \in bridges' : open'[b.host] = open[b.host]

\* Tearing a connection down joins nothing and closes what it ends.
LEMMA TeardownQuiet ==
    ASSUME Typed, Routing, NEW c \in Conns, Teardown(c),
           UNCHANGED <<ticket, used>>,
           \A d \in Conns : role'[d] = role[d] \/ role[d] \in Early
    PROVE  Quiet
<1>0. NoSharedEnds
  BY SharedEnds
<1>1. \A t \in Tickets : \/ pending'[t] = pending[t]
                         \/ pending'[t] = None /\ ~open'[pending[t]]
  <2> SUFFICES ASSUME NEW t \in Tickets, pending'[t] # pending[t]
               PROVE  pending'[t] = None /\ ~open'[pending[t]]
    OBVIOUS
  <2>1. pending'[t] = None /\ pending[t] = c
    BY DEF Teardown
  <2>2. c \in ClosedWith({c})
    BY DEF ClosedWith
  <2> QED  BY <2>1, <2>2 DEF Teardown, Cleanup
<1>2. bridges' \subseteq bridges
  BY DEF Teardown, Cleanup
<1>3. \A b \in bridges \ bridges' : ~open'[b.controller] /\ ~open'[b.host]
  <2> SUFFICES ASSUME NEW b \in bridges, b \notin bridges'
               PROVE  ~open'[b.controller] /\ ~open'[b.host]
    OBVIOUS
  <2>1. b \in EndedWith({c}) /\ b.controller \in Conns /\ b.host \in Conns
    BY DEF Teardown, Cleanup, Typed, TypeOK, Bridge
  <2>2. b.controller \in ClosedWith({c}) /\ b.host \in ClosedWith({c})
    BY <2>1 DEF ClosedWith
  <2> QED  BY <2>1, <2>2 DEF Teardown, Cleanup
<1>4. \A b \in bridges' : open'[b.host] = open[b.host]
  <2> SUFFICES ASSUME NEW b \in bridges'
               PROVE  open'[b.host] = open[b.host]
    OBVIOUS
  <2>1. b \in bridges /\ b \notin BridgesOf(c) /\ b.host \in Conns
    BY DEF Teardown, Cleanup, EndedWith, Typed, TypeOK, Bridge
  <2>2. ASSUME NEW a \in BridgesOf(c), b.host \in {a.controller, a.host}
        PROVE  FALSE
    BY <1>0, <2>1, <2>2 DEF BridgesOf, NoSharedEnds
  <2>3. b.host \notin ClosedWith({c})
    BY <2>1, <2>2 DEF ClosedWith, EndedWith, BridgesOf
  <2> QED  BY <2>1, <2>3 DEF Teardown, Cleanup, Typed, TypeOK
<1> QED  BY <1>1, <1>2, <1>3, <1>4 DEF Quiet

\* Only an admission and a splice join anything.
LEMMA NextQuiet ==
    ASSUME Typed, Routing, Phases, [Next]_vars,
           \A c \in Conns : ~ControllerAdmitted(c),
           \A c \in Conns, t \in Tickets : \A m \in KnownMacs(c) :
              ~HostDialSpliced(c, t, m)
    PROVE  Quiet
<1> USE DEF Early
<1>1. ASSUME NEW c \in Conns, NEW p \in Parties, Accept(c, p) PROVE Quiet
  <2>1. \A d \in Conns : d # c => open'[d] = open[d]
    BY <1>1 DEF Accept, Typed, TypeOK
  <2>2. \A b \in bridges : b.host # c /\ b.host \in Conns
    BY <1>1 DEF Accept, Routing, BridgesOK, Typed, TypeOK, Bridge
  <2> QED  BY <1>1, <2>1, <2>2 DEF Accept, Quiet, Typed, TypeOK, cellVars
<1>2. ASSUME NEW c \in Conns, NEW h \in Hosts, HostHello(c, h) PROVE Quiet
  BY <1>2 DEF HostHello, Receives, Quiet, Typed, TypeOK, cellVars
<1>3. ASSUME NEW c \in Conns, RegistrationChallenged(c) PROVE Quiet
  BY <1>3 DEF RegistrationChallenged, Quiet, Typed, TypeOK, cellVars
<1>4. ASSUME NEW c \in Conns, CallRefused(c) PROVE Quiet
  BY <1>4, TeardownQuiet DEF CallRefused
<1>5. ASSUME NEW c \in Conns, CallTooLate(c) PROVE Quiet
  BY <1>5 DEF CallTooLate, Quiet, connVars, cellVars
<1>6. ASSUME NEW c \in Conns, ProofAccepted(c) PROVE Quiet
  <2>1. hostId[c] \in Hosts
    BY <1>6 DEF ProofAccepted, Challenged, Typed, TypeOK
  <2>2. \A d \in Conns : role[d] # "control" => open'[d] = open[d]
    BY <1>6, <2>1, NoneAssumption DEF ProofAccepted, Routing, HostsOK, Typed,
       TypeOK
  <2>3. \A b \in bridges : open'[b.host] = open[b.host]
    BY <2>2 DEF Routing, BridgesOK, Typed, TypeOK, Bridge
  <2>4. \A d \in Conns : role'[d] = role[d] \/ role[d] \in Early
    BY <1>6 DEF ProofAccepted, Receives, Typed, TypeOK
  <2> QED  BY <1>6, <2>3, <2>4 DEF ProofAccepted, Quiet
<1>7. ASSUME NEW c \in Conns, ProofRefused(c) PROVE Quiet
  BY <1>7, TeardownQuiet DEF ProofRefused
<1>8. ASSUME NEW c \in Conns, NEW t \in Tickets, ControllerAuth(c, t)
      PROVE  Quiet
  <2>1. \A d \in Conns : role'[d] = role[d] \/ role[d] \in Early
    BY <1>8 DEF ControllerAuth, Receives, Typed, TypeOK
  <2>2. CASE draining
    BY <1>8, <2>1, <2>2, TeardownQuiet DEF ControllerAuth
  <2>3. CASE ~draining
    BY <1>8, <2>1, <2>3 DEF ControllerAuth, NoTeardown, Quiet
  <2> QED  BY <2>2, <2>3
<1>9. ASSUME NEW c \in Conns, TicketResolved(c) PROVE Quiet
  BY <1>9 DEF TicketResolved, Quiet, connVars, cellVars
<1>10. ASSUME NEW c \in Conns, HostDialRefused(c) PROVE Quiet
  <2>1. \A d \in Conns : role'[d] = role[d] \/ role[d] \in Early
    BY <1>10 DEF HostDialRefused, Receives, Typed, TypeOK
  <2> QED  BY <1>10, <2>1, TeardownQuiet DEF HostDialRefused
<1>11. ASSUME NEW c \in Conns, OtherFrame(c) PROVE Quiet
  BY <1>11, TeardownQuiet DEF OtherFrame
<1>12. ASSUME NEW c \in Conns, FrameError(c) PROVE Quiet
  BY <1>12, TeardownQuiet DEF FrameError
<1>13. ASSUME NEW c \in Conns, PeerCloses(c) PROVE Quiet
  <2>1. CASE Monitored
    BY <1>13, <2>1, TeardownQuiet DEF PeerCloses
  <2>2. CASE ~Monitored
    BY <1>13, <2>2 DEF PeerCloses, NoTeardown, Quiet
  <2> QED  BY <2>1, <2>2
<1>14. ASSUME NEW x \in timers, BridgeTimeout(x) PROVE Quiet
  BY <1>14, TimeoutTearsDown, TeardownQuiet DEF BridgeTimeout
<1>15. CASE Drain
  BY <1>15 DEF Drain, Quiet, connVars, cellVars
<1>16. CASE Close
  <2>1. \A t \in Tickets : pending[t] = None \/ ~open'[pending[t]]
    <3> SUFFICES ASSUME NEW t \in Tickets, pending[t] # None
                 PROVE  ~open'[pending[t]]
      OBVIOUS
    <3>1. pending[t] \in Conns /\ pending[t] \in Reached
      BY DEF Typed, TypeOK, Reached
    <3> QED  BY <1>16, <3>1 DEF Close
  <2>2. \A b \in bridges : ~open'[b.controller] /\ ~open'[b.host]
    <3> SUFFICES ASSUME NEW b \in bridges
                 PROVE  ~open'[b.controller] /\ ~open'[b.host]
      OBVIOUS
    <3>1. b.controller \in Conns /\ b.host \in Conns
      BY DEF Typed, TypeOK, Bridge
    <3>2. b.controller \in Reached /\ b.host \in Reached
      BY DEF Reached
    <3> QED  BY <1>16, <3>1, <3>2 DEF Close
  <2> QED  BY <1>16, <2>1, <2>2 DEF Close, Quiet
<1>18. ASSUME NEW o \in offers, HostSendsAuth(o) PROVE Quiet
  BY <1>18 DEF HostSendsAuth, Quiet, connVars, cellVars
<1>17. CASE UNCHANGED vars
  BY <1>17 DEF Quiet, vars, connVars, cellVars
<1> QED
  BY <1>1, <1>2, <1>3, <1>4, <1>5, <1>6, <1>7, <1>8, <1>9, <1>10, <1>11,
     <1>12, <1>13, <1>14, <1>15, <1>16, <1>17, <1>18 DEF Next, ConnStep

\* The ticket of an admission was taken by nobody else: the authorizer gave it
\* to this connection alone, or the cell would have remembered it.
LEMMA FreshTicket ==
    ASSUME IInv, NEW c \in Conns, ControllerAdmitted(c)
    PROVE  /\ arg[c] \in Tickets /\ arg[c] # None
           /\ open[c] /\ ticket[c] = None /\ role[c] = "controller-data"
           /\ \A d \in Conns : Taken(d) # arg[c]
<1> USE DEF IInv
<1>1. /\ arg[c] \in Tickets /\ arg[c] # None
      /\ open[c] /\ ticket[c] = None /\ role[c] = "controller-data"
  BY NoneAssumption DEF ControllerAdmitted, StillLive, Typed, CallsTyped, Phases
<1>2. ASSUME ConsumeOnResolve, NEW d \in Conns, Taken(d) = arg[c] PROVE FALSE
  BY <1>1, <1>2 DEF ControllerAdmitted, Holders, Held, Taken, Phases, Typed,
     TypeOK
<1>3. ASSUME ~ConsumeOnResolve, NEW d \in Conns, Taken(d) = arg[c] PROVE FALSE
  BY <1>1, <1>3 DEF ControllerAdmitted, Takers
<1> QED  BY <1>1, <1>2, <1>3

\* A cell with room for every ticket evicts none that it may meet again.
LEMMA NothingForgotten ==
    ASSUME IInv, SingleUseKept, ~ConsumeOnResolve,
           NEW c \in Conns, ControllerAdmitted(c)
    PROVE  /\ used' = Append(used, arg[c])
           /\ \A i, j \in 1..Len(used') : used'[i] = used'[j] => i = j
<1> DEFINE t == arg[c]
           s == Append(used, t)
<1>1. t \in Tickets /\ used \in Seq(Tickets)
  BY FreshTicket DEF IInv, Typed, TypeOK
<1>2. /\ s \in Seq(Tickets) /\ Len(s) = Len(used) + 1 /\ Len(used) \in Nat
      /\ \A i \in 1..Len(used) : s[i] = used[i]
      /\ s[Len(used) + 1] = t
  BY <1>1
<1>3. \A i \in 1..Len(used) : used[i] # t
  BY DEF ControllerAdmitted, TicketUsed
<1>4. ASSUME NEW i \in 1..Len(s), NEW j \in 1..Len(s), s[i] = s[j]
      PROVE  i = j
  BY <1>2, <1>3, <1>4 DEF IInv, Takers
<1> HIDE DEF s
<1>5. s \in [1..Len(s) -> Tickets]
  BY <1>2
<1>6. s \in Injection(1..Len(s), Tickets)
  BY <1>4, <1>5 DEF Injection, IsInjective
<1>7. IsFiniteSet(Tickets) /\ Cardinality(Tickets) <= MaxUsedTickets
  BY DEF SingleUseKept
<1>8. Cardinality(1..Len(s)) <= Cardinality(Tickets)
  BY <1>6, <1>7, FS_Injection
<1>9. Cardinality(1..Len(s)) = Len(s)
  BY <1>2, FS_Interval
<1>10. Cardinality(Tickets) \in Nat
  BY <1>7, FS_CardinalityType
<1>11. Len(s) <= MaxUsedTickets
  BY <1>2, <1>7, <1>8, <1>9, <1>10, MaxUsedAssumption
<1>12. used' = s
  BY <1>2, <1>11, MaxUsedAssumption DEF ControllerAdmitted, MarkTicketUsed, s
<1> QED  BY <1>4, <1>12 DEF s

\* Every step keeps one taker per ticket.
LEMMA NextTakers ==
    ASSUME SingleUseKept, IInv, [Next]_vars
    PROVE  Takers'
<1> USE DEF IInv
<1>1. ASSUME NEW c \in Conns, ControllerAdmitted(c) PROVE Takers'
  <2> DEFINE t == arg[c]
  <2>1. Taken(c)' = t /\ \A d \in Conns : d # c => Taken(d)' = Taken(d)
    BY <1>1, FreshTicket DEF ControllerAdmitted, Taken, Typed, TypeOK
  <2>2. ASSUME NEW d \in Conns, NEW e \in Conns,
               Taken(d)' # None, Taken(d)' = Taken(e)'
        PROVE  d = e
    BY <1>1, <2>1, <2>2, FreshTicket DEF Takers
  <2>3. ASSUME ~ConsumeOnResolve, NEW d \in Conns, Taken(d)' # None
        PROVE  TicketUsed(Taken(d))'
    <3>1. used' = Append(used, t) /\ used \in Seq(Tickets) /\ t \in Tickets
      BY <1>1, <2>3, NothingForgotten, FreshTicket DEF Typed, TypeOK
    <3>2. Len(used') = Len(used) + 1 /\ used'[Len(used) + 1] = t
          /\ Len(used) \in Nat /\ \A i \in 1..Len(used) : used'[i] = used[i]
      BY <3>1
    <3>3. CASE d = c
      BY <2>1, <3>2, <3>3 DEF TicketUsed
    <3>4. CASE d # c
      BY <2>1, <2>3, <3>2, <3>4 DEF TicketUsed, Takers
    <3> QED  BY <3>3, <3>4
  <2> QED  BY <1>1, <2>2, <2>3, NothingForgotten DEF Takers
<1>2. ASSUME NEW c \in Conns, NEW t \in Tickets, NEW m \in KnownMacs(c),
             HostDialSpliced(c, t, m)
      PROVE  Takers'
  <2>1. \A d \in Conns : Taken(d)' = Taken(d)
    BY <1>2 DEF HostDialSpliced, Taken, Typed, TypeOK
  <2> QED  BY <1>2, <2>1 DEF HostDialSpliced, Takers, TicketUsed
<1>3. ASSUME Quiet PROVE Takers'
  <2>1. \A d \in Conns : Taken(d)' \in {Taken(d), None}
    BY <1>3 DEF Quiet, Taken, Phases, Early
  <2> QED  BY <1>3, <2>1 DEF Quiet, Takers, TicketUsed
<1> QED  BY <1>1, <1>2, <1>3, NextQuiet

\* Every step of the cell preserves the inductive invariant.
LEMMA NextIInv ==
    ASSUME SingleUseKept, IInv, [Next]_vars
    PROVE  IInv'
<1> USE DEF IInv
<1>0. Typed' /\ Takers'
  BY NextTyped, NextTakers
<1>1. ASSUME NEW c \in Conns, NEW p \in Parties, Accept(c, p) PROVE IInv'
  <2>1. Routing'
    BY <1>1, QuietRouting DEF Accept, Typed, TypeOK, cellVars, modeVars, Early
  <2>2. Phases'
    BY <1>1, NoneAssumption DEF Accept, Phases, Typed, TypeOK, CallsTyped, callVars
  <2>3. Holders'
    BY <1>1, HeldKept DEF Accept, Held, Typed, TypeOK, callVars
  <2> QED  BY <1>0, <2>1, <2>2, <2>3
<1>2. ASSUME NEW c \in Conns, NEW h \in Hosts, HostHello(c, h) PROVE IInv'
  <2>1. Routing'
    BY <1>2, QuietRouting DEF HostHello, Receives, Typed, TypeOK, cellVars,
       modeVars, Early
  <2>2. Phases'
    BY <1>2, NoneAssumption DEF HostHello, Receives, RestOfChunk, Phases,
       Typed, TypeOK, CallsTyped
  <2>3. Holders'
    BY <1>2, HeldKept DEF HostHello, Receives, Held, Typed, TypeOK
  <2> QED  BY <1>0, <2>1, <2>2, <2>3
<1>3. ASSUME NEW c \in Conns, RegistrationChallenged(c) PROVE IInv'
  <2>1. Routing'
    BY <1>3, QuietRouting DEF RegistrationChallenged, StillLive, Typed, TypeOK, cellVars,
       modeVars, Early
  <2>2. Phases'
    BY <1>3, NoneAssumption DEF RegistrationChallenged, StillLive, CallEnds, Phases,
       Typed, TypeOK
  <2>3. Holders'
    BY <1>3, HeldKept DEF RegistrationChallenged, StillLive, CallEnds, Held, Typed, TypeOK
  <2> QED  BY <1>0, <2>1, <2>2, <2>3
<1>4. ASSUME NEW c \in Conns, CallRefused(c) PROVE IInv'
  <2>1. Routing'
    BY <1>4, TeardownRouting DEF CallRefused, modeVars
  <2>2. Phases'
    BY <1>4, NoneAssumption DEF CallRefused, CallEnds, Phases, Typed, TypeOK
  <2>3. Holders'
    BY <1>4, HeldKept DEF CallRefused, CallEnds, Held, Phases, Typed, TypeOK
  <2> QED  BY <1>0, <2>1, <2>2, <2>3
<1>5. ASSUME NEW c \in Conns, CallTooLate(c) PROVE IInv'
  <2>1. Routing'
    BY <1>5, QuietRouting DEF CallTooLate, StillLive, connVars, cellVars, modeVars
  <2>2. Phases'
    BY <1>5, NoneAssumption DEF CallTooLate, StillLive, CallEnds, Phases, Typed, TypeOK,
       connVars
  <2>3. Holders'
    BY <1>5, HeldKept DEF CallTooLate, StillLive, CallEnds, Held, Phases, Typed, TypeOK,
       connVars
  <2> QED  BY <1>0, <2>1, <2>2, <2>3
<1>6. ASSUME NEW c \in Conns, ProofAccepted(c) PROVE IInv'
  <2> DEFINE h == hostId[c]
  <2>1. h \in Hosts /\ open[c] /\ role[c] = "control-pending" /\ peer[c] = h
    BY <1>6 DEF ProofAccepted, Challenged, Receives, CanReceive, Phases,
       Typed, TypeOK
  <2>2. hosts[h] # None => role[hosts[h]] = "control"
    BY <2>1 DEF Routing, HostsOK
  <2>3. \A d \in Conns : role[d] # "control" => open'[d] = open[d]
    BY <1>6, <2>1, <2>2, NoneAssumption DEF ProofAccepted, Typed, TypeOK
  <2>4. \A d \in Conns : d # c => role'[d] = role[d] /\ keyed'[d] = keyed[d]
    BY <1>6 DEF ProofAccepted, Typed, TypeOK
  <2>5. HostsOK'
    <3> SUFFICES ASSUME NEW k \in Hosts, hosts'[k] # None
                 PROVE  /\ open'[hosts'[k]] /\ role'[hosts'[k]] = "control"
                        /\ hostId'[hosts'[k]] = k /\ keyed'[hosts'[k]]
                        /\ peer'[hosts'[k]] = k
      BY DEF HostsOK
    <3>1. CASE k = h
      <4>1. hosts'[k] = c /\ open'[c] = open[c]
        BY <1>6, <2>1, <2>3, <3>1 DEF ProofAccepted, Typed, TypeOK
      <4> QED
        BY <1>6, <2>1, <3>1, <4>1 DEF ProofAccepted, Typed, TypeOK
    <3>2. CASE k # h
      <4>1. hosts'[k] = hosts[k] /\ hosts[k] \in Conns /\ hosts[k] # c
        BY <1>6, <2>1, <3>2 DEF ProofAccepted, Typed, TypeOK, Routing, HostsOK
      <4>2. hosts[k] # hosts[h]
        BY <2>1, <3>2, <4>1 DEF Routing, HostsOK, Typed, TypeOK
      <4>3. open'[hosts[k]] = open[hosts[k]]
        BY <1>6, <4>1, <4>2 DEF ProofAccepted, Typed, TypeOK
      <4> QED
        BY <1>6, <2>4, <4>1, <4>3 DEF ProofAccepted, Routing, HostsOK
    <3> QED  BY <3>1, <3>2
  <2>6. PendingOK'
    BY <1>6, <2>1, <2>3, <2>4 DEF ProofAccepted, Routing, PendingOK, Typed,
       TypeOK
  <2>7. BridgesOK'
    BY <1>6, <2>1, <2>3, <2>4 DEF ProofAccepted, Routing, BridgesOK, Typed,
       TypeOK, Bridge
  <2>8. OnePlace' /\ TimersOK' /\ CloseIsFinal'
    BY <1>6 DEF ProofAccepted, Routing, OnePlace, TimersOK, CloseIsFinal,
       modeVars
  <2>9. Phases'
    BY <1>6, NoneAssumption DEF ProofAccepted, RestOfChunk, Receives, Phases,
       Typed, TypeOK, CallsTyped, callVars
  <2>10. Holders'
    BY <1>6, HeldKept DEF ProofAccepted, Receives, Held, Typed, TypeOK,
       callVars
  <2> QED  BY <1>0, <2>5, <2>6, <2>7, <2>8, <2>9, <2>10 DEF Routing
<1>7. ASSUME NEW c \in Conns, ProofRefused(c) PROVE IInv'
  <2>1. Routing'
    BY <1>7, TeardownRouting DEF ProofRefused, modeVars
  <2>2. Phases'
    BY <1>7, NoneAssumption DEF ProofRefused, RestOfChunk, Receives, Phases,
       Typed, TypeOK, callVars
  <2>3. Holders'
    BY <1>7, HeldKept DEF ProofRefused, Held, callVars
  <2> QED  BY <1>0, <2>1, <2>2, <2>3
<1>8. ASSUME NEW c \in Conns, NEW t \in Tickets, ControllerAuth(c, t)
      PROVE  IInv'
  <2>1. Routing'
    <3>1. CASE draining
      BY <1>8, <3>1, TeardownRouting DEF ControllerAuth, Receives, modeVars,
         Early, Typed, TypeOK
    <3>2. CASE ~draining
      BY <1>8, <3>2, QuietRouting DEF ControllerAuth, Receives, NoTeardown,
         modeVars, Early, Typed, TypeOK
    <3> QED  BY <3>1, <3>2
  <2>2. Phases'
    BY <1>8, NoneAssumption DEF ControllerAuth, RestOfChunk, Receives, Phases,
       Typed, TypeOK, CallsTyped
  <2>3. Holders'
    BY <1>8, HeldKept DEF ControllerAuth, Receives, Held, Phases, Typed,
       TypeOK, CallsTyped
  <2> QED  BY <1>0, <2>1, <2>2, <2>3
<1>9. ASSUME NEW c \in Conns, TicketResolved(c) PROVE IInv'
  <2>1. Routing'
    BY <1>9, QuietRouting DEF TicketResolved, connVars, cellVars, modeVars
  <2>2. Phases'
    BY <1>9, NoneAssumption DEF TicketResolved, Phases, Typed, TypeOK, connVars
  <2>3. Held(c)' = arg[c] /\ \A d \in Conns : d # c => Held(d)' = Held(d)
    BY <1>9 DEF TicketResolved, Held, Typed, TypeOK, connVars
  <2>4. Holders'
    BY <1>9, <2>3 DEF TicketResolved, Holders, Typed, TypeOK
  <2> QED  BY <1>0, <2>1, <2>2, <2>4
<1>10. ASSUME NEW c \in Conns, ControllerAdmitted(c) PROVE IInv'
  <2> DEFINE t == arg[c]
  <2>1. t \in Tickets /\ open[c] /\ ticket[c] = None /\ t # None
    BY <1>10, NoneAssumption DEF ControllerAdmitted, StillLive, Online, ArmTimer, Typed, CallsTyped, Phases
  <2>2. \A d \in Conns : role[d] = "controller-data" /\ d # c => ticket[d] # t
    BY <1>10, FreshTicket DEF Taken
  <2>3. pending[t] = None /\ \A b \in bridges : b.ticket # t
    BY <2>1, <2>2 DEF Routing, PendingOK, BridgesOK, Typed, TypeOK, Bridge
  <2>4. HostsOK'
    BY <1>10 DEF ControllerAdmitted, StillLive, Online, ArmTimer, Routing, HostsOK, Typed, TypeOK, modeVars
  <2>5. PendingOK'
    <3> SUFFICES ASSUME NEW u \in Tickets, pending'[u] # None
                 PROVE  /\ open[pending'[u]]
                        /\ role[pending'[u]] = "controller-data"
                        /\ ticket'[pending'[u]] = u
      BY <1>10 DEF ControllerAdmitted, StillLive, Online, ArmTimer, PendingOK
    <3>1. CASE u = t
      <4>1. pending'[u] = c /\ ticket'[c] = t
        BY <1>10, <2>1, <3>1 DEF ControllerAdmitted, StillLive, Online, ArmTimer, Typed, TypeOK
      <4> QED  BY <1>10, <2>1, <3>1, <4>1 DEF ControllerAdmitted, StillLive, Online, ArmTimer
    <3>2. CASE u # t
      <4>1. pending'[u] = pending[u] /\ pending[u] \in Conns
        BY <1>10, <2>1, <3>2 DEF ControllerAdmitted, StillLive, Online, ArmTimer, Typed, TypeOK
      <4>2. pending[u] # c
        BY <2>1, <4>1, NoneAssumption DEF Routing, PendingOK
      <4>3. ticket'[pending[u]] = ticket[pending[u]]
        BY <1>10, <4>1, <4>2 DEF ControllerAdmitted, StillLive, Online, ArmTimer, Typed, TypeOK
      <4> QED  BY <4>1, <4>3 DEF Routing, PendingOK
    <3> QED  BY <3>1, <3>2
  <2>6. BridgesOK'
    <3> SUFFICES ASSUME NEW b \in bridges
                 PROVE  /\ open[b.controller]
                        /\ role[b.controller] = "controller-data"
                        /\ role[b.host] = "host-data"
                        /\ ticket'[b.controller] = b.ticket
                        /\ ticket'[b.host] = b.ticket
      BY <1>10 DEF ControllerAdmitted, StillLive, Online, ArmTimer, BridgesOK
    <3>1. b.controller \in Conns /\ b.host \in Conns /\ b.ticket \in Tickets
      BY DEF Typed, TypeOK, Bridge
    <3>2. b.controller # c /\ b.host # c
      BY <2>1, <3>1, NoneAssumption DEF Routing, BridgesOK
    <3>3. \A d \in Conns : d # c => ticket'[d] = ticket[d]
      BY <1>10 DEF ControllerAdmitted, StillLive, Online, ArmTimer, Typed, TypeOK
    <3> QED  BY <3>1, <3>2, <3>3 DEF Routing, BridgesOK
  <2>7. OnePlace'
    BY <1>10, <2>1, <2>3 DEF ControllerAdmitted, StillLive, Online, ArmTimer, Routing, OnePlace, Typed,
       TypeOK, Bridge
  <2>8. TimersOK'
    BY <1>10, <2>1, <2>3, NoneAssumption DEF ControllerAdmitted, StillLive, Online, ArmTimer, Routing,
       TimersOK, Typed, TypeOK, Timer
  <2>9. CloseIsFinal'
    BY <1>10 DEF ControllerAdmitted, StillLive, Online, ArmTimer, CloseIsFinal, modeVars
  <2>10. Phases'
    BY <1>10, <2>1, NoneAssumption DEF ControllerAdmitted, StillLive, Online, ArmTimer, CallEnds, Phases,
       Typed, TypeOK
  <2>11. Holders'
    BY <1>10, HeldKept DEF ControllerAdmitted, StillLive, Online, ArmTimer, CallEnds, Held, Typed, TypeOK
  <2> QED
    BY <1>0, <2>4, <2>5, <2>6, <2>7, <2>8, <2>9, <2>10, <2>11 DEF Routing
<1>11. ASSUME NEW c \in Conns, NEW t \in Tickets, NEW m \in KnownMacs(c),
              HostDialSpliced(c, t, m)
       PROVE  IInv'
  <2> DEFINE w == pending[t]
             b == [ticket |-> t, controller |-> w, host |-> c]
  <2>1. /\ w \in Conns /\ open[w] /\ role[w] = "controller-data"
        /\ ticket[w] = t /\ w # c /\ b \in Bridge
    BY <1>11 DEF HostDialSpliced, Splice, Typed, TypeOK, Routing, PendingOK, Bridge
  <2>3. \A a \in bridges : a.ticket # t
    BY <1>11 DEF HostDialSpliced, Splice, Routing, OnePlace
  <2>4. HostsOK'
    BY <1>11 DEF HostDialSpliced, Splice, Routing, HostsOK, Typed, TypeOK
  <2>5. PendingOK'
    BY <1>11 DEF HostDialSpliced, Splice, Routing, PendingOK, Typed, TypeOK
  <2>6. BridgesOK'
    <3> SUFFICES ASSUME NEW a \in bridges'
                 PROVE  /\ open'[a.controller]
                        /\ role'[a.controller] = "controller-data"
                        /\ role'[a.host] = "host-data"
                        /\ ticket'[a.controller] = a.ticket
                        /\ ticket'[a.host] = a.ticket
      BY DEF BridgesOK
    <3>1. CASE a = b
      BY <1>11, <2>1, <3>1 DEF HostDialSpliced, Splice, Typed, TypeOK
    <3>2. CASE a \in bridges
      BY <1>11, <3>2 DEF HostDialSpliced, Splice, Routing, BridgesOK, Typed, TypeOK,
         Bridge
    <3> QED  BY <1>11, <3>1, <3>2 DEF HostDialSpliced, Splice
  <2>7. OnePlace'
    BY <1>11, <2>1, <2>3 DEF HostDialSpliced, Splice, Routing, OnePlace, Typed,
       TypeOK, Bridge
  <2>8. TimersOK'
    BY <1>11, <2>1 DEF HostDialSpliced, Splice, Routing, TimersOK, Typed, TypeOK,
       Timer
  <2>9. CloseIsFinal'
    BY <1>11 DEF HostDialSpliced, Splice, Routing, CloseIsFinal, modeVars
  <2>10. Phases'
    BY <1>11, NoneAssumption DEF HostDialSpliced, Splice, Phases, Typed, TypeOK,
       CallsTyped, callVars
  <2>11. Holders'
    BY <1>11, HeldKept DEF HostDialSpliced, Splice, Held, Typed, TypeOK, callVars
  <2> QED
    BY <1>0, <2>4, <2>5, <2>6, <2>7, <2>8, <2>9, <2>10, <2>11 DEF Routing
<1>12. ASSUME NEW c \in Conns, HostDialRefused(c) PROVE IInv'
  <2>1. Routing'
    BY <1>12, TeardownRouting DEF HostDialRefused, Receives, modeVars, Early,
       Typed, TypeOK
  <2>2. Phases'
    BY <1>12, NoneAssumption DEF HostDialRefused, RestOfChunk, Receives,
       Phases, Typed, TypeOK, CallsTyped, callVars
  <2>3. Holders'
    BY <1>12, HeldKept DEF HostDialRefused, Receives, Held, Phases, Typed,
       TypeOK, callVars
  <2> QED  BY <1>0, <2>1, <2>2, <2>3
<1>13. ASSUME NEW c \in Conns, OtherFrame(c) PROVE IInv'
  <2>1. Routing'
    BY <1>13, TeardownRouting DEF OtherFrame, modeVars
  <2>2. Phases'
    BY <1>13, NoneAssumption DEF OtherFrame, RestOfChunk, Receives, Phases,
       Typed, TypeOK, CallsTyped, callVars
  <2>3. Holders'
    BY <1>13, HeldKept DEF OtherFrame, Held, callVars
  <2> QED  BY <1>0, <2>1, <2>2, <2>3
<1>14. ASSUME NEW c \in Conns, FrameError(c) PROVE IInv'
  <2>1. Routing'
    BY <1>14, TeardownRouting DEF FrameError, modeVars
  <2>2. Phases'
    BY <1>14, NoneAssumption DEF FrameError, Phases, callVars
  <2>3. Holders'
    BY <1>14, HeldKept DEF FrameError, Held, callVars
  <2> QED  BY <1>0, <2>1, <2>2, <2>3
<1>15. ASSUME NEW c \in Conns, PeerCloses(c) PROVE IInv'
  <2>1. Routing'
    <3>1. CASE Monitored
      BY <1>15, <3>1, TeardownRouting DEF PeerCloses, modeVars
    <3>2. CASE ~Monitored
      BY <1>15, <3>2, QuietRouting DEF PeerCloses, NoTeardown, modeVars
    <3> QED  BY <3>1, <3>2
  <2>2. Phases'
    BY <1>15, NoneAssumption DEF PeerCloses, Phases, callVars
  <2>3. Holders'
    BY <1>15, HeldKept DEF PeerCloses, Held, callVars
  <2> QED  BY <1>0, <2>1, <2>2, <2>3
<1>16. ASSUME NEW x \in timers, BridgeTimeout(x) PROVE IInv'
  <2>3. Routing'
    BY <1>16, TimeoutTearsDown, TeardownRouting DEF BridgeTimeout, modeVars
  <2>4. Phases'
    BY <1>16, NoneAssumption DEF BridgeTimeout, Phases, callVars
  <2>5. Holders'
    BY <1>16, HeldKept DEF BridgeTimeout, Held, callVars
  <2> QED  BY <1>0, <2>3, <2>4, <2>5
<1>17. CASE Drain
  <2>1. Routing'
    BY <1>17 DEF Drain, connVars, cellVars, Routing, HostsOK, PendingOK,
       BridgesOK, OnePlace, TimersOK, CloseIsFinal
  <2>2. Phases'
    BY <1>17, NoneAssumption DEF Drain, Phases, callVars, connVars
  <2>3. Holders'
    BY <1>17, HeldKept DEF Drain, Held, callVars, connVars
  <2> QED  BY <1>0, <2>1, <2>2, <2>3
<1>18. CASE Close
  <2>1. timers' = {}
    BY <1>18 DEF Close, Routing, TimersOK
  <2>2. Routing'
    BY <1>18, <2>1 DEF Close, Routing, HostsOK, PendingOK, BridgesOK,
       OnePlace, TimersOK, CloseIsFinal
  <2>3. Phases'
    BY <1>18, NoneAssumption DEF Close, Phases, callVars
  <2>4. Holders'
    BY <1>18, HeldKept DEF Close, Held, callVars
  <2> QED  BY <1>0, <2>2, <2>3, <2>4
<1>20. ASSUME NEW o \in offers, HostSendsAuth(o) PROVE IInv'
  BY <1>0, <1>20, NoneAssumption DEF HostSendsAuth, Routing, HostsOK, PendingOK, BridgesOK,
     OnePlace, TimersOK, CloseIsFinal, Phases, Holders, Held, connVars,
     callVars, cellVars, modeVars
<1>19. CASE UNCHANGED vars
  BY <1>0, <1>19 DEF Routing, HostsOK, PendingOK, BridgesOK, OnePlace,
     TimersOK, CloseIsFinal, Phases, Holders, Held, vars, connVars, callVars,
     cellVars, modeVars, envVars
<1> QED
  BY <1>1, <1>2, <1>3, <1>4, <1>5, <1>6, <1>7, <1>8, <1>9, <1>10, <1>11,
     <1>12, <1>13, <1>14, <1>15, <1>16, <1>17, <1>18, <1>19, <1>20 DEF Next, ConnStep

\* The safety properties follow from the inductive invariant.
LEMMA IInvSafe ==
    IInv => /\ RoutedConnsLive /\ NoSharedEnds
            /\ TicketSingleUse /\ TimersMatchPending /\ CloseIsFinal
<1> SUFFICES ASSUME IInv
             PROVE  /\ RoutedConnsLive /\ NoSharedEnds
                    /\ TicketSingleUse /\ TimersMatchPending /\ CloseIsFinal
  OBVIOUS
<1>1. RoutedConnsLive
  BY DEF IInv, Routing, RoutedConnsLive, HostsOK, PendingOK, BridgesOK
<1>2. NoSharedEnds
  BY SharedEnds DEF IInv
<1>4. TicketSingleUse
  BY DEF IInv, Takers, Taken, TicketSingleUse
<1>5. TimersMatchPending
  <2>1. ASSUME NEW x \in timers
        PROVE  /\ x.ticket \in Tickets /\ pending[x.ticket] # None
               /\ x = [ticket |-> x.ticket, controller |-> pending[x.ticket]]
    BY NoneAssumption DEF IInv, Typed, TypeOK, Timer, Routing, TimersOK
  <2>2. ASSUME NEW t \in Tickets, pending[t] # None
        PROVE  [ticket |-> t, controller |-> pending[t]] \in timers
    BY <2>2 DEF IInv, Routing, TimersOK
  <2> QED  BY <2>1, <2>2 DEF TimersMatchPending
<1>6. CloseIsFinal
  BY DEF IInv, Routing
<1> QED  BY <1>1, <1>2, <1>4, <1>5, <1>6

\* The inductive invariant holds in every reachable state.
LEMMA SpecIInv ==
    ASSUME SingleUseKept
    PROVE  Spec => []IInv
BY InitIInv, NextIInv, PTL DEF Spec

\* While single use is kept, whatever connects and however its frames, the
\* authorizer's answers, timers and closes interleave: the cell routes only by
\* live connections, no connection is an end of two bridges, and bridge timers
\* match the pending bridges.
THEOREM RoutingSafe ==
    ASSUME SingleUseKept
    PROVE  Spec => []RoutingConsistent
BY SpecIInv, IInvSafe, PTL DEF RoutingConsistent

\* A ticket admits at most one controller: with one-time tickets even when the
\* cell remembers none (MaxUsedTickets = 0), and otherwise as long as #usedTickets
\* has room for every ticket.
THEOREM SingleUse ==
    ASSUME SingleUseKept
    PROVE  Spec => []TicketSingleUse
BY SpecIInv, IInvSafe, PTL

\* While single use is kept, close() is final for bridges, pending bridges and
\* their timers: no authorizer answer that arrives later brings one back.
THEOREM CloseFinal ==
    ASSUME SingleUseKept
    PROVE  Spec => []CloseIsFinal
BY SpecIInv, IInvSafe, PTL

-----------------------------------------------------------------------------
(* What ends, and by whose step. *)

\* Tearing c down ends only bridges of c, and pending bridges where c waits.
LEMMA TeardownOwn ==
    ASSUME NEW c \in Conns, Teardown(c)
    PROVE  /\ \A b \in bridges \ bridges' : c \in {b.controller, b.host}
           /\ \A t \in Tickets : pending'[t] # pending[t] => pending[t] = c
BY DEF Teardown, Cleanup, EndedWith, BridgesOf

\* A step of c ends only bridges of c.  It takes a pending bridge only where c
\* itself waits, or by splicing c to it.
LEMMA StepOwn ==
    ASSUME IInv, NEW c \in Conns, ConnStep(c)
    PROVE  /\ \A b \in bridges \ bridges' : c \in {b.controller, b.host}
           /\ \A t \in Tickets : pending[t] # None /\ pending'[t] # pending[t] =>
                \/ pending[t] = c
                \/ \E m \in KnownMacs(c) : HostDialSpliced(c, t, m)
<1> DEFINE Own ==
      /\ \A b \in bridges \ bridges' : c \in {b.controller, b.host}
      /\ \A t \in Tickets : pending[t] # None /\ pending'[t] # pending[t] =>
           \/ pending[t] = c
           \/ \E m \in KnownMacs(c) : HostDialSpliced(c, t, m)
<1>1. ASSUME UNCHANGED <<bridges, pending>> PROVE Own
  BY <1>1
<1>2. ASSUME Teardown(c) PROVE Own
  BY <1>2, TeardownOwn
<1>3. ASSUME NEW p \in Parties, Accept(c, p) PROVE Own
  BY <1>3, <1>1 DEF Accept, cellVars
<1>4. ASSUME NEW h \in Hosts, HostHello(c, h) PROVE Own
  BY <1>4, <1>1 DEF HostHello, cellVars
<1>5. ASSUME RegistrationChallenged(c) PROVE Own
  BY <1>5, <1>1 DEF RegistrationChallenged, cellVars
<1>6. ASSUME CallRefused(c) PROVE Own
  BY <1>6, <1>2 DEF CallRefused
<1>7. ASSUME CallTooLate(c) PROVE Own
  BY <1>7, <1>1 DEF CallTooLate, cellVars
<1>8. ASSUME ProofAccepted(c) PROVE Own
  BY <1>8, <1>1 DEF ProofAccepted
<1>9. ASSUME ProofRefused(c) PROVE Own
  BY <1>9, <1>2 DEF ProofRefused
<1>10. ASSUME NEW t \in Tickets, ControllerAuth(c, t) PROVE Own
  BY <1>10, <1>1, <1>2 DEF ControllerAuth, NoTeardown
<1>11. ASSUME TicketResolved(c) PROVE Own
  BY <1>11, <1>1 DEF TicketResolved, cellVars
<1>12. ASSUME ControllerAdmitted(c) PROVE Own
  <2>1. pending[arg[c]] = None
    BY <1>12, FreshTicket DEF IInv, Routing, PendingOK, Typed, TypeOK, Taken
  <2> QED  BY <1>12, <2>1 DEF ControllerAdmitted, IInv, Typed, TypeOK
<1>13. ASSUME NEW u \in Tickets, NEW m \in KnownMacs(c),
              HostDialSpliced(c, u, m)
       PROVE  Own
  <2>1. bridges \subseteq bridges'
    BY <1>13 DEF HostDialSpliced, Splice
  <2>2. \A t \in Tickets : t # u => pending'[t] = pending[t]
    BY <1>13 DEF HostDialSpliced, Splice, IInv, Typed, TypeOK
  <2> QED  BY <1>13, <2>1, <2>2
<1>14. ASSUME HostDialRefused(c) PROVE Own
  BY <1>14, <1>2 DEF HostDialRefused
<1>15. ASSUME OtherFrame(c) PROVE Own
  BY <1>15, <1>2 DEF OtherFrame
<1>16. ASSUME FrameError(c) PROVE Own
  BY <1>16, <1>2 DEF FrameError
<1>17. ASSUME PeerCloses(c) PROVE Own
  BY <1>17, <1>1, <1>2 DEF PeerCloses, NoTeardown
<1> HIDE DEF Own
<1>18. Own
  BY <1>3, <1>4, <1>5, <1>6, <1>7, <1>8, <1>9, <1>10, <1>11, <1>12, <1>13,
     <1>14, <1>15, <1>16, <1>17 DEF ConnStep
<1> QED  BY <1>18 DEF Own

\* A bridge timer ends no bridge, and takes only the pending bridge it is for.
LEMMA TimeoutOwn ==
    ASSUME IInv, NEW x \in timers, BridgeTimeout(x)
    PROVE  /\ bridges' = bridges
           /\ \A t \in Tickets : pending'[t] # pending[t] =>
                x = [ticket |-> t, controller |-> pending[t]]
<1>1. /\ x.controller \in Conns /\ x.ticket \in Tickets
      /\ pending[x.ticket] = x.controller
      /\ x = [ticket |-> x.ticket, controller |-> x.controller]
  BY DEF IInv, Typed, TypeOK, Timer, Routing, TimersOK
<1>2. x.controller # None
  BY <1>1, NoneAssumption
<1>3. BridgesOf(x.controller) = {}
  BY <1>1, <1>2, SharedEnds DEF IInv, NoSharedEnds
<1>4. bridges' = bridges
  BY <1>1, <1>3 DEF BridgeTimeout, Cleanup, EndedWith
<1> QED  BY <1>1, <1>4 DEF BridgeTimeout, IInv, Typed, TypeOK

\* Whose step ends a bridge, and whose takes a pending one.
LEMMA StepUndisturbed ==
    ASSUME IInv, [Next]_vars
    PROVE  /\ \A b \in bridges \ bridges' :
                /\ ~open'[b.controller] /\ ~open'[b.host]
                /\ Close \/ \E c \in {b.controller, b.host} : ConnStep(c)
           /\ \A t \in Tickets : pending[t] # None /\ pending'[t] # pending[t] =>
                \/ \E c \in Conns : \E m \in KnownMacs(c) : HostDialSpliced(c, t, m)
                \/ ConnStep(pending[t])
                \/ BridgeTimeout([ticket |-> t, controller |-> pending[t]])
                \/ Close
<1> DEFINE Ends == \A b \in bridges \ bridges' :
                     Close \/ \E c \in {b.controller, b.host} : ConnStep(c)
           Goes == \A t \in Tickets : pending[t] # None /\ pending'[t] # pending[t] =>
                \/ \E c \in Conns : \E m \in KnownMacs(c) : HostDialSpliced(c, t, m)
                \/ ConnStep(pending[t])
                \/ BridgeTimeout([ticket |-> t, controller |-> pending[t]])
                \/ Close
<1>1. \A b \in bridges \ bridges' : ~open'[b.controller] /\ ~open'[b.host]
  <2>1. ASSUME NEW c \in Conns, ControllerAdmitted(c) PROVE bridges' = bridges
    BY <2>1 DEF ControllerAdmitted
  <2>2. ASSUME NEW c \in Conns, NEW t \in Tickets, NEW m \in KnownMacs(c),
               HostDialSpliced(c, t, m)
        PROVE  bridges \subseteq bridges'
    BY <2>2 DEF HostDialSpliced, Splice
  <2>3. Quiet => \A b \in bridges \ bridges' : ~open'[b.controller] /\ ~open'[b.host]
    BY DEF Quiet
  <2> QED  BY <2>1, <2>2, <2>3, NextQuiet DEF IInv
<1>2. ASSUME NEW c \in Conns, ConnStep(c) PROVE Ends /\ Goes
  BY <1>2, StepOwn
<1>3. ASSUME NEW x \in timers, BridgeTimeout(x) PROVE Ends /\ Goes
  BY <1>3, TimeoutOwn
<1>4. ASSUME UNCHANGED <<bridges, pending>> PROVE Ends /\ Goes
  BY <1>4
<1>5. ASSUME NEW o \in offers, HostSendsAuth(o) PROVE UNCHANGED <<bridges, pending>>
  BY <1>5 DEF HostSendsAuth, cellVars
<1>6. ASSUME Drain \/ UNCHANGED vars PROVE UNCHANGED <<bridges, pending>>
  BY <1>6 DEF Drain, vars, cellVars
<1>7. ASSUME Close PROVE Ends /\ Goes
  BY <1>7
<1> HIDE DEF Ends, Goes
<1>8. Ends /\ Goes
  BY <1>2, <1>3, <1>4, <1>5, <1>6, <1>7 DEF Next, Ends, Goes
<1> QED  BY <1>1, <1>8 DEF Ends, Goes

\* A bridge ends only by a step of one of its own ends or by close(), and with
\* both ends closed; a pending bridge goes only by its splice, a step of its own
\* controller, its own timer or close(): #cleanup, #refuse, #onBridgeTimeout,
\* #completeHostDial and drain() never reach another connection's.
THEOREM Undisturbed ==
    ASSUME SingleUseKept
    PROVE  Spec => BridgesUndisturbed
<1>1. ASSUME IInv, [Next]_vars
      PROVE  [\A b \in bridges \ bridges' :
                /\ ~open'[b.controller] /\ ~open'[b.host]
                /\ Close \/ \E c \in {b.controller, b.host} : ConnStep(c)]_vars
  BY <1>1, StepUndisturbed
<1>2. ASSUME IInv, [Next]_vars
      PROVE  [\A t \in Tickets : pending[t] # None /\ pending'[t] # pending[t] =>
                \/ \E c \in Conns : \E m \in KnownMacs(c) : HostDialSpliced(c, t, m)
                \/ ConnStep(pending[t])
                \/ BridgeTimeout([ticket |-> t, controller |-> pending[t]])
                \/ Close]_vars
  BY <1>2, StepUndisturbed
<1> QED
  BY <1>1, <1>2, SpecIInv, PTL
  DEF Spec, BridgesUndisturbed, BridgeEndsByItsEnds, PendingGoesByItsOwn

-----------------------------------------------------------------------------
(* Who is at the host end of a bridge. *)

\* The connections that conn-opens and data-auths speak of were accepted: who is
\* behind them is settled.
Settled ==
    /\ \A o \in offers : role[o.control] # "unborn"
    /\ \A m \in sent : role[m.key] # "unborn"

\* Who is behind an accepted connection stays, and what was sent stays sent.
LEMMA PeersLast ==
    ASSUME Typed, [Next]_vars
    PROVE  /\ \A d \in Conns : role[d] # "unborn" =>
                role'[d] # "unborn" /\ peer'[d] = peer[d]
           /\ \/ sent' = sent
              \/ \E o \in offers : sent' = sent \cup {MacOver(o.control, o)}
           /\ \/ offers' = offers
              \/ \E c \in Conns : ControllerAdmitted(c)
<1> DEFINE Last(d) == role'[d] # "unborn" /\ peer'[d] = peer[d]
           Kept == sent' = sent /\ offers' = offers
<1>1. ASSUME NEW c \in Conns, NEW p \in Parties, Accept(c, p)
      PROVE  Kept /\ \A d \in Conns : role[d] # "unborn" => Last(d)
  BY <1>1 DEF Accept, Typed, TypeOK
<1>2. ASSUME NEW c \in Conns,
             \/ RegistrationChallenged(c) \/ CallRefused(c) \/ CallTooLate(c)
             \/ ProofRefused(c) \/ TicketResolved(c) \/ OtherFrame(c)
             \/ FrameError(c) \/ PeerCloses(c)
      PROVE  Kept /\ \A d \in Conns : role[d] # "unborn" => Last(d)
  BY <1>2 DEF RegistrationChallenged, CallRefused, CallTooLate, ProofRefused,
     TicketResolved, OtherFrame, FrameError, PeerCloses, connVars
<1>3. ASSUME NEW c \in Conns,
             \/ \E h \in Hosts : HostHello(c, h)
             \/ ProofAccepted(c)
             \/ \E t \in Tickets : ControllerAuth(c, t)
             \/ \E t \in Tickets : \E m \in KnownMacs(c) : HostDialSpliced(c, t, m)
             \/ HostDialRefused(c)
      PROVE  Kept /\ \A d \in Conns : role[d] # "unborn" => Last(d)
  BY <1>3 DEF HostHello, ProofAccepted, ControllerAuth, HostDialSpliced,
     HostDialRefused, Typed, TypeOK
<1>4. ASSUME NEW c \in Conns, ControllerAdmitted(c)
      PROVE  sent' = sent /\ \A d \in Conns : role[d] # "unborn" => Last(d)
  BY <1>4 DEF ControllerAdmitted
<1>5. ASSUME NEW o \in offers, HostSendsAuth(o)
      PROVE  /\ sent' = sent \cup {MacOver(o.control, o)} /\ offers' = offers
             /\ \A d \in Conns : role[d] # "unborn" => Last(d)
  BY <1>5 DEF HostSendsAuth, connVars
<1>6. ASSUME \/ \E x \in timers : BridgeTimeout(x)
             \/ Drain \/ Close \/ UNCHANGED vars
      PROVE  Kept /\ \A d \in Conns : role[d] # "unborn" => Last(d)
  BY <1>6 DEF BridgeTimeout, Drain, Close, vars, connVars, envVars
<1> HIDE DEF Last
<1>7. \A d \in Conns : role[d] # "unborn" => Last(d)
  BY <1>1, <1>2, <1>3, <1>4, <1>5, <1>6 DEF Next, ConnStep
<1>8. \/ sent' = sent
      \/ \E o \in offers : sent' = sent \cup {MacOver(o.control, o)}
  BY <1>1, <1>2, <1>3, <1>4, <1>5, <1>6 DEF Next, ConnStep
<1>9. \/ offers' = offers
      \/ \E c \in Conns : ControllerAdmitted(c)
  BY <1>1, <1>2, <1>3, <1>5, <1>6 DEF Next, ConnStep
<1> QED  BY <1>7, <1>8, <1>9 DEF Last

\* Every step keeps conn-opens and data-auths to accepted connections.
LEMMA NextSettled ==
    ASSUME IInv, Settled, [Next]_vars
    PROVE  Settled'
<1>1. \A d \in Conns : role[d] # "unborn" => role'[d] # "unborn"
  BY PeersLast DEF IInv
<1>2. \A o \in offers : o.control \in Conns /\ role'[o.control] # "unborn"
  BY <1>1 DEF Settled, IInv, Typed, TypeOK, Offer
<1>3. \A o \in offers' : role'[o.control] # "unborn"
  <2>1. ASSUME NEW c \in Conns, ControllerAdmitted(c)
        PROVE  \A o \in offers' : role'[o.control] # "unborn"
    <3> DEFINE k == hosts[TicketHost[arg[c]]]
    <3>1. arg[c] \in Tickets /\ TicketHost[arg[c]] \in Hosts /\ k # None
      BY <2>1, FreshTicket, TicketHostAssumption DEF ControllerAdmitted, Online
    <3>2. k \in Conns /\ role[k] = "control"
      BY <3>1 DEF IInv, Routing, HostsOK, Typed, TypeOK
    <3>3. offers' = offers \cup {[control |-> k, ticket |-> arg[c], nonce |-> c]}
      BY <2>1 DEF ControllerAdmitted
    <3> QED  BY <1>1, <1>2, <3>2, <3>3
  <2> QED  BY <1>2, <2>1, PeersLast DEF IInv
<1>4. \A m \in sent' : role'[m.key] # "unborn"
  <2>1. \A m \in sent : m.key \in Conns /\ role'[m.key] # "unborn"
    BY <1>1 DEF Settled, IInv, Typed, TypeOK, Mac
  <2>2. \A o \in offers : MacOver(o.control, o).key = o.control
    BY DEF MacOver
  <2> QED  BY <1>2, <2>1, <2>2, PeersLast DEF IInv
<1> QED  BY <1>3, <1>4 DEF Settled

\* Every step keeps the host ends of bridges to the ticket's host, or to who
\* replays what that host sent for this bridge.
LEMMA NextGenuine ==
    ASSUME IInv, Settled, BridgedToTicketHost, [Next]_vars
    PROVE  BridgedToTicketHost'
<1> DEFINE Replays(b) == \E m \in sent : /\ peer[m.key] = TicketHost[b.ticket]
                                        /\ m.ticket = b.ticket
                                        /\ m.nonce = b.controller
           Fine(b) == peer[b.host] = TicketHost[b.ticket] \/ Replays(b)
<1>1. \A m \in sent : m \in sent' /\ peer'[m.key] = peer[m.key]
  BY PeersLast DEF Settled, IInv, Typed, TypeOK, Mac
<1>2. \A d \in Conns : role[d] # "unborn" => peer'[d] = peer[d]
  BY PeersLast DEF IInv
<1>3. ASSUME NEW b \in Bridge, role[b.host] # "unborn", Fine(b)
      PROVE  \/ peer'[b.host] = TicketHost[b.ticket]
             \/ \E m \in sent' : /\ peer'[m.key] = TicketHost[b.ticket]
                                 /\ m.ticket = b.ticket
                                 /\ m.nonce = b.controller
  BY <1>1, <1>2, <1>3 DEF Bridge
<1>4. \A b \in bridges : b \in Bridge /\ role[b.host] # "unborn" /\ Fine(b)
  BY DEF IInv, Typed, TypeOK, Routing, BridgesOK, BridgedToTicketHost
<1>5. ASSUME bridges' \subseteq bridges PROVE BridgedToTicketHost'
  BY <1>3, <1>4, <1>5 DEF BridgedToTicketHost
<1>6. ASSUME NEW c \in Conns, NEW t \in Tickets, NEW m \in KnownMacs(c),
             HostDialSpliced(c, t, m)
      PROVE  BridgedToTicketHost'
  <2> DEFINE n == [ticket |-> t, controller |-> pending[t], host |-> c]
             k == hosts[TicketHost[t]]
  <2>1. /\ bridges' = bridges \cup {n} /\ role[c] = "unclassified"
        /\ pending[t] # None /\ k # None
        /\ m = [key |-> k, ticket |-> t, nonce |-> pending[t]]
    BY <1>6 DEF HostDialSpliced, Splice, MacVerifies
  <2>2. n \in Bridge /\ n.host = c /\ n.ticket = t /\ n.controller = pending[t]
    BY <2>1 DEF IInv, Typed, TypeOK, Bridge
  <2>3. peer[k] = TicketHost[t] /\ m.key = k
    BY <2>1, TicketHostAssumption DEF IInv, Routing, HostsOK
  <2>4. m \in sent \/ peer[m.key] = peer[c]
    BY <1>6 DEF KnownMacs, MacOver
  <2>5. Fine(n)
    BY <2>1, <2>2, <2>3, <2>4
  <2> HIDE DEF n, Fine
  <2>6. role[n.host] # "unborn"
    BY <2>1, <2>2
  <2>7. \A b \in bridges' : b \in Bridge /\ role[b.host] # "unborn" /\ Fine(b)
    BY <1>4, <2>1, <2>2, <2>5, <2>6
  <2> QED  BY <1>3, <2>7 DEF BridgedToTicketHost
<1>7. ASSUME NEW c \in Conns, ControllerAdmitted(c) PROVE bridges' \subseteq bridges
  BY <1>7 DEF ControllerAdmitted
<1>8. Quiet => bridges' \subseteq bridges
  BY DEF Quiet
<1> QED  BY <1>5, <1>6, <1>7, <1>8, NextQuiet DEF IInv

\* While single use is kept, whoever is at the host end of a bridge is the host
\* the ticket names or replays the data-auth that host sent for this very bridge
\* (#completeHostDial's MAC under the key of the current registration).
THEOREM HostGenuine ==
    ASSUME SingleUseKept
    PROVE  Spec => []BridgedToTicketHost
<1>1. Init => Settled /\ BridgedToTicketHost
  BY DEF Init, Settled, BridgedToTicketHost
<1> QED  BY <1>1, NextSettled, NextGenuine, SpecIInv, PTL DEF Spec

-----------------------------------------------------------------------------
(* What stays open. *)

\* Where every frame is a chunk of its own, nothing of a refused connection is
\* parsed any more, and the host end of a bridge is open.
Unhurried == turn = None /\ \A b \in bridges : open[b.host]

\* With one frame per chunk a step leaves no chunk half parsed.
LEMMA TurnEnds ==
    ASSUME ~CoalescedFrames, Next
    PROVE  turn' = None
BY ZenonT(40) DEF Next, ConnStep, HostSendsAuth, Accept, HostHello, RegistrationChallenged, CallRefused,
   CallTooLate, ProofAccepted, ProofRefused, ControllerAuth, TicketResolved,
   ControllerAdmitted, HostDialSpliced, HostDialRefused, OtherFrame,
   FrameError, PeerCloses, BridgeTimeout, Drain, Close, Receives, RestOfChunk

\* Every step keeps the host ends open.
LEMMA NextUnhurried ==
    ASSUME ~CoalescedFrames, IInv, Unhurried, [Next]_vars
    PROVE  Unhurried'
<1>1. turn' = None
  BY TurnEnds DEF Unhurried, vars, envVars
<1>2. ASSUME NEW c \in Conns, ControllerAdmitted(c)
      PROVE  \A b \in bridges' : open'[b.host]
  BY <1>2 DEF ControllerAdmitted, Unhurried
<1>3. ASSUME NEW c \in Conns, NEW t \in Tickets, NEW m \in KnownMacs(c),
             HostDialSpliced(c, t, m)
      PROVE  \A b \in bridges' : open'[b.host]
  <2>1. open[c]
    BY <1>3, NoneAssumption DEF HostDialSpliced, CanReceive, Unhurried
  <2> QED  BY <1>3, <2>1 DEF HostDialSpliced, Splice, Unhurried
<1>4. ASSUME Quiet PROVE \A b \in bridges' : open'[b.host]
  BY <1>4 DEF Quiet, Unhurried
<1> QED  BY <1>1, <1>2, <1>3, <1>4, NextQuiet DEF IInv, Unhurried

\* Unless a peer puts frames behind a refused one in the same chunk, both ends
\* of every bridge cell.ts counts in activeBridges are open.
THEOREM BridgesFlow ==
    ASSUME SingleUseKept, ~CoalescedFrames
    PROVE  Spec => []BridgesPipe
<1>1. Init => Unhurried
  BY DEF Init, Unhurried
<1>2. IInv /\ Unhurried => BridgesPipe
  BY DEF IInv, Routing, BridgesOK, Unhurried, BridgesPipe
<1> QED  BY <1>1, <1>2, NextUnhurried, SpecIInv, PTL DEF Spec

-----------------------------------------------------------------------------
(* The cell implements the rendezvous. *)

\* The refinement mapping of Meeting.
StageOf(t) == IF pending[t] # None THEN "waiting"
              ELSE IF \E b \in bridges : b.ticket = t THEN "joined"
              ELSE IF Took(t, "controller-data") # {} THEN "over"
              ELSE "unused"
Stage == [t \in Tickets |-> StageOf(t)]
ControllerMap == [t \in Tickets |-> TheOne(Took(t, "controller-data"))]
HostMap == [t \in Tickets |-> TheOne(Took(t, "host-data"))]

\* A ticket is dialled only after a controller took it, and not while that
\* controller still waits.
DialledOnce ==
    \A t \in Tickets :
        /\ pending[t] # None => Took(t, "host-data") = {}
        /\ Took(t, "controller-data") = {} => Took(t, "host-data") = {}

\* Quiet steps change nothing in who took a ticket.
LEMMA QuietTook ==
    ASSUME IInv, IInv', Quiet, NEW t \in Tickets
    PROVE  /\ Took(t, "controller-data")' = Took(t, "controller-data")
           /\ Took(t, "host-data")' = Took(t, "host-data")
<1>1. ASSUME NEW d \in Conns, ticket[d] = t
      PROVE  role'[d] = role[d] /\ ticket'[d] = t
  BY <1>1, NoneAssumption DEF Quiet, IInv, Phases, Early
<1>2. ASSUME NEW d \in Conns, ticket'[d] = t PROVE ticket[d] = t
  BY <1>2 DEF Quiet
<1> QED  BY <1>1, <1>2 DEF Took

\* An admission adds its controller to the takers of its ticket, who were none.
LEMMA AdmitTook ==
    ASSUME IInv, NEW c \in Conns, ControllerAdmitted(c), NEW u \in Tickets
    PROVE  /\ Took(u, "host-data")' = Took(u, "host-data")
           /\ u # arg[c] => Took(u, "controller-data")' = Took(u, "controller-data")
           /\ u = arg[c] => /\ Took(u, "controller-data") = {}
                            /\ Took(u, "controller-data")' = {c}
           /\ c \notin Took(u, "controller-data")
<1>1. /\ role[c] = "controller-data" /\ ticket[c] = None /\ role' = role
      /\ ticket'[c] = arg[c] /\ \A d \in Conns : d # c => ticket'[d] = ticket[d]
  BY FreshTicket DEF ControllerAdmitted, IInv, Typed, TypeOK
<1>2. u # None
  BY NoneAssumption
<1>3. Took(u, "host-data")' = Took(u, "host-data")
  BY <1>1 DEF Took
<1>4. u # arg[c] => Took(u, "controller-data")' = Took(u, "controller-data")
  BY <1>1, <1>2 DEF Took
<1>5. u = arg[c] => Took(u, "controller-data") = {}
  BY FreshTicket DEF Took, Taken
<1>6. u = arg[c] => Took(u, "controller-data")' = {c}
  BY <1>1, <1>5 DEF Took
<1> QED  BY <1>1, <1>2, <1>3, <1>4, <1>5, <1>6 DEF Took

\* A splice adds the dialling connection to the hosts that took its ticket.
LEMMA SpliceTook ==
    ASSUME IInv, NEW c \in Conns, NEW t \in Tickets, NEW m \in KnownMacs(c),
           HostDialSpliced(c, t, m), NEW u \in Tickets
    PROVE  /\ Took(u, "controller-data")' = Took(u, "controller-data")
           /\ u # t => Took(u, "host-data")' = Took(u, "host-data")
           /\ Took(t, "host-data")' = Took(t, "host-data") \cup {c}
           /\ c \notin Took(u, "controller-data") /\ c \notin Took(u, "host-data")
<1>1. /\ role[c] = "unclassified" /\ ticket'[c] = t /\ role'[c] = "host-data"
      /\ \A d \in Conns : d # c => ticket'[d] = ticket[d] /\ role'[d] = role[d]
  BY DEF HostDialSpliced, IInv, Typed, TypeOK
<1> QED  BY <1>1 DEF Took

\* Every step keeps the order of a ticket's dials.
LEMMA NextDialledOnce ==
    ASSUME IInv, IInv', DialledOnce, [Next]_vars
    PROVE  DialledOnce'
<1> SUFFICES ASSUME NEW u \in Tickets
             PROVE  /\ pending'[u] # None => Took(u, "host-data")' = {}
                    /\ Took(u, "controller-data")' = {} =>
                         Took(u, "host-data")' = {}
  BY DEF DialledOnce
<1>0. pending[u] # None => pending[u] \in Took(u, "controller-data")
  BY DEF IInv, Routing, PendingOK, Typed, TypeOK, Took
<1>1. ASSUME NEW c \in Conns, ControllerAdmitted(c)
      PROVE  /\ pending'[u] # None => Took(u, "host-data")' = {}
             /\ Took(u, "controller-data")' = {} => Took(u, "host-data")' = {}
  <2>1. u # arg[c] => pending'[u] = pending[u]
    BY <1>1 DEF ControllerAdmitted, IInv, Typed, TypeOK
  <2> QED  BY <1>1, <2>1, AdmitTook DEF DialledOnce
<1>2. ASSUME NEW c \in Conns, NEW t \in Tickets, NEW m \in KnownMacs(c),
             HostDialSpliced(c, t, m)
      PROVE  /\ pending'[u] # None => Took(u, "host-data")' = {}
             /\ Took(u, "controller-data")' = {} => Took(u, "host-data")' = {}
  <2>1. /\ u # t => pending'[u] = pending[u]
        /\ pending'[t] = None /\ pending[t] # None
    BY <1>2 DEF HostDialSpliced, Splice, IInv, Typed, TypeOK
  <2> QED  BY <1>0, <1>2, <2>1, SpliceTook DEF DialledOnce
<1>3. ASSUME Quiet
      PROVE  /\ pending'[u] # None => Took(u, "host-data")' = {}
             /\ Took(u, "controller-data")' = {} => Took(u, "host-data")' = {}
  BY <1>3, QuietTook DEF Quiet, DialledOnce
<1> QED  BY <1>1, <1>2, <1>3, NextQuiet DEF IInv

\* The one element of a set, or None.
LEMMA TheOneIn ==
    ASSUME NEW S \in SUBSET Conns
    PROVE  /\ S # {} => TheOne(S) \in S
           /\ S = {} => TheOne(S) = None
           /\ \A c \in Conns : S = {c} => TheOne(S) = c
BY DEF TheOne

\* Admitting a controller is the abstract admission.
LEMMA AdmitMaps ==
    ASSUME IInv, DialledOnce, NEW c \in Conns, ControllerAdmitted(c),
           NEW t \in Tickets, t = arg[c]
    PROVE  Meeting!Admit(t, c)
<1>1. pending' = [pending EXCEPT ![t] = c] /\ bridges' = bridges
      /\ c # None /\ pending \in [Tickets -> Conns \cup {None}]
  BY FreshTicket, NoneAssumption DEF ControllerAdmitted, IInv, Typed, TypeOK
<1>2. pending[t] = None /\ \A b \in bridges : b.ticket # t
  BY <1>1, FreshTicket DEF IInv, Routing, PendingOK, BridgesOK, Typed, TypeOK,
     Taken, Bridge
<1>3. StageOf(t) = "unused"
  BY <1>1, <1>2, AdmitTook DEF StageOf
<1>4. StageOf(t)' = "waiting"
  BY <1>1 DEF StageOf
<1>5. ASSUME NEW u \in Tickets, u # t PROVE StageOf(u)' = StageOf(u)
  <2>1. pending'[u] = pending[u]
    BY <1>1, <1>5
  <2>2. Took(u, "controller-data")' = Took(u, "controller-data")
    BY <1>5, AdmitTook
  <2> QED  BY <1>1, <2>1, <2>2 DEF StageOf
<1>6. Stage' = [Stage EXCEPT ![t] = "waiting"]
  BY <1>1, <1>4, <1>5 DEF Stage
<1>7. \A u \in Tickets : ControllerMap[u] # c
  <2> SUFFICES ASSUME NEW u \in Tickets PROVE TheOne(Took(u, "controller-data")) # c
    BY DEF ControllerMap
  <2>1. Took(u, "controller-data") \in SUBSET Conns
    BY DEF Took
  <2> QED  BY <1>1, <2>1, AdmitTook, TheOneIn
<1>8. ControllerMap' = [ControllerMap EXCEPT ![t] = c]
  <2>1. TheOne(Took(t, "controller-data"))' = c
    <3>1. Took(t, "controller-data")' = {c}
      BY AdmitTook
    <3> QED  BY <3>1 DEF TheOne
  <2>2. ASSUME NEW u \in Tickets, u # t
        PROVE  TheOne(Took(u, "controller-data"))' = TheOne(Took(u, "controller-data"))
    <3>1. Took(u, "controller-data")' = Took(u, "controller-data")
      BY <2>2, AdmitTook
    <3> QED  BY <3>1
  <2> QED  BY <1>1, <2>1, <2>2 DEF ControllerMap
<1>9. HostMap' = HostMap
  <2>1. ASSUME NEW u \in Tickets
        PROVE  TheOne(Took(u, "host-data"))' = TheOne(Took(u, "host-data"))
    <3>1. Took(u, "host-data")' = Took(u, "host-data")
      BY AdmitTook
    <3> QED  BY <3>1
  <2> QED  BY <2>1 DEF HostMap
<1>10. Stage[t] = "unused"
  BY <1>1, <1>3 DEF Stage
<1> QED
  BY <1>6, <1>7, <1>8, <1>9, <1>10
  DEF Meeting!Admit, Stage, StageOf, ControllerMap, HostMap

\* A splice is the abstract join.
LEMMA SpliceMaps ==
    ASSUME IInv, DialledOnce, NEW c \in Conns, NEW t \in Tickets,
           NEW m \in KnownMacs(c), HostDialSpliced(c, t, m)
    PROVE  Meeting!Join(t, c)
<1> DEFINE b == [ticket |-> t, controller |-> pending[t], host |-> c]
<1>1. /\ pending' = [pending EXCEPT ![t] = None] /\ bridges' = bridges \cup {b}
      /\ pending \in [Tickets -> Conns \cup {None}] /\ pending[t] # None
      /\ b.ticket = t
  BY DEF HostDialSpliced, Splice, IInv, Typed, TypeOK
<1>2. StageOf(t) = "waiting"
  BY <1>1 DEF StageOf
<1>3. StageOf(t)' = "joined"
  BY <1>1 DEF StageOf
<1>4. ASSUME NEW u \in Tickets, u # t PROVE StageOf(u)' = StageOf(u)
  <2>1. pending'[u] = pending[u]
    BY <1>1, <1>4
  <2>2. Took(u, "controller-data")' = Took(u, "controller-data")
    BY SpliceTook
  <2>3. (\E a \in bridges' : a.ticket = u) <=> (\E a \in bridges : a.ticket = u)
    BY <1>1, <1>4
  <2> QED  BY <2>1, <2>2, <2>3 DEF StageOf
<1>5. Stage' = [Stage EXCEPT ![t] = "joined"]
  BY <1>3, <1>4 DEF Stage
<1>6. \A u \in Tickets : HostMap[u] # c /\ ControllerMap[u] # c
  <2> SUFFICES ASSUME NEW u \in Tickets
               PROVE  /\ TheOne(Took(u, "host-data")) # c
                      /\ TheOne(Took(u, "controller-data")) # c
    BY DEF ControllerMap, HostMap
  <2>1. /\ Took(u, "controller-data") \in SUBSET Conns
        /\ Took(u, "host-data") \in SUBSET Conns
    BY DEF Took
  <2>2. c # None
    BY NoneAssumption
  <2> QED  BY <2>1, <2>2, SpliceTook, TheOneIn
<1>7. HostMap' = [HostMap EXCEPT ![t] = c]
  <2>1. Took(t, "host-data")' = {c}
    BY <1>1, SpliceTook DEF DialledOnce
  <2>2. TheOne(Took(t, "host-data"))' = c
    BY <2>1 DEF TheOne
  <2>3. ASSUME NEW u \in Tickets, u # t
        PROVE  TheOne(Took(u, "host-data"))' = TheOne(Took(u, "host-data"))
    <3>1. Took(u, "host-data")' = Took(u, "host-data")
      BY <2>3, SpliceTook
    <3> QED  BY <3>1
  <2> QED  BY <2>2, <2>3 DEF HostMap
<1>8. ControllerMap' = ControllerMap
  <2>1. ASSUME NEW u \in Tickets
        PROVE  TheOne(Took(u, "controller-data"))' = TheOne(Took(u, "controller-data"))
    <3>1. Took(u, "controller-data")' = Took(u, "controller-data")
      BY SpliceTook
    <3> QED  BY <3>1
  <2> QED  BY <2>1 DEF ControllerMap
<1>9. Stage[t] = "waiting"
  BY <1>2 DEF Stage
<1> QED
  BY <1>5, <1>6, <1>7, <1>8, <1>9
  DEF Meeting!Join, Stage, StageOf, ControllerMap, HostMap

\* Any other step ends some meetings, or none.
LEMMA QuietMaps ==
    ASSUME IInv, IInv', Quiet
    PROVE  \E T \in SUBSET Tickets : Meeting!End(T)
<1>0. PICK T \in SUBSET Tickets : T = {t \in Tickets : Stage'[t] # Stage[t]}
  OBVIOUS
<1>1. ASSUME NEW t \in Tickets, StageOf(t)' # StageOf(t)
      PROVE  StageOf(t) \in {"waiting", "joined"} /\ StageOf(t)' = "over"
  <2>1. Took(t, "controller-data")' = Took(t, "controller-data")
    BY QuietTook
  <2>2. CASE pending[t] # None
    <3>1. pending[t] \in Took(t, "controller-data")
      BY <2>2 DEF IInv, Routing, PendingOK, Typed, TypeOK, Took
    <3>2. \A b \in bridges' : b.ticket # t
      BY <2>2 DEF IInv, Routing, OnePlace, Quiet
    <3> QED  BY <1>1, <2>1, <2>2, <3>1, <3>2 DEF StageOf, Quiet
  <2>3. ASSUME pending[t] = None, NEW b \in bridges, b.ticket = t
        PROVE  StageOf(t) \in {"waiting", "joined"} /\ StageOf(t)' = "over"
    <3>1. b.controller \in Took(t, "controller-data")
      BY <2>3 DEF IInv, Routing, BridgesOK, Typed, TypeOK, Bridge, Took
    <3>2. pending'[t] = None
      BY <2>3 DEF Quiet
    <3> QED  BY <1>1, <2>1, <2>3, <3>1, <3>2 DEF StageOf
  <2>4. CASE pending[t] = None /\ \A b \in bridges : b.ticket # t
    BY <1>1, <2>1, <2>4 DEF StageOf, Quiet
  <2> QED  BY <2>2, <2>3, <2>4
<1>2. ASSUME NEW t \in Tickets, Stage'[t] # Stage[t]
      PROVE  Stage[t] \in {"waiting", "joined"} /\ Stage'[t] = "over"
  BY <1>1, <1>2 DEF Stage
<1>3. Stage' = [t \in Tickets |-> IF t \in T THEN "over" ELSE Stage[t]]
  <2>1. Stage' = [t \in Tickets |-> Stage'[t]]
    BY DEF Stage
  <2> QED  BY <1>0, <1>2, <2>1
<1>4. ControllerMap' = ControllerMap
  <2>1. ASSUME NEW u \in Tickets
        PROVE  TheOne(Took(u, "controller-data"))' = TheOne(Took(u, "controller-data"))
    <3>1. Took(u, "controller-data")' = Took(u, "controller-data")
      BY QuietTook
    <3> QED  BY <3>1
  <2> QED  BY <2>1 DEF ControllerMap
<1>5. HostMap' = HostMap
  <2>1. ASSUME NEW u \in Tickets
        PROVE  TheOne(Took(u, "host-data"))' = TheOne(Took(u, "host-data"))
    <3>1. Took(u, "host-data")' = Took(u, "host-data")
      BY QuietTook
    <3> QED  BY <3>1
  <2> QED  BY <2>1 DEF HostMap
<1>6. \A t \in T : Stage[t] \in {"waiting", "joined"}
  BY <1>0, <1>2
<1>7. Meeting!End(T)
  BY <1>3, <1>4, <1>5, <1>6
  DEF Meeting!End, Stage, StageOf, ControllerMap, HostMap
<1> QED  BY <1>7

\* Initially no ticket is used.
LEMMA InitMaps == Init => Meeting!RInit /\ DialledOnce
<1> SUFFICES ASSUME Init PROVE Meeting!RInit /\ DialledOnce
  OBVIOUS
<1>1. ASSUME NEW t \in Tickets, NEW r \in {"controller-data", "host-data"}
      PROVE  Took(t, r) = {}
  BY <1>1 DEF Init, Took
<1>2. Stage = [t \in Tickets |-> "unused"]
  BY <1>1 DEF Init, Stage, StageOf
<1>3. ControllerMap = [t \in Tickets |-> None]
  BY <1>1 DEF ControllerMap, TheOne
<1>4. HostMap = [t \in Tickets |-> None]
  BY <1>1 DEF HostMap, TheOne
<1>5. Meeting!RInit
  BY <1>2, <1>3, <1>4 DEF Meeting!RInit, Stage, StageOf, ControllerMap, HostMap
<1>6. DialledOnce
  BY <1>1 DEF DialledOnce
<1> QED  BY <1>5, <1>6

\* Every step of the cell is a step of the rendezvous.
LEMMA NextMaps ==
    ASSUME IInv, IInv', DialledOnce, [Next]_vars
    PROVE  Meeting!RNext
<1>1. ASSUME NEW c \in Conns, ControllerAdmitted(c) PROVE Meeting!RNext
  <2>1. PICK t \in Tickets : t = arg[c]
    BY <1>1, FreshTicket
  <2>2. Meeting!Admit(t, c)
    BY <1>1, <2>1, AdmitMaps
  <2> QED  BY <2>2 DEF Meeting!RNext
<1>2. ASSUME NEW c \in Conns, NEW t \in Tickets, NEW m \in KnownMacs(c),
             HostDialSpliced(c, t, m)
      PROVE  Meeting!RNext
  BY <1>2, SpliceMaps DEF Meeting!RNext
<1>3. ASSUME Quiet PROVE Meeting!RNext
  BY <1>3, QuietMaps DEF Meeting!RNext
<1> QED  BY <1>1, <1>2, <1>3, NextQuiet DEF IInv

\* While single use is kept the cell refines the rendezvous, for any number of
\* tickets: one controller per ticket, joined with at most one dial, and no
\* meeting that is over ever starts again.
THEOREM Rendezvous ==
    ASSUME SingleUseKept
    PROVE  Spec => ImplementsRendezvous
<1>1. ASSUME IInv, IInv', DialledOnce, [Next]_vars
      PROVE  [Meeting!RNext]_(Meeting!rvars)
  BY <1>1, NextMaps
<1> QED
  BY <1>1, InitMaps, NextDialledOnce, SpecIInv, PTL
  DEF Spec, ImplementsRendezvous, Meeting!RSpec
=============================================================================
