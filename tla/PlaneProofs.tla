---------------------------- MODULE PlaneProofs -----------------------------
(***************************************************************************)
(* Proofs about Plane, for any requests, rows and limits: a pair token and *)
(* a relay ticket work once, no ticket presented after its host's          *)
(* revocation is resolved, and a credential that was handed back is in the *)
(* log once.                                                               *)
(*                                                                         *)
(* The argument is again ownership.  A guarded UPDATE, a GETDEL or an      *)
(* insert lets one request through and leaves a mark in a table that is    *)
(* never taken back; the request that was let through is the only one that *)
(* will enrol, resolve or log on account of it.                            *)
(***************************************************************************)
EXTENDS Plane, TLAPS

At(r, at) == reqs[r].at = at

\* A request about to enrol a device owns a redeemed token that has none yet.
Pairing ==
    /\ \A r \in Requests : At(r, "enrol") =>
         /\ reqs[r].on \in PairRows
         /\ pairs[reqs[r].on].standing = "redeemed"
         /\ \A d \in DeviceRows : devices[d].from # reqs[r].on
    /\ \A r, q \in Requests :
         At(r, "enrol") /\ At(q, "enrol") /\ reqs[r].on = reqs[q].on => r = q
    /\ \A d \in DeviceRows :
         devices[d].from # NoRow => pairs[devices[d].from].standing = "redeemed"
    /\ \A d, e \in DeviceRows :
         devices[d].from = devices[e].from /\ devices[d].from # NoRow => d = e

\* A request about to load the host owns a ticket that is gone and unresolved.
Ticketing ==
    /\ \A r \in Requests : At(r, "load") =>
         /\ reqs[r].on \in Tickets
         /\ tickets[reqs[r].on].standing = "gone" /\ routed[reqs[r].on] = 0
    /\ \A r, q \in Requests :
         At(r, "load") /\ At(q, "load") /\ reqs[r].on = reqs[q].on => r = q
    /\ \A t \in Tickets :
         routed[t] <= 1 /\ (routed[t] # 0 => tickets[t].standing = "gone")

\* What request r knows of the host it is about: a request that found its
\* ticket's host revoked when it arrived finds it revoked again when it loads it.
RouteOK(r) ==
    /\ reqs[r].at \in {"route", "store"} => reqs[r].host \in HostRows
    /\ reqs[r].at \in {"arm", "hit"} => reqs[r].on \in PairRows \/ reqs[r].host \in HostRows
    /\ At(r, "take") =>
         /\ reqs[r].on \in Tickets /\ tickets[reqs[r].on].standing # "absent"
         /\ reqs[r].gone => hosts[tickets[reqs[r].on].host] = "revoked"
    /\ At(r, "load") =>
         /\ reqs[r].host \in HostRows
         /\ reqs[r].gone => hosts[reqs[r].host] = "revoked"
    /\ At(r, "resolved") => ~reqs[r].gone

\* A ticket is for a host.
Routing ==
    /\ \A t \in Tickets : tickets[t].standing # "absent" => tickets[t].host \in HostRows
    /\ \A r \in Requests : RouteOK(r)

\* The rows do not show yet what event e is about.
NotYet(e) ==
    \/ \E h \in HostRows : e = <<"host-registered", h>> /\ hosts[h] = "absent"
    \/ \E h \in HostRows : e = <<"host-revoked", h>> /\ hosts[h] # "revoked"
    \/ \E d \in DeviceRows : e = <<"device-revoked", d>> /\ devices[d].standing # "revoked"
    \/ \E p \in PairRows : e = <<"pair-minted", p>> /\ pairs[p].standing = "absent"
    \/ \E t \in Tickets : e = <<"ticket-minted", t>> /\ tickets[t].standing = "absent"
    \/ \E d \in DeviceRows :
         /\ e = <<"device-paired", d>>
         /\ \/ devices[d].standing = "absent"
            \/ \E r \in Requests : At(r, "stamp") /\ reqs[r].on = d

\* Each event has one request that logs it, after its rows and before its answer.
Logging ==
    /\ \A r \in Requests : At(r, "log") => reqs[r].on \in Events /\ audit[reqs[r].on] = 0
    /\ \A r, q \in Requests :
         /\ At(r, "log") /\ At(q, "log") /\ reqs[r].on = reqs[q].on => r = q
         /\ At(r, "stamp") /\ At(q, "stamp") /\ reqs[r].on = reqs[q].on => r = q
    /\ \A r \in Requests : At(r, "stamp") =>
         reqs[r].on \in DeviceRows /\ devices[reqs[r].on].standing # "absent"
    /\ \A e \in Events : NotYet(e) =>
         audit[e] = 0 /\ \A r \in Requests : At(r, "log") => reqs[r].on # e
    /\ \A e \in Events : audit[e] <= 1

\* A revocation in the tables, an event about to be answered, and one a client was
\* told of, are accounted for; a deletion found its row there.
Telling ==
    /\ \A h \in HostRows : hosts[h] = "revoked" => Accounted(<<"host-revoked", h>>)
    /\ \A d \in DeviceRows :
         devices[d].standing = "revoked" => Accounted(<<"device-revoked", d>>)
    /\ \A r \in Requests : At(r, "reply") /\ reqs[r].on \in Events => Accounted(reqs[r].on)
    /\ \A e \in handed : Accounted(e)
    /\ \A r \in Requests : At(r, "revoke-host") =>
         \A h \in HostRows : reqs[r].on = h => hosts[h] # "absent"
    /\ \A r \in Requests : At(r, "revoke-device") =>
         \A d \in DeviceRows : reqs[r].on = d => devices[d].standing # "absent"

IInv == PlaneTypeOK /\ Pairing /\ Ticketing /\ Routing /\ Logging

-----------------------------------------------------------------------------
(* Types. *)

Rows == HostRows \cup DeviceRows \cup PairRows \cup Tickets \cup Events \cup {NoRow}
Reqs == [at : Stages, host : HostRows \cup {NoRow}, late : BOOLEAN, gone : BOOLEAN, on : Rows]

\* What a step does to the requests: r is taken to `at`, about `on`, and the
\* others stay.
Goes(r, at, on) ==
    /\ reqs' \in [Requests -> Reqs]
    /\ reqs'[r].at = at /\ reqs'[r].on = on
    /\ \A q \in Requests \ {r} : reqs'[q] = reqs[q]

LEMMA AwaitsGoes ==
  ASSUME NEW r \in Requests, NEW at \in Stages, NEW on \in Rows,
         reqs \in [Requests -> Reqs], Awaits(r, at, on)
  PROVE  /\ Goes(r, at, on)
         /\ reqs'[r].host = reqs[r].host /\ reqs'[r].gone = reqs[r].gone
<1>1. [reqs[r] EXCEPT !.at = at, !.on = on] \in Reqs
  BY DEF Reqs
<1>2. reqs' = [reqs EXCEPT ![r] = [reqs[r] EXCEPT !.at = at, !.on = on]]
  BY DEF Awaits
<1>3. reqs' \in [Requests -> Reqs] /\ \A q \in Requests \ {r} : reqs'[q] = reqs[q]
  BY <1>1, <1>2
<1>4. reqs'[r] = [reqs[r] EXCEPT !.at = at, !.on = on]
  BY <1>2
<1>5. /\ reqs'[r].at = at /\ reqs'[r].on = on
      /\ reqs'[r].host = reqs[r].host /\ reqs'[r].gone = reqs[r].gone
  BY <1>4 DEF Reqs
<1> QED
  BY <1>3, <1>5 DEF Goes

LEMMA RefusesGoes ==
  ASSUME NEW r \in Requests, reqs \in [Requests -> Reqs], Refuses(r)
  PROVE  Goes(r, "free", NoRow)
<1>1. Idle \in Reqs /\ Idle.at = "free" /\ Idle.on = NoRow
  BY DEF Idle, Reqs, Rows, Stages
<1> QED
  BY <1>1 DEF Refuses, Goes

\* A request that arrives is given its stage, its row and its host.
LEMMA ArrivingGoes ==
  ASSUME NEW r \in Requests, NEW start \in Reqs,
         reqs \in [Requests -> Reqs], Arriving(r, start)
  PROVE  Goes(r, start.at, start.on) /\ reqs'[r] = start
  BY DEF Arriving, Goes

\* The events of a row.
LEMMA EventsTyped ==
  /\ \A h \in HostRows : <<"host-registered", h>> \in Events /\ <<"host-revoked", h>> \in Events
  /\ \A d \in DeviceRows : <<"device-paired", d>> \in Events /\ <<"device-revoked", d>> \in Events
  /\ \A p \in PairRows : <<"pair-minted", p>> \in Events
  /\ \A t \in Tickets : <<"ticket-minted", t>> \in Events
  BY DEF Events

-----------------------------------------------------------------------------
(* What leaves each part of the invariant alone. *)

KeepsPairing ==
    /\ \A d \in DeviceRows : devices'[d].from = devices[d].from
    /\ \A p \in PairRows : pairs[p].standing = "redeemed" => pairs'[p].standing = "redeemed"
    /\ \A q \in Requests : reqs'[q].at = "enrol" => reqs'[q] = reqs[q]

KeepsTickets ==
    /\ routed' = routed
    /\ \A t \in Tickets : tickets[t].standing = "gone" => tickets'[t].standing = "gone"
    /\ \A q \in Requests : reqs'[q].at = "load" => reqs'[q] = reqs[q]

KeepsRoutes ==
    /\ \A h \in HostRows : hosts[h] = "revoked" => hosts'[h] = "revoked"
    /\ \A t \in Tickets :
         /\ tickets[t].standing # "absent" =>
              tickets'[t].standing # "absent" /\ tickets'[t].host = tickets[t].host
         /\ tickets'[t].standing # "absent" => tickets'[t].host \in HostRows
    /\ \A q \in Requests : reqs'[q] = reqs[q] \/ RouteOK(q)'

KeepsLog ==
    /\ UNCHANGED <<hosts, devices, audit>>
    /\ \A p \in PairRows : pairs'[p].standing = "absent" => pairs[p].standing = "absent"
    /\ \A t \in Tickets : tickets'[t].standing = "absent" => tickets[t].standing = "absent"
    /\ \A q \in Requests :
         \/ reqs'[q] = reqs[q]
         \/ reqs'[q].at \notin {"log", "stamp"}

\* Enrolments go on as long as redeemed tokens stay so.
LEMMA PairingKept ==
  ASSUME PlaneTypeOK, Pairing, KeepsPairing
  PROVE  Pairing'
<1>1. \A d \in DeviceRows : devices[d].from \in PairRows \cup {NoRow}
  BY DEF PlaneTypeOK
<1> QED
  BY <1>1 DEF Pairing, KeepsPairing, At

\* Loads go on as long as taken tickets stay gone.
LEMMA TicketingKept ==
  ASSUME PlaneTypeOK, Ticketing, KeepsTickets
  PROVE  Ticketing'
  BY DEF Ticketing, KeepsTickets, At

\* What a request knows of its host stays true: revocation is for good.
LEMMA RoutingKept ==
  ASSUME PlaneTypeOK, Routing, KeepsRoutes
  PROVE  Routing'
<1>1. ASSUME NEW q \in Requests, reqs'[q] = reqs[q]
      PROVE  RouteOK(q)'
  BY <1>1 DEF Routing, KeepsRoutes, RouteOK, At
<1> QED
  BY <1>1 DEF Routing, KeepsRoutes

\* The log is as complete as it was when no row and no logger is new.
LEMMA LoggingKept ==
  ASSUME PlaneTypeOK, Logging, KeepsLog
  PROVE  Logging'
<1>1. ASSUME NEW e \in Events, NotYet(e)'
      PROVE  NotYet(e)
  BY <1>1 DEF NotYet, KeepsLog, At
<1>2. \A q \in Requests : At(q, "log")' => At(q, "log") /\ reqs'[q] = reqs[q]
  BY DEF KeepsLog, At
<1>3. \A q \in Requests : At(q, "stamp")' => At(q, "stamp") /\ reqs'[q] = reqs[q]
  BY DEF KeepsLog, At
<1>4. audit' = audit /\ devices' = devices
  BY DEF KeepsLog
<1> QED
  BY <1>1, <1>2, <1>3, <1>4 DEF Logging

\* The request that wins an event's occasion becomes its one logger.
LEMMA LogBegins ==
  ASSUME PlaneTypeOK, Logging, NEW r \in Requests, NEW e \in Events,
         NotYet(e), ~NotYet(e)', \A f \in Events \ {e} : NotYet(f)' => NotYet(f),
         Goes(r, "log", e), audit' = audit,
         \A d \in DeviceRows : devices[d].standing # "absent" => devices'[d].standing # "absent"
  PROVE  Logging'
<1>1. audit[e] = 0 /\ \A q \in Requests : At(q, "log") => reqs[q].on # e
  BY DEF Logging
<1>2. \A q \in Requests : At(q, "log")' => (q = r /\ reqs'[q].on = e) \/ (At(q, "log") /\ reqs'[q] = reqs[q])
  BY DEF Goes, At
<1>3. \A q \in Requests : At(q, "stamp")' => At(q, "stamp") /\ reqs'[q] = reqs[q]
  BY DEF Goes, At
<1>5. \A q \in Requests : At(q, "log")' => reqs'[q].on \in Events /\ audit'[reqs'[q].on] = 0
  BY <1>1, <1>2 DEF Logging
<1>6. \A q, p \in Requests :
         /\ At(q, "log")' /\ At(p, "log")' /\ reqs'[q].on = reqs'[p].on => q = p
         /\ At(q, "stamp")' /\ At(p, "stamp")' /\ reqs'[q].on = reqs'[p].on => q = p
  BY <1>1, <1>2, <1>3 DEF Logging
<1>7. \A q \in Requests : At(q, "stamp")' =>
         reqs'[q].on \in DeviceRows /\ devices'[reqs'[q].on].standing # "absent"
  BY <1>3 DEF Logging
<1>8. ASSUME NEW f \in Events, NotYet(f)'
      PROVE  audit'[f] = 0 /\ \A q \in Requests : At(q, "log")' => reqs'[q].on # f
  <2>1. f # e /\ NotYet(f)
    BY <1>8
  <2> QED
    BY <2>1, <1>2 DEF Logging
<1> QED
  BY <1>5, <1>6, <1>7, <1>8 DEF Logging

-----------------------------------------------------------------------------
(* The steps that only move a request along. *)

\* The rows of table pair_tokens.
Pairs == [standing : {"absent", "open", "redeemed"}, stale : BOOLEAN,
          host : HostRows \cup {NoRow}, device : DeviceRows \cup {NoRow}]

\* The type invariant without the requests.
Tables == /\ hosts \in [HostRows -> {"absent", "live", "revoked"}]
          /\ devices \in [DeviceRows -> [standing : {"absent", "live", "revoked"},
                                         from : PairRows \cup {NoRow}]]
          /\ pairs \in [PairRows -> Pairs]
          /\ tickets \in [Tickets -> [standing : {"absent", "stored", "gone"},
                                      stale : BOOLEAN, host : HostRows \cup {NoRow}]]
          /\ rates \in [RateNames -> [there : BOOLEAN, ttl : BOOLEAN, n : Nat]]
          /\ audit \in [Events -> Nat]
          /\ handed \subseteq Events /\ unlogged \subseteq Events
          /\ routed \in [Tickets -> Nat]

LEMMA TypeSplit ==
  PlaneTypeOK <=> Tables /\ reqs \in [Requests -> Reqs] /\ begun \in 0 .. MaxRequests
  BY DEF PlaneTypeOK, Tables, Pairs, Reqs, Rows

\* A request at rest, arrived or refused is about nothing the invariant tracks.
LEMMA MovesKeep ==
  ASSUME IInv, UNCHANGED <<hosts, devices, pairs, tickets, audit, handed, routed>>,
         unlogged' \subseteq Events,
         rates' \in [RateNames -> [there : BOOLEAN, ttl : BOOLEAN, n : Nat]],
         begun' \in 0 .. MaxRequests, NEW r \in Requests, NEW at, NEW on,
         Goes(r, at, on), RouteOK(r)',
         at \notin {"enrol", "load", "log", "stamp"}
  PROVE  IInv'
<1> USE DEF IInv
<1>1. PlaneTypeOK'
  BY DEF PlaneTypeOK, Goes, Reqs, Rows
<1>2. \A q \in Requests : reqs'[q] = reqs[q] \/ q = r
  BY DEF Goes
<1>3. reqs'[r].at = at /\ reqs'[r].on = on
  BY DEF Goes
<1>4. KeepsPairing /\ KeepsTickets
  BY <1>2, <1>3 DEF KeepsPairing, KeepsTickets
<1>5. KeepsRoutes
  BY <1>2 DEF KeepsRoutes, Routing
<1>6. KeepsLog
  BY <1>2, <1>3 DEF KeepsLog
<1> QED
  BY <1>1, <1>4, <1>5, <1>6, PairingKept, TicketingKept, RoutingKept, LoggingKept

\* What the invariant asks of a request that arrives.
Arrival(start) ==
    /\ start \in Reqs
    /\ start.at \in {"count", "find", "arm", "revoke-host", "revoke-device", "take"}
    /\ start.at = "arm" => start.on \in PairRows \/ start.host \in HostRows
    /\ start.at = "take" =>
         /\ start.on \in Tickets /\ tickets[start.on].standing # "absent"
         /\ start.gone => hosts[tickets[start.on].host] = "revoked"

LEMMA ArrivalKeeps ==
  ASSUME IInv, NEW r \in Requests, NEW start, Arrival(start), Arriving(r, start)
  PROVE  IInv'
<1>1. start \in Reqs
  BY DEF Arrival
<1>2. begun' \in 0 .. MaxRequests /\ UNCHANGED planeRows
  BY PlaneAssumption DEF Arriving, IInv, PlaneTypeOK
<1>3. Goes(r, start.at, start.on) /\ reqs'[r] = start
  BY <1>1, ArrivingGoes, TypeSplit DEF IInv
<1>4. RouteOK(r)'
  BY <1>2, <1>3 DEF RouteOK, At, planeRows, Arrival
<1>5. rates' \in [RateNames -> [there : BOOLEAN, ttl : BOOLEAN, n : Nat]]
  BY <1>2, TypeSplit DEF IInv, Tables, planeRows
<1>6. unlogged' \subseteq Events
  BY <1>2 DEF IInv, PlaneTypeOK, planeRows
<1> QED
  BY <1>2, <1>3, <1>4, <1>5, <1>6, MovesKeep DEF planeRows, Arrival

\* The seven routes.
LEMMA ArrivalStep ==
  ASSUME IInv, NEW r \in Requests,
         \/ PostHosts(r)
         \/ \E h \in HostRows : PostPair(r, h) \/ PostTickets(r, h) \/ DeleteHost(r, h)
         \/ \E d \in DeviceRows : DeleteDevice(r, d)
         \/ \E p \in PairRows : PostRedeem(r, p)
         \/ \E t \in Tickets : ValidateTicket(r, t)
  PROVE  IInv'
<1> USE DEF Reqs, Rows, Stages, Idle, Arrival
<1>1. CASE PostHosts(r)
  <2>1. Arrival([Idle EXCEPT !.at = "count"])
    OBVIOUS
  <2> QED
    BY <1>1, <2>1, ArrivalKeeps DEF PostHosts
<1>2. ASSUME NEW h \in HostRows, PostPair(r, h)
      PROVE  IInv'
  <2>1. Arrival([Idle EXCEPT !.at = "find", !.host = h])
    OBVIOUS
  <2> QED
    BY <1>2, <2>1, ArrivalKeeps DEF PostPair
<1>3. ASSUME NEW h \in HostRows, PostTickets(r, h)
      PROVE  IInv'
  <2>1. Arrival([Idle EXCEPT !.at = "arm", !.host = h])
    OBVIOUS
  <2> QED
    BY <1>3, <2>1, ArrivalKeeps DEF PostTickets
<1>4. ASSUME NEW h \in HostRows, DeleteHost(r, h)
      PROVE  IInv'
  <2>1. Arrival([Idle EXCEPT !.at = "revoke-host", !.on = h])
    OBVIOUS
  <2> QED
    BY <1>4, <2>1, ArrivalKeeps DEF DeleteHost
<1>5. ASSUME NEW d \in DeviceRows, DeleteDevice(r, d)
      PROVE  IInv'
  <2>1. Arrival([Idle EXCEPT !.at = "revoke-device", !.on = d])
    OBVIOUS
  <2> QED
    BY <1>5, <2>1, ArrivalKeeps DEF DeleteDevice
<1>6. ASSUME NEW p \in PairRows, PostRedeem(r, p)
      PROVE  IInv'
  <2>1. Arrival([Idle EXCEPT !.at = "arm", !.on = p])
    OBVIOUS
  <2> QED
    BY <1>6, <2>1, ArrivalKeeps DEF PostRedeem
<1>7. ASSUME NEW t \in Tickets, ValidateTicket(r, t)
      PROVE  IInv'
  <2>1. tickets[t].standing # "absent" /\ tickets[t].stale \in BOOLEAN
    BY <1>7 DEF ValidateTicket, IInv, PlaneTypeOK
  <2>2. Arrival([Idle EXCEPT !.at = "take", !.on = t, !.late = tickets[t].stale,
                             !.gone = hosts[tickets[t].host] = "revoked"])
    BY <2>1
  <2> QED
    BY <1>7, <2>2, ArrivalKeeps DEF ValidateTicket
<1> QED
  BY <1>1, <1>2, <1>3, <1>4, <1>5, <1>6, <1>7

\* A request that is refused.
LEMMA RefuseKeeps ==
  ASSUME IInv, NEW r \in Requests, Refuses(r), begun' = begun,
         UNCHANGED <<hosts, devices, pairs, tickets, audit, handed, routed>>,
         unlogged' \subseteq Events,
         rates' \in [RateNames -> [there : BOOLEAN, ttl : BOOLEAN, n : Nat]]
  PROVE  IInv'
<1>1. Goes(r, "free", NoRow)
  BY RefusesGoes, TypeSplit DEF IInv
<1>2. RouteOK(r)'
  BY <1>1 DEF Goes, RouteOK, At
<1>3. begun' \in 0 .. MaxRequests
  BY DEF IInv, PlaneTypeOK
<1> QED
  BY <1>1, <1>2, <1>3, MovesKeep

\* A request that awaits its next statement, with no secret won.
LEMMA AwaitKeeps ==
  ASSUME IInv, NEW r \in Requests, NEW at, NEW on \in Rows, Awaits(r, at, on),
         at \in {"insert", "mint", "hit", "route", "store", "reply"},
         at \in {"route", "store"} => reqs[r].host \in HostRows,
         at = "hit" => on \in PairRows \/ reqs[r].host \in HostRows,
         begun' = begun,
         UNCHANGED <<hosts, devices, pairs, tickets, audit, handed, unlogged, routed>>,
         rates' \in [RateNames -> [there : BOOLEAN, ttl : BOOLEAN, n : Nat]]
  PROVE  IInv'
<1>1. at \in Stages
  BY DEF Stages
<1>2. Goes(r, at, on) /\ reqs'[r].host = reqs[r].host
  BY <1>1, AwaitsGoes, TypeSplit DEF IInv
<1>3. RouteOK(r)'
  BY <1>2 DEF Goes, RouteOK, At
<1>4. begun' \in 0 .. MaxRequests /\ unlogged' \subseteq Events
  BY DEF IInv, PlaneTypeOK
<1> QED
  BY <1>2, <1>3, <1>4, MovesKeep

\* Counting, finding and routing look at the hosts and pass or refuse.
LEMMA LookStep ==
  ASSUME IInv, NEW r \in Requests,
         CountsHosts(r) \/ FindsHost(r) \/ RoutesTicket(r)
  PROVE  IInv'
<1>1. /\ begun' = begun
      /\ UNCHANGED <<hosts, devices, pairs, tickets, audit, handed, unlogged, routed>>
      /\ UNCHANGED rates
  BY DEF CountsHosts, FindsHost, RoutesTicket, Waits, planeRows
<1>2. /\ rates' \in [RateNames -> [there : BOOLEAN, ttl : BOOLEAN, n : Nat]]
      /\ unlogged' \subseteq Events
  BY <1>1 DEF IInv, PlaneTypeOK
<1>3. NoRow \in Rows
  BY DEF Rows
<1>4. CASE Refuses(r)
  BY <1>1, <1>2, <1>4, RefuseKeeps
<1>5. CASE Awaits(r, "insert", NoRow)
  BY <1>1, <1>2, <1>3, <1>5, AwaitKeeps
<1>6. CASE Awaits(r, "mint", NoRow)
  BY <1>1, <1>2, <1>3, <1>6, AwaitKeeps
<1>7. CASE RoutesTicket(r) /\ Awaits(r, "store", NoRow)
  <2>1. reqs[r].host \in HostRows
    BY <1>7 DEF RoutesTicket, Waits, IInv, Routing, RouteOK
  <2> QED
    BY <1>1, <1>2, <1>3, <1>7, <2>1, AwaitKeeps
<1> QED
  BY <1>4, <1>5, <1>6, <1>7 DEF CountsHosts, FindsHost, RoutesTicket

\* A request that fails leaves the tables; if it was to log, that is noted.
LEMMA FailStep ==
  ASSUME IInv, NEW r \in Requests, Fails(r)
  PROVE  IInv'
<1>1. /\ Refuses(r) /\ begun' = begun
      /\ UNCHANGED <<hosts, devices, pairs, tickets, rates, audit, handed, routed>>
      /\ unlogged' = IF At(r, "log") THEN unlogged \cup {reqs[r].on} ELSE unlogged
  BY DEF Fails, At
<1>2. unlogged' \subseteq Events
  BY <1>1 DEF IInv, PlaneTypeOK, Logging
<1>3. rates' \in [RateNames -> [there : BOOLEAN, ttl : BOOLEAN, n : Nat]]
  BY <1>1 DEF IInv, PlaneTypeOK
<1> QED
  BY <1>1, <1>2, <1>3, RefuseKeeps

\* The rate limiter's two statements.
LEMMA LimitStep ==
  ASSUME IInv, NEW r \in Requests, Arms(r) \/ Hits(r)
  PROVE  IInv'
<1>1. /\ begun' = begun
      /\ UNCHANGED <<hosts, devices, pairs, tickets, audit, handed, unlogged, routed>>
  BY DEF Arms, Hits, Waits
<1>2. RateOf(r) \in RateNames
  BY DEF RateOf, RateNames
<1>3. rates \in [RateNames -> [there : BOOLEAN, ttl : BOOLEAN, n : Nat]]
  BY DEF IInv, PlaneTypeOK
<1>a. unlogged' \subseteq Events
  BY <1>1 DEF IInv, PlaneTypeOK
<1>4. rates' \in [RateNames -> [there : BOOLEAN, ttl : BOOLEAN, n : Nat]]
  <2>1. CASE Arms(r)
    BY <2>1, <1>2, <1>3 DEF Arms
  <2>2. CASE Hits(r)
    <3> DEFINE c == [there |-> TRUE, ttl |-> rates[RateOf(r)].ttl, n |-> rates[RateOf(r)].n + 1]
    <3>1. c \in [there : BOOLEAN, ttl : BOOLEAN, n : Nat]
      BY <1>2, <1>3
    <3>2. rates' = [rates EXCEPT ![RateOf(r)] = c]
      BY <2>2, <1>2, <1>3 DEF Hits
    <3> QED
      BY <1>2, <1>3, <3>1, <3>2
  <2> QED
    BY <2>1, <2>2
<1>5. NoRow \in Rows /\ reqs[r].on \in Rows
  BY DEF Rows, IInv, PlaneTypeOK
<1>6. reqs[r].on \in PairRows \/ reqs[r].host \in HostRows
  BY DEF Arms, Hits, Waits, IInv, Routing, RouteOK
<1>7. CASE Arms(r)
  <2>1. Awaits(r, "hit", reqs[r].on)
    BY <1>7 DEF Arms
  <2> QED
    BY <2>1, <1>1, <1>4, <1>5, <1>6, AwaitKeeps
<1>8. CASE Refuses(r)
  BY <1>1, <1>a, <1>4, <1>8, RefuseKeeps
<1>9. CASE reqs[r].on \notin PairRows /\ Awaits(r, "route", NoRow)
  BY <1>1, <1>4, <1>5, <1>6, <1>9, AwaitKeeps
<1>10. CASE /\ reqs[r].on \in PairRows
            /\ reqs' = [reqs EXCEPT ![r].at = "claim", ![r].late = pairs[reqs[r].on].stale]
  <2>1. reqs \in [Requests -> Reqs] /\ pairs[reqs[r].on].stale \in BOOLEAN
    BY <1>10, TypeSplit DEF IInv, Tables, Pairs
  <2>2. [reqs[r] EXCEPT !.at = "claim", !.late = pairs[reqs[r].on].stale] \in Reqs
    BY <2>1 DEF Reqs, Stages
  <2>3. reqs' = [reqs EXCEPT ![r] =
                   [reqs[r] EXCEPT !.at = "claim", !.late = pairs[reqs[r].on].stale]]
    BY <1>10
  <2>4. reqs'[r].at = "claim" /\ reqs'[r].on = reqs[r].on
    BY <2>1, <2>3 DEF Reqs
  <2>5. Goes(r, "claim", reqs[r].on)
    BY <2>1, <2>2, <2>3, <2>4 DEF Goes
  <2>6. RouteOK(r)'
    BY <2>4 DEF RouteOK, At
  <2>7. begun' \in 0 .. MaxRequests
    BY <1>1 DEF IInv, PlaneTypeOK
  <2> QED
    BY <1>1, <1>a, <1>4, <2>5, <2>6, <2>7, MovesKeep
<1> QED
  BY <1>7, <1>8, <1>9, <1>10 DEF Hits

-----------------------------------------------------------------------------
(* The steps that win an event's occasion and go on to log it. *)

\* A winner's step, whatever the row it wrote.
LEMMA WinnerKeeps ==
  ASSUME IInv, Tables', NEW r \in Requests, NEW e \in Events, Awaits(r, "log", e),
         UNCHANGED <<begun, routed, audit, handed, unlogged>>,
         \A h \in HostRows : hosts[h] = "revoked" => hosts'[h] = "revoked",
         \A d \in DeviceRows : devices'[d].from = devices[d].from,
         \A d \in DeviceRows : devices[d].standing # "absent" => devices'[d].standing # "absent",
         \A p \in PairRows : pairs[p].standing = "redeemed" => pairs'[p].standing = "redeemed",
         \A t \in Tickets : tickets[t].standing = "gone" => tickets'[t].standing = "gone",
         \A t \in Tickets :
           /\ tickets[t].standing # "absent" =>
                tickets'[t].standing # "absent" /\ tickets'[t].host = tickets[t].host
           /\ tickets'[t].standing # "absent" => tickets'[t].host \in HostRows,
         NotYet(e), ~NotYet(e)', \A f \in Events \ {e} : NotYet(f)' => NotYet(f)
  PROVE  IInv'
<1>1. "log" \in Stages /\ e \in Rows
  BY DEF Stages, Rows
<1>2. Goes(r, "log", e)
  BY <1>1, AwaitsGoes, TypeSplit DEF IInv
<1>3. PlaneTypeOK'
  BY <1>2 DEF IInv, PlaneTypeOK, Tables, Pairs, Goes, Reqs, Rows
<1>4. \A q \in Requests : reqs'[q] = reqs[q] \/ reqs'[q].at = "log"
  BY <1>2 DEF Goes
<1>5. KeepsPairing /\ KeepsTickets
  BY <1>4 DEF KeepsPairing, KeepsTickets
<1>6. RouteOK(r)'
  BY <1>2 DEF Goes, RouteOK, At
<1>7. KeepsRoutes
  BY <1>2, <1>6 DEF KeepsRoutes, Goes
<1>8. Logging'
  BY <1>2, LogBegins DEF IInv
<1> QED
  BY <1>3, <1>5, <1>7, <1>8, PairingKept, TicketingKept, RoutingKept DEF IInv

\* A winner stamps no device, and the others stamp the one they did.
LEMMA StampsStay ==
  ASSUME PlaneTypeOK, NEW r \in Requests, NEW e \in Events, Awaits(r, "log", e)
  PROVE  \A q \in Requests : At(q, "stamp")' =>
           q # r /\ At(q, "stamp") /\ reqs'[q].on = reqs[q].on
<1>1. "log" \in Stages /\ e \in Rows
  BY DEF Stages, Rows
<1>2. Goes(r, "log", e)
  BY <1>1, AwaitsGoes, TypeSplit
<1> QED
  BY <1>2 DEF Goes, At

\* A host is inserted once: its row was absent.
LEMMA InsertsHostStep ==
  ASSUME IInv, NEW r \in Requests, NEW h \in HostRows, InsertsHost(r, h)
  PROVE  IInv'
<1> DEFINE e == <<"host-registered", h>>
<1>1. e \in Events
  BY EventsTyped
<1>2. /\ UNCHANGED <<devices, pairs, tickets, rates, audit, handed, unlogged, routed, begun>>
      /\ hosts[h] = "absent" /\ hosts' = [hosts EXCEPT ![h] = "live"]
      /\ Awaits(r, "log", e)
  BY DEF InsertsHost, AfterInsert, Waits
<1>3. Tables
  BY TypeSplit DEF IInv
<1>4. Tables' /\ \A k \in HostRows : hosts'[k] = IF k = h THEN "live" ELSE hosts[k]
  BY <1>2, <1>3 DEF Tables
<1>5. \A q \in Requests : At(q, "stamp")' => At(q, "stamp") /\ reqs'[q].on = reqs[q].on
  BY <1>1, <1>2, StampsStay DEF IInv
<1>6. NotYet(e) /\ ~NotYet(e)'
  BY <1>2, <1>4 DEF NotYet
<1>7. \A f \in Events \ {e} : NotYet(f)' => NotYet(f)
  BY <1>2, <1>4, <1>5 DEF NotYet
<1>8. \A t \in Tickets : tickets[t].standing # "absent" => tickets[t].host \in HostRows
  BY DEF IInv, Routing
<1> HIDE DEF e
<1> QED
  BY <1>1, <1>2, <1>4, <1>6, <1>7, <1>8, WinnerKeeps

\* A host is revoked once: the update is guarded by revoked_at IS NULL.
LEMMA RevokesHostStep ==
  ASSUME IInv, NEW r \in Requests, NEW h \in HostRows, RevokesHost(r, h)
  PROVE  IInv'
<1> DEFINE e == <<"host-revoked", h>>
<1>1. e \in Events /\ e \in Rows
  BY EventsTyped DEF Rows
<1>2. UNCHANGED <<devices, pairs, tickets, rates, audit, handed, unlogged, routed, begun>>
  BY DEF RevokesHost, Waits
<1>3. Tables
  BY TypeSplit DEF IInv
<1>4. CASE hosts' = hosts /\ Awaits(r, "reply", e)
  BY <1>1, <1>2, <1>3, <1>4, AwaitKeeps DEF Tables
<1>5. CASE /\ hosts[h] = "live" /\ hosts' = [hosts EXCEPT ![h] = "revoked"]
           /\ Awaits(r, "log", e)
  <2>1. Tables' /\ \A k \in HostRows : hosts'[k] = IF k = h THEN "revoked" ELSE hosts[k]
    BY <1>2, <1>3, <1>5 DEF Tables
  <2>2. \A q \in Requests : At(q, "stamp")' => At(q, "stamp") /\ reqs'[q].on = reqs[q].on
    BY <1>1, <1>5, StampsStay DEF IInv
  <2>3. NotYet(e) /\ ~NotYet(e)'
    BY <1>5, <2>1 DEF NotYet
  <2>4. \A f \in Events \ {e} : NotYet(f)' => NotYet(f)
    BY <1>2, <2>1, <2>2 DEF NotYet
  <2>5. \A t \in Tickets : tickets[t].standing # "absent" => tickets[t].host \in HostRows
    BY DEF IInv, Routing
  <2> HIDE DEF e
  <2> QED
    BY <1>1, <1>2, <1>5, <2>1, <2>3, <2>4, <2>5, WinnerKeeps
<1> QED
  BY <1>4, <1>5 DEF RevokesHost, WinsRevocation

\* And a device likewise.
LEMMA RevokesDeviceStep ==
  ASSUME IInv, NEW r \in Requests, NEW d \in DeviceRows, RevokesDevice(r, d)
  PROVE  IInv'
<1> DEFINE e == <<"device-revoked", d>>
<1>1. e \in Events /\ e \in Rows
  BY EventsTyped DEF Rows
<1>2. UNCHANGED <<hosts, pairs, tickets, rates, audit, handed, unlogged, routed, begun>>
  BY DEF RevokesDevice, Waits
<1>3. Tables
  BY TypeSplit DEF IInv
<1>4. CASE devices' = devices /\ Awaits(r, "reply", e)
  BY <1>1, <1>2, <1>3, <1>4, AwaitKeeps DEF Tables
<1>5. CASE /\ devices[d].standing = "live"
           /\ devices' = [devices EXCEPT ![d].standing = "revoked"]
           /\ Awaits(r, "log", e)
  <2>1. /\ Tables'
        /\ \A k \in DeviceRows :
             /\ devices'[k].from = devices[k].from
             /\ devices'[k].standing = IF k = d THEN "revoked" ELSE devices[k].standing
    BY <1>2, <1>3, <1>5 DEF Tables
  <2>2. \A q \in Requests : At(q, "stamp")' => At(q, "stamp") /\ reqs'[q].on = reqs[q].on
    BY <1>1, <1>5, StampsStay DEF IInv
  <2>3. NotYet(e) /\ ~NotYet(e)'
    BY <1>5, <2>1 DEF NotYet
  <2>4. \A f \in Events \ {e} : NotYet(f)' => NotYet(f)
    BY <1>2, <2>1, <2>2 DEF NotYet
  <2>5. \A t \in Tickets : tickets[t].standing # "absent" => tickets[t].host \in HostRows
    BY DEF IInv, Routing
  <2>6. \A k \in DeviceRows : devices[k].standing # "absent" => devices'[k].standing # "absent"
    BY <2>1
  <2> HIDE DEF e
  <2> QED
    BY <1>1, <1>2, <1>5, <2>1, <2>3, <2>4, <2>5, <2>6, WinnerKeeps
<1> QED
  BY <1>4, <1>5 DEF RevokesDevice, WinsRevocation

\* A pair token is minted under a fresh id.
LEMMA MintPairTokenStep ==
  ASSUME IInv, NEW r \in Requests, NEW p \in PairRows, MintPairToken(r, p)
  PROVE  IInv'
<1> DEFINE e == <<"pair-minted", p>>
<1>1. e \in Events
  BY EventsTyped
<1>2. /\ UNCHANGED <<hosts, devices, tickets, rates, audit, handed, unlogged, routed, begun>>
      /\ pairs[p].standing = "absent" /\ Awaits(r, "log", e)
      /\ pairs' = [pairs EXCEPT ![p] = [@ EXCEPT !.standing = "open", !.host = reqs[r].host]]
  BY DEF MintPairToken, Waits
<1>3. Tables /\ reqs[r].host \in HostRows \cup {NoRow}
  BY TypeSplit DEF IInv, Reqs
<1>4. /\ Tables'
      /\ \A k \in PairRows : pairs'[k].standing = IF k = p THEN "open" ELSE pairs[k].standing
  <2> DEFINE w == [pairs[p] EXCEPT !.standing = "open", !.host = reqs[r].host]
  <2>1. w \in Pairs /\ w.standing = "open"
    <3>1. pairs[p] \in Pairs
      BY <1>3 DEF Tables
    <3> QED
      BY <1>3, <3>1 DEF Pairs
  <2>2. pairs' = [pairs EXCEPT ![p] = w]
    BY <1>2
  <2>3. pairs \in [PairRows -> Pairs]
    BY <1>3 DEF Tables
  <2> HIDE DEF w
  <2>4. pairs' \in [PairRows -> Pairs]
    BY <2>1, <2>2, <2>3
  <2>5. \A k \in PairRows : pairs'[k].standing = IF k = p THEN "open" ELSE pairs[k].standing
    BY <2>1, <2>2, <2>3
  <2> QED
    BY <1>2, <1>3, <2>4, <2>5 DEF Tables
<1>5. \A q \in Requests : At(q, "stamp")' => At(q, "stamp") /\ reqs'[q].on = reqs[q].on
  BY <1>1, <1>2, StampsStay DEF IInv
<1>6. NotYet(e) /\ ~NotYet(e)'
  BY <1>2, <1>4 DEF NotYet
<1>7. \A f \in Events \ {e} : NotYet(f)' => NotYet(f)
  BY <1>2, <1>4, <1>5 DEF NotYet
<1>8. \A t \in Tickets : tickets[t].standing # "absent" => tickets[t].host \in HostRows
  BY DEF IInv, Routing
<1>9. \A k \in PairRows : pairs[k].standing = "redeemed" => pairs'[k].standing = "redeemed"
  BY <1>2, <1>4
<1> HIDE DEF e
<1> QED
  BY <1>1, <1>2, <1>4, <1>6, <1>7, <1>8, <1>9, WinnerKeeps

\* A ticket is stored under a fresh id, for the host its request was about.
LEMMA IssueTicketStep ==
  ASSUME IInv, NEW r \in Requests, NEW t \in Tickets, IssueTicket(r, t)
  PROVE  IInv'
<1> DEFINE e == <<"ticket-minted", t>>
<1>1. e \in Events
  BY EventsTyped
<1>2. /\ UNCHANGED <<hosts, devices, pairs, rates, audit, handed, unlogged, routed, begun>>
      /\ tickets[t].standing = "absent" /\ Awaits(r, "log", e)
      /\ tickets' = [tickets EXCEPT ![t] = [@ EXCEPT !.standing = "stored",
                                                     !.host = reqs[r].host]]
  BY DEF IssueTicket, Waits
<1>3. Tables /\ reqs[r].host \in HostRows
  BY TypeSplit DEF IInv, Routing, RouteOK, IssueTicket, Waits
<1>4. /\ Tables'
      /\ \A k \in Tickets :
           /\ tickets'[k].standing = IF k = t THEN "stored" ELSE tickets[k].standing
           /\ tickets'[k].host = IF k = t THEN reqs[r].host ELSE tickets[k].host
  BY <1>2, <1>3 DEF Tables
<1>5. \A q \in Requests : At(q, "stamp")' => At(q, "stamp") /\ reqs'[q].on = reqs[q].on
  BY <1>1, <1>2, StampsStay DEF IInv
<1>6. NotYet(e) /\ ~NotYet(e)'
  BY <1>2, <1>4 DEF NotYet
<1>7. \A f \in Events \ {e} : NotYet(f)' => NotYet(f)
  BY <1>2, <1>4, <1>5 DEF NotYet
<1>8. \A k \in Tickets :
        /\ tickets[k].standing # "absent" =>
             tickets'[k].standing # "absent" /\ tickets'[k].host = tickets[k].host
        /\ tickets'[k].standing # "absent" => tickets'[k].host \in HostRows
  BY <1>2, <1>3, <1>4 DEF IInv, Routing
<1>9. \A k \in Tickets : tickets[k].standing = "gone" => tickets'[k].standing = "gone"
  BY <1>2, <1>4
<1> HIDE DEF e
<1> QED
  BY <1>1, <1>2, <1>4, <1>6, <1>7, <1>8, <1>9, WinnerKeeps

\* A device is stamped by the one request that enrolled it.
LEMMA StampsDeviceStep ==
  ASSUME IInv, NEW r \in Requests, NEW d \in DeviceRows, StampsDevice(r, d)
  PROVE  IInv'
<1> DEFINE e == <<"device-paired", d>>
<1>1. e \in Events
  BY EventsTyped
<1>2. /\ UNCHANGED <<hosts, devices, tickets, rates, audit, handed, unlogged, routed, begun>>
      /\ At(r, "stamp") /\ reqs[r].on = d /\ Awaits(r, "log", e)
      /\ pairs' = [pairs EXCEPT ![devices[d].from].device = d]
  BY DEF StampsDevice, Waits, At
<1>3. Tables
  BY TypeSplit DEF IInv
<1>4. /\ Tables'
      /\ \A k \in PairRows : pairs'[k].standing = pairs[k].standing
  <2>1. pairs \in [PairRows -> Pairs] /\ devices[d].from \in PairRows \cup {NoRow}
    BY <1>3 DEF Tables
  <2>2. CASE devices[d].from \in PairRows
    <3> DEFINE p == devices[d].from
               w == [pairs[p] EXCEPT !.device = d]
    <3>1. w \in Pairs /\ w.standing = pairs[p].standing
      BY <2>1, <2>2 DEF Pairs
    <3>2. pairs' = [pairs EXCEPT ![p] = w]
      BY <1>2
    <3> HIDE DEF w, p
    <3>3. pairs' \in [PairRows -> Pairs] /\ \A k \in PairRows : pairs'[k].standing = pairs[k].standing
      BY <2>1, <3>1, <3>2
    <3> QED
      BY <1>2, <1>3, <3>3 DEF Tables
  <2>3. CASE devices[d].from \notin PairRows
    <3>1. pairs' = pairs
      BY <1>2, <2>1, <2>3
    <3> QED
      BY <1>2, <1>3, <3>1 DEF Tables
  <2> QED
    BY <2>2, <2>3
<1>5. \A q \in Requests : At(q, "stamp")' =>
         q # r /\ At(q, "stamp") /\ reqs'[q].on = reqs[q].on
  BY <1>1, <1>2, StampsStay DEF IInv
<1>6. \A q \in Requests : At(q, "stamp") /\ reqs[q].on = d => q = r
  BY <1>2 DEF IInv, Logging
<1>7. devices[d].standing # "absent"
  BY <1>2 DEF IInv, Logging
<1>8. NotYet(e) /\ ~NotYet(e)'
  BY <1>2, <1>4, <1>5, <1>6, <1>7 DEF NotYet
<1>9. \A f \in Events \ {e} : NotYet(f)' => NotYet(f)
  BY <1>2, <1>4, <1>5 DEF NotYet
<1>10. \A t \in Tickets : tickets[t].standing # "absent" => tickets[t].host \in HostRows
  BY DEF IInv, Routing
<1> HIDE DEF e
<1> QED
  BY <1>1, <1>2, <1>4, <1>8, <1>9, <1>10, WinnerKeeps

-----------------------------------------------------------------------------
(* Time passes. *)

LEMMA InvKept ==
  ASSUME IInv, PlaneTypeOK', KeepsPairing, KeepsTickets, KeepsRoutes, KeepsLog
  PROVE  IInv'
  BY PairingKept, TicketingKept, RoutingKept, LoggingKept DEF IInv

\* A rate window ends, a pair token or a ticket expires.
LEMMA ExpiryStep ==
  ASSUME IInv,
         \/ \E k \in RateNames : WindowEnds(k)
         \/ \E p \in PairRows : PairExpires(p)
         \/ \E t \in Tickets : TicketExpires(t)
  PROVE  IInv'
<1>1. Tables /\ \A t \in Tickets : tickets[t].standing # "absent" => tickets[t].host \in HostRows
  BY TypeSplit DEF IInv, Routing
<1>2. UNCHANGED <<hosts, devices, audit, handed, unlogged, routed, reqs, begun>>
  BY DEF WindowEnds, PairExpires, TicketExpires
<1>3. ASSUME NEW k \in RateNames, WindowEnds(k)
      PROVE  UNCHANGED <<pairs, tickets>> /\ rates' \in [RateNames -> [there : BOOLEAN, ttl : BOOLEAN, n : Nat]]
  BY <1>1, <1>3 DEF WindowEnds, Tables
<1>4. ASSUME NEW p \in PairRows, PairExpires(p)
      PROVE  /\ UNCHANGED <<rates, tickets>> /\ pairs' \in [PairRows -> Pairs]
             /\ \A k \in PairRows : pairs'[k].standing = pairs[k].standing
  <2> DEFINE w == [pairs[p] EXCEPT !.stale = TRUE]
  <2>1. pairs \in [PairRows -> Pairs] /\ pairs[p] \in Pairs
    BY <1>1 DEF Tables
  <2>2. w \in Pairs /\ w.standing = pairs[p].standing
    BY <2>1 DEF Pairs
  <2>3. pairs' = [pairs EXCEPT ![p] = w] /\ UNCHANGED <<rates, tickets>>
    BY <1>4 DEF PairExpires
  <2> HIDE DEF w
  <2> QED
    BY <2>1, <2>2, <2>3
<1>5. ASSUME NEW t \in Tickets, TicketExpires(t)
      PROVE  /\ UNCHANGED <<rates, pairs>>
             /\ tickets' \in [Tickets -> [standing : {"absent", "stored", "gone"},
                                          stale : BOOLEAN, host : HostRows \cup {NoRow}]]
             /\ \A k \in Tickets :
                  /\ tickets'[k].host = tickets[k].host
                  /\ tickets'[k].standing = "absent" <=> tickets[k].standing = "absent"
                  /\ tickets[k].standing = "gone" => tickets'[k].standing = "gone"
  <2>1. CASE tickets' = [tickets EXCEPT ![t].stale = TRUE]
    <3> DEFINE T == [standing : {"absent", "stored", "gone"}, stale : BOOLEAN,
                     host : HostRows \cup {NoRow}]
               w == [tickets[t] EXCEPT !.stale = TRUE]
    <3>1. tickets \in [Tickets -> T] /\ tickets[t] \in T
      BY <1>1 DEF Tables
    <3>2. w \in T /\ w.host = tickets[t].host /\ w.standing = tickets[t].standing
      BY <3>1
    <3>3. tickets' = [tickets EXCEPT ![t] = w] /\ UNCHANGED <<rates, pairs>>
      BY <1>5, <2>1 DEF TicketExpires
    <3> HIDE DEF w, T
    <3>4. tickets' \in [Tickets -> T] /\ \A k \in Tickets :
            tickets'[k].host = tickets[k].host /\ tickets'[k].standing = tickets[k].standing
      BY <3>1, <3>2, <3>3
    <3> QED
      BY <3>3, <3>4 DEF T
  <2>2. CASE tickets' = [tickets EXCEPT ![t].standing = "gone"]
    BY <1>1, <1>5, <2>2 DEF TicketExpires, Tables
  <2> QED
    BY <1>5, <2>1, <2>2 DEF TicketExpires
<1>6. Tables'
  BY <1>1, <1>2, <1>3, <1>4, <1>5 DEF Tables
<1>7. PlaneTypeOK'
  BY <1>2, <1>6 DEF IInv, PlaneTypeOK, Tables, Pairs
<1>8. /\ \A k \in PairRows : pairs'[k].standing = pairs[k].standing
      /\ \A k \in Tickets :
           /\ tickets'[k].host = tickets[k].host
           /\ tickets'[k].standing = "absent" <=> tickets[k].standing = "absent"
           /\ tickets[k].standing = "gone" => tickets'[k].standing = "gone"
  BY <1>3, <1>4, <1>5
<1>9. KeepsPairing /\ KeepsTickets /\ KeepsRoutes /\ KeepsLog
  BY <1>1, <1>2, <1>8 DEF KeepsPairing, KeepsTickets, KeepsRoutes, KeepsLog
<1> QED
  BY <1>7, <1>9, InvKept

-----------------------------------------------------------------------------
(* The secrets. *)

\* Only the claim that found the token open goes on to enrol.
LEMMA ClaimsPairStep ==
  ASSUME IInv, NEW r \in Requests, NEW p \in PairRows, ClaimsPair(r, p)
  PROVE  IInv'
<1>1. UNCHANGED <<hosts, devices, tickets, rates, audit, handed, unlogged, routed, begun>>
  BY DEF ClaimsPair, Waits
<1>2. Tables
  BY TypeSplit DEF IInv
<1>3. CASE pairs' = pairs /\ Refuses(r)
  BY <1>1, <1>2, <1>3, RefuseKeeps DEF Tables
<1>4. CASE /\ pairs[p].standing = "open" /\ pairs' = [pairs EXCEPT ![p].standing = "redeemed"]
           /\ Awaits(r, "enrol", p)
  <2>1. "enrol" \in Stages /\ p \in Rows
    BY DEF Stages, Rows
  <2>2. Goes(r, "enrol", p)
    BY <1>4, <2>1, AwaitsGoes, TypeSplit DEF IInv
  <2>3. /\ pairs' \in [PairRows -> Pairs]
        /\ \A k \in PairRows : pairs'[k].standing = IF k = p THEN "redeemed" ELSE pairs[k].standing
    <3> DEFINE w == [pairs[p] EXCEPT !.standing = "redeemed"]
    <3>1. pairs \in [PairRows -> Pairs] /\ pairs[p] \in Pairs
      BY <1>2 DEF Tables
    <3>2. w \in Pairs /\ w.standing = "redeemed"
      BY <3>1 DEF Pairs
    <3>3. pairs' = [pairs EXCEPT ![p] = w]
      BY <1>4
    <3> HIDE DEF w
    <3> QED
      BY <3>1, <3>2, <3>3
  <2>4. PlaneTypeOK'
    BY <1>1, <1>2, <2>2, <2>3 DEF IInv, PlaneTypeOK, Tables, Pairs, Goes, Reqs, Rows
  <2>5. \A q \in Requests : reqs'[q] = reqs[q] \/ (q = r /\ reqs'[q].at = "enrol")
    BY <2>2 DEF Goes
  <2>6. RouteOK(r)'
    BY <2>2 DEF Goes, RouteOK, At
  <2>7. KeepsTickets /\ KeepsRoutes
    BY <1>1, <2>5, <2>6 DEF KeepsTickets, KeepsRoutes, IInv, Routing
  <2>8. KeepsLog
    BY <1>1, <2>3, <2>5 DEF KeepsLog
  <2>9. \A q \in Requests : At(q, "enrol")' =>
          \/ q = r /\ reqs'[q].on = p
          \/ At(q, "enrol") /\ reqs'[q].on = reqs[q].on /\ reqs[q].on # p
    BY <1>4, <2>2 DEF Goes, At, IInv, Pairing
  <2>10. \A d \in DeviceRows : devices[d].from # p
    BY <1>4, PlaneAssumption DEF IInv, Pairing
  <2>11. \A d \in DeviceRows : devices[d].from # NoRow => devices[d].from \in PairRows
    BY <1>2 DEF Tables
  <2>12. Pairing'
    BY <1>1, <2>3, <2>9, <2>10, <2>11 DEF IInv, Pairing
  <2> QED
    BY <2>4, <2>7, <2>8, <2>12, TicketingKept, RoutingKept, LoggingKept DEF IInv
<1> QED
  BY <1>3, <1>4 DEF ClaimsPair, Redeemable

\* The claim's winner makes the token's one device, and will stamp it.
LEMMA InsertsDeviceStep ==
  ASSUME IInv, NEW r \in Requests, NEW d \in DeviceRows, InsertsDevice(r, d)
  PROVE  IInv'
<1> DEFINE p == reqs[r].on
<1>1. /\ UNCHANGED <<hosts, pairs, tickets, rates, audit, handed, unlogged, routed, begun>>
      /\ At(r, "enrol") /\ devices[d].standing = "absent" /\ Awaits(r, "stamp", d)
      /\ devices' = [devices EXCEPT ![d] = [standing |-> "live", from |-> p]]
  BY DEF InsertsDevice, Waits, At
<1>2. Tables
  BY TypeSplit DEF IInv
<1>3. /\ p \in PairRows /\ pairs[p].standing = "redeemed"
      /\ \A k \in DeviceRows : devices[k].from # p
      /\ \A q \in Requests : At(q, "enrol") /\ reqs[q].on = p => q = r
  BY <1>1 DEF IInv, Pairing
<1> HIDE DEF p
<1>4. /\ Tables'
      /\ \A k \in DeviceRows :
           /\ devices'[k].from = IF k = d THEN p ELSE devices[k].from
           /\ devices'[k].standing = IF k = d THEN "live" ELSE devices[k].standing
  BY <1>1, <1>2, <1>3 DEF Tables
<1>5. Goes(r, "stamp", d)
  <2>1. "stamp" \in Stages /\ d \in Rows
    BY DEF Stages, Rows
  <2> QED
    BY <1>1, <2>1, AwaitsGoes, TypeSplit DEF IInv
<1>6. PlaneTypeOK'
  BY <1>1, <1>4, <1>5 DEF IInv, PlaneTypeOK, Tables, Pairs, Goes, Reqs, Rows
<1>7. \A q \in Requests : reqs'[q] = reqs[q] \/ (q = r /\ reqs'[q].at = "stamp")
  BY <1>5 DEF Goes
<1>8. RouteOK(r)'
  BY <1>5 DEF Goes, RouteOK, At
<1>9. KeepsTickets /\ KeepsRoutes
  BY <1>1, <1>7, <1>8 DEF KeepsTickets, KeepsRoutes, IInv, Routing
<1>10. Pairing'
  <2>1. \A q \in Requests : At(q, "enrol")' => At(q, "enrol") /\ reqs'[q].on = reqs[q].on /\ reqs[q].on # p
    BY <1>3, <1>5 DEF Goes, At
  <2> QED
    BY <1>1, <1>3, <1>4, <2>1 DEF IInv, Pairing
<1>11. Logging'
  <2>1. \A q \in Requests : At(q, "log")' => At(q, "log") /\ reqs'[q].on = reqs[q].on
    BY <1>5 DEF Goes, At
  <2>3. \A q \in Requests : At(q, "stamp")' =>
          \/ q = r /\ reqs'[q].on = d
          \/ At(q, "stamp") /\ reqs'[q].on = reqs[q].on /\ reqs[q].on # d
    BY <1>1, <1>5 DEF Goes, At, IInv, Logging
  <2>4. ASSUME NEW e \in Events, NotYet(e)'
        PROVE  NotYet(e)
    BY <1>1, <1>4, <2>3, <2>4 DEF NotYet
  <2>5. /\ \A q \in Requests : At(q, "log") => reqs[q].on \in Events /\ audit[reqs[q].on] = 0
        /\ \A q, k \in Requests :
             At(q, "log") /\ At(k, "log") /\ reqs[q].on = reqs[k].on => q = k
        /\ \A q, k \in Requests :
             At(q, "stamp") /\ At(k, "stamp") /\ reqs[q].on = reqs[k].on => q = k
        /\ \A q \in Requests : At(q, "stamp") =>
             reqs[q].on \in DeviceRows /\ devices[reqs[q].on].standing # "absent"
    BY DEF IInv, Logging
  <2>6. \A q, k \in Requests :
         /\ At(q, "log")' /\ At(k, "log")' /\ reqs'[q].on = reqs'[k].on => q = k
         /\ At(q, "stamp")' /\ At(k, "stamp")' /\ reqs'[q].on = reqs'[k].on => q = k
    BY <2>1, <2>3, <2>5
  <2>7. \A q \in Requests : At(q, "stamp")' =>
         reqs'[q].on \in DeviceRows /\ devices'[reqs'[q].on].standing # "absent"
    BY <1>4, <2>3, <2>5
  <2>8. \A q \in Requests : At(q, "log")' => reqs'[q].on \in Events /\ audit'[reqs'[q].on] = 0
    BY <1>1, <2>1, <2>5
  <2>9. \A e \in Events : NotYet(e)' =>
          audit'[e] = 0 /\ \A q \in Requests : At(q, "log")' => reqs'[q].on # e
    BY <1>1, <2>1, <2>4 DEF IInv, Logging
  <2>10. \A e \in Events : audit'[e] <= 1
    BY <1>1 DEF IInv, Logging
  <2> QED
    BY <2>6, <2>7, <2>8, <2>9, <2>10 DEF Logging
<1> QED
  BY <1>6, <1>9, <1>10, <1>11, TicketingKept, RoutingKept DEF IInv

\* Only the GETDEL that found the ticket stored goes on to load its host.
LEMMA TakesTicketStep ==
  ASSUME IInv, NEW r \in Requests, NEW t \in Tickets, TakesTicket(r, t)
  PROVE  IInv'
<1>1. /\ UNCHANGED <<hosts, devices, pairs, rates, audit, handed, unlogged, routed, begun>>
      /\ At(r, "take") /\ reqs[r].on = t
      /\ tickets' = [tickets EXCEPT ![t].standing = "gone"]
  BY DEF TakesTicket, Waits, At, Deleted
<1>2. Tables /\ reqs \in [Requests -> Reqs]
  BY TypeSplit DEF IInv
<1>3. /\ tickets[t].standing # "absent" /\ tickets[t].host \in HostRows
      /\ reqs[r].gone => hosts[tickets[t].host] = "revoked"
  BY <1>1 DEF IInv, Routing, RouteOK
<1>4. /\ Tables'
      /\ \A k \in Tickets :
           /\ tickets'[k].host = tickets[k].host
           /\ tickets'[k].standing = IF k = t THEN "gone" ELSE tickets[k].standing
  BY <1>1, <1>2 DEF Tables
<1>5. CASE Refuses(r)
  <2>1. Goes(r, "free", NoRow)
    BY <1>2, <1>5, RefusesGoes
  <2>2. PlaneTypeOK'
    BY <1>1, <1>4, <2>1 DEF IInv, PlaneTypeOK, Tables, Pairs, Goes, Reqs, Rows
  <2>3. \A q \in Requests : reqs'[q] = reqs[q] \/ (q = r /\ reqs'[q].at = "free")
    BY <2>1 DEF Goes
  <2>4. RouteOK(r)'
    BY <2>1 DEF Goes, RouteOK, At
  <2>5. KeepsPairing /\ KeepsTickets /\ KeepsLog
    BY <1>1, <1>4, <2>3 DEF KeepsPairing, KeepsTickets, KeepsLog
  <2>6. KeepsRoutes
    BY <1>1, <1>3, <1>4, <2>3, <2>4 DEF KeepsRoutes, IInv, Routing
  <2> QED
    BY <2>2, <2>5, <2>6, InvKept
<1>6. CASE /\ tickets[t].standing = "stored"
           /\ reqs' = [reqs EXCEPT ![r].at = "load", ![r].host = tickets[t].host]
  <2> DEFINE w == [reqs[r] EXCEPT !.at = "load", !.host = tickets[t].host]
  <2>1. w \in Reqs /\ w.at = "load" /\ w.on = t /\ w.host = tickets[t].host /\ w.gone = reqs[r].gone
    BY <1>1, <1>2, <1>3 DEF Reqs, Stages
  <2>2. reqs' = [reqs EXCEPT ![r] = w]
    BY <1>6
  <2> HIDE DEF w
  <2>3. Goes(r, "load", t) /\ reqs'[r] = w
    BY <1>2, <2>1, <2>2 DEF Goes
  <2>4. PlaneTypeOK'
    BY <1>1, <1>4, <2>3 DEF IInv, PlaneTypeOK, Tables, Pairs, Goes, Reqs, Rows
  <2>5. \A q \in Requests : reqs'[q] = reqs[q] \/ (q = r /\ reqs'[q].at = "load")
    BY <2>3 DEF Goes
  <2>6. RouteOK(r)'
    BY <1>1, <1>3, <2>1, <2>3 DEF RouteOK, At
  <2>7. KeepsPairing /\ KeepsLog
    BY <1>1, <1>4, <2>5 DEF KeepsPairing, KeepsLog
  <2>8. KeepsRoutes
    BY <1>1, <1>3, <1>4, <2>5, <2>6 DEF KeepsRoutes, IInv, Routing
  <2>9. \A q \in Requests : At(q, "load")' =>
          \/ q = r /\ reqs'[q].on = t
          \/ At(q, "load") /\ reqs'[q].on = reqs[q].on /\ reqs[q].on # t
    BY <1>6, <2>3 DEF Goes, At, IInv, Ticketing
  <2>10. routed[t] = 0
    BY <1>6 DEF IInv, Ticketing
  <2>11. Ticketing'
    BY <1>1, <1>4, <2>9, <2>10 DEF IInv, Ticketing
  <2> QED
    BY <2>4, <2>7, <2>8, <2>11, PairingKept, RoutingKept, LoggingKept DEF IInv
<1> QED
  BY <1>5, <1>6 DEF TakesTicket

\* The ticket's one taker resolves it, unless its host is revoked by now.
LEMMA ResolvesTicketStep ==
  ASSUME IInv, NEW r \in Requests, ResolvesTicket(r)
  PROVE  IInv'
<1> DEFINE t == reqs[r].on
<1>1. /\ UNCHANGED <<hosts, devices, pairs, tickets, rates, audit, handed, unlogged, begun>>
      /\ At(r, "load")
  BY DEF ResolvesTicket, Waits, At
<1>2. Tables /\ reqs \in [Requests -> Reqs]
  BY TypeSplit DEF IInv
<1>3. CASE Refuses(r) /\ routed' = routed
  BY <1>1, <1>2, <1>3, RefuseKeeps DEF Tables
<1>4. CASE /\ hosts[reqs[r].host] = "live" /\ reqs' = [reqs EXCEPT ![r].at = "resolved"]
           /\ routed' = [routed EXCEPT ![t] = @ + 1]
  <2>1. /\ t \in Tickets /\ routed[t] = 0 /\ tickets[t].standing = "gone"
        /\ \A q \in Requests : At(q, "load") /\ reqs[q].on = t => q = r
    BY <1>1 DEF IInv, Ticketing
  <2>2. ~reqs[r].gone
    BY <1>1, <1>4 DEF IInv, Routing, RouteOK
  <2> DEFINE w == [reqs[r] EXCEPT !.at = "resolved"]
  <2>3. w \in Reqs /\ w.at = "resolved" /\ w.on = t /\ w.gone = reqs[r].gone
    BY <1>2 DEF Reqs, Stages
  <2>4. reqs' = [reqs EXCEPT ![r] = w]
    BY <1>4
  <2> HIDE DEF w, t
  <2>5. Goes(r, "resolved", t) /\ reqs'[r] = w
    BY <1>2, <2>3, <2>4 DEF Goes
  <2>6. routed' \in [Tickets -> Nat] /\ \A k \in Tickets : routed'[k] = IF k = t THEN 1 ELSE routed[k]
    BY <1>2, <1>4, <2>1 DEF Tables
  <2>7. PlaneTypeOK'
    BY <1>1, <2>5, <2>6 DEF IInv, PlaneTypeOK, Goes, Reqs, Rows
  <2>8. \A q \in Requests : reqs'[q] = reqs[q] \/ (q = r /\ reqs'[q].at = "resolved")
    BY <2>5 DEF Goes
  <2>9. RouteOK(r)'
    BY <2>2, <2>3, <2>5 DEF RouteOK, At
  <2>10. KeepsPairing /\ KeepsLog
    BY <1>1, <2>8 DEF KeepsPairing, KeepsLog
  <2>11. KeepsRoutes
    BY <1>1, <2>8, <2>9 DEF KeepsRoutes, IInv, Routing
  <2>12. \A q \in Requests : At(q, "load")' => At(q, "load") /\ reqs'[q].on = reqs[q].on /\ reqs[q].on # t
    BY <2>1, <2>5 DEF Goes, At
  <2>13. Ticketing'
    BY <1>1, <2>1, <2>6, <2>12 DEF IInv, Ticketing
  <2> QED
    BY <2>7, <2>10, <2>11, <2>13, PairingKept, RoutingKept, LoggingKept DEF IInv
<1> QED
  BY <1>3, <1>4 DEF ResolvesTicket, LoadActiveHost

-----------------------------------------------------------------------------
(* The log and the answer. *)

\* The event's one logger appends it, and may answer.
LEMMA AppendAuditEventStep ==
  ASSUME IInv, NEW r \in Requests, AppendAuditEvent(r)
  PROVE  IInv'
<1> DEFINE e == reqs[r].on
<1>1. /\ UNCHANGED <<hosts, devices, pairs, tickets, rates, handed, unlogged, routed, begun>>
      /\ At(r, "log") /\ Awaits(r, "reply", e) /\ audit' = [audit EXCEPT ![e] = @ + 1]
  BY DEF AppendAuditEvent, Waits, At
<1>2. Tables /\ reqs \in [Requests -> Reqs]
  BY TypeSplit DEF IInv
<1>3. /\ e \in Events /\ audit[e] = 0 /\ ~NotYet(e)
      /\ \A q \in Requests : At(q, "log") /\ reqs[q].on = e => q = r
  BY <1>1 DEF IInv, Logging
<1> HIDE DEF e
<1>4. audit' \in [Events -> Nat] /\ \A f \in Events : audit'[f] = IF f = e THEN 1 ELSE audit[f]
  BY <1>1, <1>2, <1>3 DEF Tables
<1>5. Goes(r, "reply", e)
  <2>1. "reply" \in Stages /\ e \in Rows
    BY <1>3 DEF Stages, Rows
  <2> QED
    BY <1>1, <1>2, <2>1, AwaitsGoes
<1>6. PlaneTypeOK'
  BY <1>1, <1>4, <1>5 DEF IInv, PlaneTypeOK, Goes, Reqs, Rows
<1>7. \A q \in Requests : reqs'[q] = reqs[q] \/ (q = r /\ reqs'[q].at = "reply")
  BY <1>5 DEF Goes
<1>8. RouteOK(r)'
  BY <1>5 DEF Goes, RouteOK, At
<1>9. KeepsPairing /\ KeepsTickets /\ KeepsRoutes
  BY <1>1, <1>7, <1>8 DEF KeepsPairing, KeepsTickets, KeepsRoutes, IInv, Routing
<1>10. Logging'
  <2>1. \A q \in Requests : At(q, "log")' => At(q, "log") /\ reqs'[q].on = reqs[q].on /\ reqs[q].on # e
    BY <1>3, <1>5 DEF Goes, At
  <2>2. \A q \in Requests : At(q, "stamp")' => At(q, "stamp") /\ reqs'[q].on = reqs[q].on
    BY <1>5 DEF Goes, At
  <2>4. ASSUME NEW f \in Events, NotYet(f)'
        PROVE  NotYet(f) /\ f # e
    <3>1. NotYet(f)
      BY <1>1, <2>2, <2>4 DEF NotYet
    <3> QED
      BY <1>3, <3>1
  <2>6. \A f \in Events : audit'[f] <= 1
    BY <1>4 DEF IInv, Logging
  <2>7. \A f \in Events : NotYet(f)' =>
          audit'[f] = 0 /\ \A q \in Requests : At(q, "log")' => reqs'[q].on # f
    BY <1>4, <2>1, <2>4 DEF IInv, Logging
  <2>8. \A q \in Requests : At(q, "log")' => reqs'[q].on \in Events /\ audit'[reqs'[q].on] = 0
    BY <1>4, <2>1 DEF IInv, Logging
  <2>9. \A q, k \in Requests :
         /\ At(q, "log")' /\ At(k, "log")' /\ reqs'[q].on = reqs'[k].on => q = k
         /\ At(q, "stamp")' /\ At(k, "stamp")' /\ reqs'[q].on = reqs'[k].on => q = k
    BY <2>1, <2>2 DEF IInv, Logging
  <2>10. \A q \in Requests : At(q, "stamp")' =>
         reqs'[q].on \in DeviceRows /\ devices'[reqs'[q].on].standing # "absent"
    BY <1>1, <2>2 DEF IInv, Logging
  <2> QED
    BY <2>6, <2>7, <2>8, <2>9, <2>10 DEF Logging
<1> QED
  BY <1>6, <1>9, <1>10, PairingKept, TicketingKept, RoutingKept DEF IInv

\* An answer leaves the tables and the log.
LEMMA RepliesStep ==
  ASSUME IInv, NEW r \in Requests, Replies(r)
  PROVE  IInv'
<1>1. /\ UNCHANGED <<hosts, devices, pairs, tickets, rates, audit, unlogged, routed, begun>>
      /\ At(r, "reply") /\ Refuses(r) /\ handed' = handed \cup ({reqs[r].on} \cap Events)
  BY DEF Replies, Waits, At
<1>2. Tables /\ reqs \in [Requests -> Reqs]
  BY TypeSplit DEF IInv
<1>3. Goes(r, "free", NoRow)
  BY <1>1, <1>2, RefusesGoes
<1>4. PlaneTypeOK'
  BY <1>1, <1>3 DEF IInv, PlaneTypeOK, Goes, Reqs, Rows
<1>5. \A q \in Requests : reqs'[q] = reqs[q] \/ (q = r /\ reqs'[q].at = "free")
  BY <1>3 DEF Goes
<1>6. RouteOK(r)'
  BY <1>3 DEF Goes, RouteOK, At
<1>7. KeepsPairing /\ KeepsTickets /\ KeepsRoutes
  BY <1>1, <1>5, <1>6 DEF KeepsPairing, KeepsTickets, KeepsRoutes, IInv, Routing
<1>8. Logging'
  <2>1. \A q \in Requests : /\ At(q, "log")' => At(q, "log") /\ reqs'[q] = reqs[q]
                            /\ At(q, "stamp")' => At(q, "stamp") /\ reqs'[q] = reqs[q]
    BY <1>5 DEF At
  <2>2. \A f \in Events : NotYet(f)' => NotYet(f)
    BY <1>1, <2>1 DEF NotYet
  <2> QED
    BY <1>1, <2>1, <2>2 DEF IInv, Logging
<1> QED
  BY <1>4, <1>7, <1>8, PairingKept, TicketingKept, RoutingKept DEF IInv

-----------------------------------------------------------------------------
(* The theorems. *)

LEMMA InitInv == PlaneInit => IInv
<1> SUFFICES ASSUME PlaneInit PROVE IInv
  OBVIOUS
<1>1. \A r \in Requests : reqs[r] = Idle /\ reqs[r].at = "free"
  BY DEF PlaneInit, Idle
<1>2. PlaneTypeOK
  BY PlaneAssumption DEF PlaneInit, PlaneTypeOK, Idle, Stages
<1>3. Pairing /\ Ticketing
  BY <1>1 DEF PlaneInit, Pairing, Ticketing, At
<1>4. Routing
  BY <1>1 DEF PlaneInit, Routing, RouteOK, At
<1>5. Logging
  BY <1>1 DEF PlaneInit, Logging, At
<1> QED
  BY <1>2, <1>3, <1>4, <1>5 DEF IInv

LEMMA NextInv == IInv /\ [PlaneNext]_dbVars => IInv'
<1> SUFFICES ASSUME IInv, [PlaneNext]_dbVars PROVE IInv'
  OBVIOUS
<1>1. CASE UNCHANGED dbVars
  BY <1>1 DEF dbVars, planeRows, IInv, PlaneTypeOK, Pairing, Ticketing, Routing, RouteOK,
              Logging, NotYet, At
<1>2. ASSUME NEW r \in Requests,
             \/ PostHosts(r)
             \/ \E h \in HostRows : PostPair(r, h) \/ PostTickets(r, h) \/ DeleteHost(r, h)
             \/ \E d \in DeviceRows : DeleteDevice(r, d)
             \/ \E p \in PairRows : PostRedeem(r, p)
             \/ \E t \in Tickets : ValidateTicket(r, t)
      PROVE  IInv'
  BY <1>2, ArrivalStep
<1>3. ASSUME NEW r \in Requests,
             \/ CountsHosts(r) \/ FindsHost(r) \/ RoutesTicket(r) \/ Fails(r)
             \/ Arms(r) \/ Hits(r) \/ ResolvesTicket(r) \/ AppendAuditEvent(r) \/ Replies(r)
      PROVE  IInv'
  BY <1>3, LookStep, FailStep, LimitStep, ResolvesTicketStep, AppendAuditEventStep, RepliesStep
<1>4. ASSUME NEW r \in Requests, NEW h \in HostRows, InsertsHost(r, h) \/ RevokesHost(r, h)
      PROVE  IInv'
  BY <1>4, InsertsHostStep, RevokesHostStep
<1>5. ASSUME NEW r \in Requests, NEW d \in DeviceRows,
             InsertsDevice(r, d) \/ StampsDevice(r, d) \/ RevokesDevice(r, d)
      PROVE  IInv'
  BY <1>5, InsertsDeviceStep, StampsDeviceStep, RevokesDeviceStep
<1>6. ASSUME NEW r \in Requests, NEW p \in PairRows, MintPairToken(r, p) \/ ClaimsPair(r, p)
      PROVE  IInv'
  BY <1>6, MintPairTokenStep, ClaimsPairStep
<1>7. ASSUME NEW r \in Requests, NEW t \in Tickets, IssueTicket(r, t) \/ TakesTicket(r, t)
      PROVE  IInv'
  BY <1>7, IssueTicketStep, TakesTicketStep
<1> QED
  BY <1>1, <1>2, <1>3, <1>4, <1>5, <1>6, <1>7, ExpiryStep DEF PlaneNext

LEMMA Inductive == PlaneSpec => []IInv
  BY InitInv, NextInv, PTL DEF PlaneSpec

\* Rows, tickets, counters and requests are always of their types, whatever
\* fails, is retried or expires (the tables and the Redis records of Plane).
THEOREM TypeCorrect == PlaneSpec => []PlaneTypeOK
<1>1. IInv => PlaneTypeOK
  BY DEF IInv
<1> QED
  BY <1>1, Inductive, PTL

\* For any number of concurrent requests: a pair token makes one device at most,
\* a ticket is resolved once at most, and never when it was presented after its
\* host's revocation (redeemPairToken, consumeTicket).
THEOREM CredentialsOnce == PlaneSpec => []CredentialsSafe
<1>1. IInv => CredentialsSafe
  BY DEF IInv, CredentialsSafe, SecretsUsedOnce, RevokedNeverRouted,
         Pairing, Ticketing, Routing, RouteOK, At
<1> QED
  BY <1>1, Inductive, PTL

-----------------------------------------------------------------------------
(* What clients are told.  Accounts are never closed: the log only grows, a
   failure to log is noted, and a request leaves "log" in no other way. *)

\* What is accounted for stays so.
LEMMA AccountedStays ==
  ASSUME IInv, [PlaneNext]_dbVars, NEW e \in Events, Accounted(e)
  PROVE  Accounted(e)'
<1>1. reqs \in [Requests -> Reqs] /\ audit \in [Events -> Nat]
  BY DEF IInv, PlaneTypeOK, Reqs, Rows
<1>2. CASE \E r \in Requests : AppendAuditEvent(r)
  <2> PICK r \in Requests : AppendAuditEvent(r)
    BY <1>2
  <2>1. /\ At(r, "log") /\ audit' = [audit EXCEPT ![reqs[r].on] = @ + 1] /\ unlogged' = unlogged
        /\ \A q \in Requests \ {r} : reqs'[q] = reqs[q]
    BY <1>1 DEF AppendAuditEvent, Waits, Awaits, At
  <2>2. reqs[r].on \in Events /\ audit[reqs[r].on] = 0
    BY <2>1 DEF IInv, Logging
  <2>3. CASE e = reqs[r].on
    BY <1>1, <2>1, <2>2, <2>3 DEF Accounted
  <2>4. CASE e # reqs[r].on
    BY <1>1, <2>1, <2>4 DEF Accounted
  <2> QED  BY <2>3, <2>4
<1>3. CASE \E r \in Requests : Fails(r)
  <2> PICK r \in Requests : Fails(r)
    BY <1>3
  <2>1. /\ audit' = audit /\ \A q \in Requests \ {r} : reqs'[q] = reqs[q]
        /\ unlogged \subseteq unlogged' /\ (At(r, "log") => reqs[r].on \in unlogged')
    BY <1>1 DEF Fails, Refuses, At
  <2> QED  BY <2>1 DEF Accounted, At
<1>4. CASE /\ audit' = audit /\ unlogged' = unlogged
           /\ \A q \in Requests : reqs[q].at = "log" => reqs'[q] = reqs[q]
  BY <1>4 DEF Accounted
<1>5. ASSUME ~(\E r \in Requests : AppendAuditEvent(r)), ~(\E r \in Requests : Fails(r))
      PROVE  /\ audit' = audit /\ unlogged' = unlogged
             /\ \A q \in Requests : reqs[q].at = "log" => reqs'[q] = reqs[q]
  <2>1. CASE UNCHANGED <<reqs, audit, unlogged>>
    BY <2>1
  <2>2. ASSUME NEW r \in Requests, reqs[r].at # "log", UNCHANGED <<audit, unlogged>>,
               \A q \in Requests \ {r} : reqs'[q] = reqs[q]
        PROVE  /\ audit' = audit /\ unlogged' = unlogged
               /\ \A q \in Requests : reqs[q].at = "log" => reqs'[q] = reqs[q]
    BY <2>2
  <2>3. ASSUME NEW r \in Requests,
               \/ PostHosts(r)
               \/ \E h \in HostRows : PostPair(r, h) \/ PostTickets(r, h) \/ DeleteHost(r, h)
               \/ \E d \in DeviceRows : DeleteDevice(r, d)
               \/ \E p \in PairRows : PostRedeem(r, p)
               \/ \E t \in Tickets : ValidateTicket(r, t)
        PROVE  /\ reqs[r].at # "log" /\ UNCHANGED <<audit, unlogged>>
               /\ \A q \in Requests \ {r} : reqs'[q] = reqs[q]
    <3>1. \E start : Arriving(r, start)
      BY <2>3 DEF PostHosts, PostPair, PostTickets, DeleteHost, DeleteDevice, PostRedeem, ValidateTicket
    <3> QED  BY <1>1, <3>1 DEF Arriving, planeRows
  <2>4. ASSUME NEW r \in Requests,
               \/ CountsHosts(r) \/ FindsHost(r) \/ RoutesTicket(r) \/ Replies(r)
               \/ Arms(r) \/ Hits(r) \/ ResolvesTicket(r)
               \/ \E t \in Tickets : IssueTicket(r, t) \/ TakesTicket(r, t)
        PROVE  /\ reqs[r].at # "log" /\ UNCHANGED <<audit, unlogged>>
               /\ \A q \in Requests \ {r} : reqs'[q] = reqs[q]
    BY <1>1, <2>4 DEF CountsHosts, FindsHost, RoutesTicket, Replies, Arms, Hits, ResolvesTicket,
       IssueTicket, TakesTicket, Waits, Awaits, Refuses, planeRows
  <2>5. ASSUME NEW r \in Requests,
               \/ \E h \in HostRows : InsertsHost(r, h) \/ RevokesHost(r, h)
               \/ \E d \in DeviceRows :
                    InsertsDevice(r, d) \/ StampsDevice(r, d) \/ RevokesDevice(r, d)
               \/ \E p \in PairRows : MintPairToken(r, p) \/ ClaimsPair(r, p)
        PROVE  /\ reqs[r].at # "log" /\ UNCHANGED <<audit, unlogged>>
               /\ \A q \in Requests \ {r} : reqs'[q] = reqs[q]
    BY <1>1, <2>5 DEF InsertsHost, RevokesHost, InsertsDevice, StampsDevice, RevokesDevice,
       MintPairToken, ClaimsPair, Waits, Awaits, Refuses
  <2>6. CASE \/ \E k \in RateNames : WindowEnds(k)
             \/ \E p \in PairRows : PairExpires(p)
             \/ \E t \in Tickets : TicketExpires(t)
             \/ UNCHANGED dbVars
    BY <2>1, <2>6 DEF WindowEnds, PairExpires, TicketExpires, dbVars, planeRows
  <2> QED
    BY <1>5, <2>2, <2>3, <2>4, <2>5, <2>6 DEF PlaneNext
<1> QED  BY <1>2, <1>3, <1>4, <1>5

\* A step of request r, of which it is known what r is about to answer, what it
\* told, and which rows it revoked.
LEMMA TellingKept ==
  ASSUME IInv, Telling, [PlaneNext]_dbVars, NEW r \in Requests,
         \A q \in Requests \ {r} : reqs'[q] = reqs[q],
         \A e \in handed' : e \in handed \/ (e \in Events /\ Accounted(e)'),
         \A h \in HostRows :
           /\ hosts'[h] = "revoked" =>
                hosts[h] = "revoked" \/ Accounted(<<"host-revoked", h>>)'
           /\ hosts'[h] = "absent" => hosts[h] = "absent",
         \A d \in DeviceRows :
           /\ devices'[d].standing = "revoked" =>
                devices[d].standing = "revoked" \/ Accounted(<<"device-revoked", d>>)'
           /\ devices'[d].standing = "absent" => devices[d].standing = "absent",
         \/ reqs'[r] = reqs[r]
         \/ reqs'[r].at \notin {"reply", "revoke-host", "revoke-device"}
         \/ \E e \in Events : reqs'[r].at = "reply" /\ reqs'[r].on = e /\ Accounted(e)'
         \/ \E h \in HostRows :
              /\ reqs'[r].at = "revoke-host" /\ reqs'[r].on = h /\ hosts'[h] # "absent"
         \/ \E d \in DeviceRows : /\ reqs'[r].at = "revoke-device" /\ reqs'[r].on = d
                                  /\ devices'[d].standing # "absent"
  PROVE  Telling'
<1>1. handed \subseteq Events
  BY DEF IInv, PlaneTypeOK
<1>2. \A e \in Events : Accounted(e) => Accounted(e)'
  BY AccountedStays
<1>3. \A h \in HostRows : hosts'[h] = "revoked" => Accounted(<<"host-revoked", h>>)'
  BY <1>2, EventsTyped DEF Telling
<1>4. \A d \in DeviceRows : devices'[d].standing = "revoked" => Accounted(<<"device-revoked", d>>)'
  BY <1>2, EventsTyped DEF Telling
<1>5. ASSUME NEW q \in Requests, NEW e \in Events, reqs'[q].at = "reply", reqs'[q].on = e
      PROVE  Accounted(e)'
  <2>1. CASE reqs'[q] = reqs[q]
    <3>1. Accounted(e)
      BY <1>5, <2>1 DEF Telling, At
    <3> QED  BY <1>2, <3>1
  <2>2. CASE reqs'[q] # reqs[q]
    BY <1>5, <2>2
  <2> QED  BY <2>1, <2>2
<1>6. \A e \in handed' : Accounted(e)'
  BY <1>1, <1>2 DEF Telling
<1>7. ASSUME NEW q \in Requests, reqs'[q].at = "revoke-host", NEW h \in HostRows, reqs'[q].on = h
      PROVE  hosts'[h] # "absent"
  BY <1>7 DEF Telling, At
<1>8. ASSUME NEW q \in Requests, reqs'[q].at = "revoke-device", NEW d \in DeviceRows,
             reqs'[q].on = d
      PROVE  devices'[d].standing # "absent"
  BY <1>8 DEF Telling, At
<1>9. (\A q \in Requests : At(q, "reply") /\ reqs[q].on \in Events => Accounted(reqs[q].on))'
  BY <1>5 DEF At, Accounted
<1> QED  BY <1>3, <1>4, <1>6, <1>7, <1>8, <1>9 DEF Telling, At

\* A handler that awaits its next statement, or ends, moves no other.
LEMMA AwaitsMoves ==
  ASSUME reqs \in [Requests -> Reqs], NEW r \in Requests, NEW at, NEW on, Awaits(r, at, on)
  PROVE  /\ \A q \in Requests \ {r} : reqs'[q] = reqs[q]
         /\ reqs'[r].at = at /\ reqs'[r].on = on
  BY DEF Awaits, Reqs

LEMMA RefusesMoves ==
  ASSUME reqs \in [Requests -> Reqs], NEW r \in Requests, Refuses(r)
  PROVE  /\ \A q \in Requests \ {r} : reqs'[q] = reqs[q]
         /\ reqs'[r].at = "free"
  BY DEF Refuses, Idle

\* Every step keeps the accounts: only the winner of a revocation, its logger, the
\* repeated deletion, which finds its row revoked, and the answer touch them.
LEMMA TellingStep ==
  ASSUME IInv, Telling, [PlaneNext]_dbVars
  PROVE  Telling'
<1>0. /\ reqs \in [Requests -> Reqs] /\ hosts \in [HostRows -> {"absent", "live", "revoked"}]
      /\ devices \in [DeviceRows -> [standing : {"absent", "live", "revoked"},
                                     from : PairRows \cup {NoRow}]]
      /\ audit \in [Events -> Nat]
  BY DEF IInv, PlaneTypeOK, Reqs, Rows
<1>1. ASSUME NEW r \in Requests,
             \/ PostHosts(r)
             \/ \E h \in HostRows : PostPair(r, h) \/ PostTickets(r, h) \/ DeleteHost(r, h)
             \/ \E d \in DeviceRows : DeleteDevice(r, d)
             \/ \E p \in PairRows : PostRedeem(r, p)
             \/ \E t \in Tickets : ValidateTicket(r, t)
      PROVE  Telling'
  <2>1. /\ \A q \in Requests \ {r} : reqs'[q] = reqs[q]
        /\ UNCHANGED <<hosts, devices, handed>>
    <3>1. \E start : Arriving(r, start)
      BY <1>1 DEF PostHosts, PostPair, PostTickets, DeleteHost, DeleteDevice, PostRedeem, ValidateTicket
    <3> QED  BY <1>0, <3>1 DEF Arriving, planeRows
  <2>2. \/ reqs'[r].at \in {"count", "find", "arm", "take"}
        \/ \E h \in HostRows :
             reqs'[r].at = "revoke-host" /\ reqs'[r].on = h /\ hosts'[h] # "absent"
        \/ \E d \in DeviceRows : /\ reqs'[r].at = "revoke-device" /\ reqs'[r].on = d
                                 /\ devices'[d].standing # "absent"
    <3>1. CASE \E h \in HostRows : DeleteHost(r, h)
      BY <1>0, <2>1, <3>1 DEF DeleteHost, Arriving, Idle
    <3>2. CASE \E d \in DeviceRows : DeleteDevice(r, d)
      BY <1>0, <2>1, <3>2 DEF DeleteDevice, Arriving, Idle
    <3>3. ASSUME NEW start, Arriving(r, start), start.at \in {"count", "find", "arm", "take"}
          PROVE  reqs'[r].at \in {"count", "find", "arm", "take"}
      BY <1>0, <3>3 DEF Arriving
    <3>4. CASE PostHosts(r) \/ \E h \in HostRows : PostPair(r, h) \/ PostTickets(r, h)
      BY <3>3, <3>4 DEF PostHosts, PostPair, PostTickets, Idle
    <3>5. CASE \E p \in PairRows : PostRedeem(r, p)
      BY <3>3, <3>5 DEF PostRedeem, Idle
    <3>6. CASE \E t \in Tickets : ValidateTicket(r, t)
      BY <3>3, <3>6 DEF ValidateTicket, Idle
    <3> QED  BY <1>1, <3>1, <3>2, <3>4, <3>5, <3>6
  <2> QED  BY <2>1, <2>2, TellingKept
<1>2. ASSUME NEW r \in Requests,
             \/ CountsHosts(r) \/ FindsHost(r) \/ RoutesTicket(r) \/ Fails(r)
             \/ Arms(r) \/ Hits(r) \/ ResolvesTicket(r)
             \/ \E h \in HostRows : InsertsHost(r, h)
             \/ \E d \in DeviceRows : InsertsDevice(r, d) \/ StampsDevice(r, d)
             \/ \E p \in PairRows : MintPairToken(r, p) \/ ClaimsPair(r, p)
             \/ \E t \in Tickets : IssueTicket(r, t) \/ TakesTicket(r, t)
      PROVE  Telling'
  <2>1. /\ \A q \in Requests \ {r} : reqs'[q] = reqs[q]
        /\ handed' = handed /\ reqs'[r].at \notin {"reply", "revoke-host", "revoke-device"}
    <3> DEFINE Quiet == {"insert", "mint", "hit", "route", "store", "enrol", "stamp", "log"}
    <3>1. handed' = handed
      BY <1>2 DEF CountsHosts, FindsHost, RoutesTicket, Fails, Arms, Hits, ResolvesTicket,
         InsertsHost, InsertsDevice, StampsDevice, MintPairToken, ClaimsPair, IssueTicket,
         TakesTicket, planeRows
    <3>2. \/ Refuses(r) \/ \E at \in Quiet : \E on : Awaits(r, at, on)
          \/ reqs' = [reqs EXCEPT ![r].at = "claim", ![r].late = pairs[reqs[r].on].stale]
          \/ \E t \in Tickets :
               reqs' = [reqs EXCEPT ![r].at = "load", ![r].host = tickets[t].host]
          \/ reqs' = [reqs EXCEPT ![r].at = "resolved"]
      <4>1. CASE CountsHosts(r) \/ FindsHost(r) \/ RoutesTicket(r) \/ Fails(r) \/ Arms(r)
        BY <4>1 DEF CountsHosts, FindsHost, RoutesTicket, Fails, Arms
      <4>2. CASE Hits(r) \/ ResolvesTicket(r)
        BY <4>2 DEF Hits, ResolvesTicket
      <4>3. CASE \/ \E h \in HostRows : InsertsHost(r, h)
                 \/ \E d \in DeviceRows : InsertsDevice(r, d) \/ StampsDevice(r, d)
        BY <4>3 DEF InsertsHost, AfterInsert, InsertsDevice, StampsDevice
      <4>4. CASE \/ \E p \in PairRows : MintPairToken(r, p) \/ ClaimsPair(r, p)
                 \/ \E t \in Tickets : IssueTicket(r, t) \/ TakesTicket(r, t)
        BY <4>4 DEF MintPairToken, ClaimsPair, IssueTicket, TakesTicket
      <4> QED  BY <1>2, <4>1, <4>2, <4>3, <4>4
    <3>3. CASE Refuses(r)
      BY <1>0, <3>1, <3>3, RefusesMoves
    <3>4. CASE \E at \in Quiet : \E on : Awaits(r, at, on)
      <4>1. PICK at \in Quiet : \E on : Awaits(r, at, on)
        BY <3>4
      <4>2. (\A q \in Requests \ {r} : reqs'[q] = reqs[q]) /\ reqs'[r].at = at
        BY <1>0, <4>1, AwaitsMoves
      <4> QED  BY <3>1, <4>1, <4>2
    <3>5. CASE \/ reqs' = [reqs EXCEPT ![r].at = "claim", ![r].late = pairs[reqs[r].on].stale]
               \/ reqs' = [reqs EXCEPT ![r].at = "resolved"]
      BY <1>0, <3>1, <3>5 DEF Reqs
    <3>6. CASE \E t \in Tickets :
                 reqs' = [reqs EXCEPT ![r].at = "load", ![r].host = tickets[t].host]
      BY <1>0, <3>1, <3>6 DEF Reqs
    <3> QED  BY <3>2, <3>3, <3>4, <3>5, <3>6
  <2>2. \A h \in HostRows : /\ hosts'[h] = "revoked" => hosts[h] = "revoked"
                            /\ hosts'[h] = "absent" => hosts[h] = "absent"
    BY <1>0, <1>2 DEF CountsHosts, FindsHost, RoutesTicket, Fails, Arms, Hits, ResolvesTicket,
       InsertsHost, InsertsDevice, StampsDevice, MintPairToken, ClaimsPair, IssueTicket,
       TakesTicket, planeRows
  <2>3. \A d \in DeviceRows :
          /\ devices'[d].standing = "revoked" => devices[d].standing = "revoked"
          /\ devices'[d].standing = "absent" => devices[d].standing = "absent"
    <3>1. \/ devices' = devices
          \/ \E d \in DeviceRows :
               devices' = [devices EXCEPT ![d] = [standing |-> "live", from |-> reqs[r].on]]
      BY <1>2 DEF CountsHosts, FindsHost, RoutesTicket, Fails, Arms, Hits, ResolvesTicket,
         InsertsHost, InsertsDevice, StampsDevice, MintPairToken, ClaimsPair, IssueTicket,
         TakesTicket, planeRows
    <3>2. CASE devices' = devices
      BY <3>2
    <3>3. ASSUME NEW d \in DeviceRows,
                 devices' = [devices EXCEPT ![d] = [standing |-> "live", from |-> reqs[r].on]]
          PROVE  \A k \in DeviceRows : devices'[k].standing \in {"live", devices[k].standing}
      BY <1>0, <3>3
    <3> QED  BY <1>0, <3>1, <3>2, <3>3
  <2> QED  BY <2>1, <2>2, <2>3, TellingKept
<1>3. ASSUME NEW r \in Requests, NEW h \in HostRows, RevokesHost(r, h) PROVE Telling'
  <2> DEFINE e == <<"host-revoked", h>>
  <2>1. /\ \A q \in Requests \ {r} : reqs'[q] = reqs[q]
        /\ reqs'[r].on = e /\ e \in Events
        /\ UNCHANGED <<devices, handed>> /\ At(r, "revoke-host") /\ reqs[r].on = h
    <3>1. \E at \in {"log", "reply"} : Awaits(r, at, e)
      BY <1>3 DEF RevokesHost
    <3>2. /\ \A q \in Requests \ {r} : reqs'[q] = reqs[q]
          /\ reqs'[r].on = e
      <4> HIDE DEF e
      <4> QED  BY <1>0, <3>1, AwaitsMoves
    <3> QED  BY <1>3, <3>2, EventsTyped DEF RevokesHost, Waits, At
  <2>2. CASE hosts[h] = "live"
    <3>1. hosts' = [hosts EXCEPT ![h] = "revoked"] /\ reqs'[r].at = "log"
      BY <1>0, <1>3, <2>2 DEF RevokesHost, WinsRevocation, Awaits, Reqs
    <3>2. reqs'[r].on = e
      BY <1>0, <1>3, <2>2 DEF RevokesHost, WinsRevocation, Awaits, Reqs
    <3>3. Accounted(e)'
      BY <3>1, <3>2 DEF Accounted
    <3>4. \A k \in HostRows : hosts'[k] = IF k = h THEN "revoked" ELSE hosts[k]
      BY <1>0, <3>1
    <3> QED  BY <2>1, <3>1, <3>3, <3>4, TellingKept
  <2>3. CASE hosts[h] # "live"
    <3>1. hosts' = hosts /\ reqs'[r].at = "reply" /\ reqs'[r].on = e
      BY <1>0, <1>3, <2>3 DEF RevokesHost, WinsRevocation, Awaits, Reqs
    <3>2. hosts[h] = "revoked"
      BY <1>0, <2>1, <2>3 DEF Telling
    <3>3. Accounted(e)
      BY <3>2 DEF Telling
    <3> HIDE DEF e
    <3>4. Accounted(e)'
      BY <2>1, <3>3, AccountedStays
    <3> QED  BY <2>1, <3>1, <3>4, TellingKept
  <2> QED  BY <2>2, <2>3
<1>4. ASSUME NEW r \in Requests, NEW d \in DeviceRows, RevokesDevice(r, d) PROVE Telling'
  <2> DEFINE e == <<"device-revoked", d>>
  <2>1. /\ \A q \in Requests \ {r} : reqs'[q] = reqs[q]
        /\ reqs'[r].on = e /\ e \in Events
        /\ UNCHANGED <<hosts, handed>> /\ At(r, "revoke-device") /\ reqs[r].on = d
    <3>1. \E at \in {"log", "reply"} : Awaits(r, at, e)
      BY <1>4 DEF RevokesDevice
    <3>2. /\ \A q \in Requests \ {r} : reqs'[q] = reqs[q]
          /\ reqs'[r].on = e
      <4> HIDE DEF e
      <4> QED  BY <1>0, <3>1, AwaitsMoves
    <3> QED  BY <1>4, <3>2, EventsTyped DEF RevokesDevice, Waits, At
  <2>2. CASE devices[d].standing = "live"
    <3>1. devices' = [devices EXCEPT ![d].standing = "revoked"] /\ reqs'[r].at = "log"
      BY <1>0, <1>4, <2>2 DEF RevokesDevice, WinsRevocation, Awaits, Reqs
    <3>2. reqs'[r].on = e
      BY <1>0, <1>4, <2>2 DEF RevokesDevice, WinsRevocation, Awaits, Reqs
    <3>3. Accounted(e)'
      BY <3>1, <3>2 DEF Accounted
    <3>4. \A k \in DeviceRows :
            devices'[k].standing = IF k = d THEN "revoked" ELSE devices[k].standing
      BY <1>0, <3>1
    <3> QED  BY <2>1, <3>1, <3>3, <3>4, TellingKept
  <2>3. CASE devices[d].standing # "live"
    <3>1. devices' = devices /\ reqs'[r].at = "reply" /\ reqs'[r].on = e
      BY <1>0, <1>4, <2>3 DEF RevokesDevice, WinsRevocation, Awaits, Reqs
    <3>2. devices[d].standing = "revoked"
      BY <1>0, <2>1, <2>3 DEF Telling
    <3>3. Accounted(e)
      BY <3>2 DEF Telling
    <3> HIDE DEF e
    <3>4. Accounted(e)'
      BY <2>1, <3>3, AccountedStays
    <3> QED  BY <2>1, <3>1, <3>4, TellingKept
  <2> QED  BY <2>2, <2>3
<1>5. ASSUME NEW r \in Requests, AppendAuditEvent(r) PROVE Telling'
  <2>1. /\ \A q \in Requests \ {r} : reqs'[q] = reqs[q]
        /\ UNCHANGED <<hosts, devices, handed>> /\ At(r, "log")
        /\ reqs'[r].at = "reply" /\ reqs'[r].on = reqs[r].on
        /\ audit' = [audit EXCEPT ![reqs[r].on] = @ + 1]
    BY <1>0, <1>5 DEF AppendAuditEvent, Waits, Awaits, At, Reqs
  <2>2. PICK e \in Events : e = reqs[r].on /\ audit[e] = 0
    BY <2>1 DEF IInv, Logging
  <2>3. Accounted(e)'
    BY <1>0, <2>1, <2>2 DEF Accounted
  <2> QED  BY <2>1, <2>2, <2>3, TellingKept
<1>6. ASSUME NEW r \in Requests, Replies(r) PROVE Telling'
  <2>1. /\ \A q \in Requests \ {r} : reqs'[q] = reqs[q]
        /\ UNCHANGED <<hosts, devices>> /\ At(r, "reply") /\ reqs'[r].at = "free"
        /\ handed' = handed \cup ({reqs[r].on} \cap Events)
    BY <1>0, <1>6 DEF Replies, Waits, Refuses, Idle, At
  <2>2. ASSUME NEW e \in handed', e \notin handed PROVE e \in Events /\ Accounted(e)'
    <3>1. e \in Events /\ e = reqs[r].on
      BY <2>1, <2>2
    <3>2. Accounted(reqs[r].on)
      BY <2>1, <3>1 DEF Telling
    <3>3. Accounted(e)
      BY <3>1, <3>2
    <3> QED  BY <2>1, <3>1, <3>3, AccountedStays
  <2> QED  BY <2>1, <2>2, TellingKept
<1>7. CASE \/ \E k \in RateNames : WindowEnds(k)
           \/ \E p \in PairRows : PairExpires(p)
           \/ \E t \in Tickets : TicketExpires(t)
           \/ UNCHANGED dbVars
  <2>1. UNCHANGED <<hosts, devices, handed, audit, unlogged, reqs>>
    BY <1>7 DEF WindowEnds, PairExpires, TicketExpires, dbVars, planeRows
  <2>2. \A e : Accounted(e)' <=> Accounted(e)
    BY <2>1 DEF Accounted
  <2>3. /\ \A h \in HostRows : hosts'[h] = "revoked" => Accounted(<<"host-revoked", h>>)'
        /\ \A d \in DeviceRows :
             devices'[d].standing = "revoked" => Accounted(<<"device-revoked", d>>)'
        /\ \A e \in handed' : Accounted(e)'
    BY <2>1, <2>2 DEF Telling
  <2>4. (\A q \in Requests : At(q, "reply") /\ reqs[q].on \in Events => Accounted(reqs[q].on))'
    BY <2>1 DEF Telling, At, Accounted
  <2> QED  BY <2>1, <2>3, <2>4 DEF Telling, At
<1> QED
  BY <1>1, <1>2, <1>3, <1>4, <1>5, <1>6, <1>7 DEF PlaneNext

\* For any number of concurrent requests: a credential a client was handed is in the
\* log, a revocation it was told of is too unless the request that revoked has yet to
\* log it or has failed to, and nothing is in the log twice (appendAuditEvent before
\* the answer; the deletions' idempotent answers).
THEOREM LogComplete == PlaneSpec => []HandedIsLogged
<1>1. PlaneInit => Telling
  <2> SUFFICES ASSUME PlaneInit PROVE Telling
    OBVIOUS
  <2>1. \A r \in Requests : reqs[r].at = "free"
    BY DEF PlaneInit, Idle
  <2> QED  BY <2>1 DEF PlaneInit, Telling, At
<1>2. IInv /\ Telling /\ [PlaneNext]_dbVars => (IInv /\ Telling)'
  BY NextInv, TellingStep
<1>3. IInv /\ Telling => HandedIsLogged
  BY DEF IInv, Logging, Telling, HandedIsLogged
<1> QED
  BY InitInv, <1>1, <1>2, <1>3, PTL DEF PlaneSpec
=============================================================================
