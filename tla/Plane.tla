------------------------------- MODULE Plane --------------------------------
(***************************************************************************)
(* The control plane's credentials: hosts, pair tokens, devices and relay  *)
(* tickets, over a database and a Redis that every replica shares          *)
(* (apps/control-plane/src: routers/{user,pairing,relay,internal}.ts,      *)
(* services/{pairing,relay-coordination,rate-limit,audit,auth}.ts).        *)
(*                                                                         *)
(* A request is a handler that awaits; reqs[r].at names the statement it   *)
(* runs next, so the steps of requests on any number of replicas           *)
(* interleave. A statement may fail, or its replica die, at every await.   *)
(* Bodies, ids, names and the tenancy (Tenancy.tla) are left out.          *)
(***************************************************************************)
EXTENDS Naturals, FiniteSets

CONSTANTS
    Requests,                                \* requests in flight at once
    HostRows, DeviceRows, PairRows, Tickets, \* the ids the plane mints
    maxHostsPerOrg,
    HitLimit,     \* rateLimits.ticketsPerMin and pairRedeemPerMin
    MaxRequests,  \* bound on the requests served
    NoRow

ASSUME PlaneAssumption ==
    /\ {maxHostsPerOrg, HitLimit, MaxRequests} \subseteq Nat
    /\ NoRow \notin HostRows \cup DeviceRows \cup PairRows \cup Tickets
    /\ IsFiniteSet(HostRows) /\ IsFiniteSet(DeviceRows)

VARIABLES
    hosts,    \* table hosts: absent, live or revoked (revoked_at)
    devices,  \* table devices; `from` is the pair token that was redeemed
    pairs,    \* table pair_tokens
    tickets,  \* relay:tkt:<hash> in Redis
    rates,    \* rl:<name>:<key> in Redis: a count and whether it has a TTL
    audit,    \* table audit_events: how often each event is in it
    handed,   \* the acts a client was answered about with success
    unlogged, \* history: the acts whose request failed before the log had them
    routed,   \* how often each ticket was resolved to its host
    reqs,
    begun

planeRows == <<hosts, devices, pairs, tickets, rates, audit, handed, unlogged, routed>>
dbVars == <<planeRows, reqs, begun>>

Events ==
    ({"host-registered", "host-revoked"} \X HostRows)
      \cup ({"device-paired", "device-revoked"} \X DeviceRows)
      \cup ({"pair-minted"} \X PairRows) \cup ({"ticket-minted"} \X Tickets)

ASSUME NoRowAssumption == NoRow \notin Events

Stages == {"free", "count", "insert", "find", "mint", "arm", "hit", "claim", "enrol",
           "stamp", "route", "store", "take", "load", "revoke-host", "revoke-device", "log", "reply", "resolved"}
RateNames == {"tickets", "pair-redeem"}

Idle == [at |-> "free", on |-> NoRow, host |-> NoRow, late |-> FALSE, gone |-> FALSE]

PlaneTypeOK ==
    /\ hosts \in [HostRows -> {"absent", "live", "revoked"}]
    /\ devices \in [DeviceRows -> [standing : {"absent", "live", "revoked"},
                                   from : PairRows \cup {NoRow}]]
    /\ pairs \in [PairRows -> [standing : {"absent", "open", "redeemed"}, stale : BOOLEAN,
                               host : HostRows \cup {NoRow},
                               device : DeviceRows \cup {NoRow}]]
    /\ tickets \in [Tickets -> [standing : {"absent", "stored", "gone"}, stale : BOOLEAN,
                                host : HostRows \cup {NoRow}]]
    /\ rates \in [RateNames -> [there : BOOLEAN, ttl : BOOLEAN, n : Nat]]
    /\ audit \in [Events -> Nat]
    /\ handed \subseteq Events /\ unlogged \subseteq Events
    /\ routed \in [Tickets -> Nat]
    /\ reqs \in [Requests ->
                   [at : Stages, host : HostRows \cup {NoRow},
                    late : BOOLEAN, gone : BOOLEAN,
                    on : HostRows \cup DeviceRows \cup PairRows \cup Tickets
                           \cup Events \cup {NoRow}]]
    /\ begun \in 0 .. MaxRequests

PlaneInit ==
    /\ hosts = [h \in HostRows |-> "absent"]
    /\ devices = [d \in DeviceRows |-> [standing |-> "absent", from |-> NoRow]]
    /\ pairs = [p \in PairRows |-> [standing |-> "absent", stale |-> FALSE,
                                    host |-> NoRow, device |-> NoRow]]
    /\ tickets = [t \in Tickets |->
                    [standing |-> "absent", stale |-> FALSE, host |-> NoRow]]
    /\ rates = [k \in RateNames |-> [there |-> FALSE, ttl |-> FALSE, n |-> 0]]
    /\ audit = [e \in Events |-> 0]
    /\ handed = {} /\ unlogged = {}
    /\ routed = [t \in Tickets |-> 0]
    /\ reqs = [r \in Requests |-> Idle]
    /\ begun = 0

-----------------------------------------------------------------------------
(* The shape of a request *)

\* r waits for statement `at` of its handler.
Waits(r, at) == reqs[r].at = at /\ UNCHANGED begun
\* r's statement succeeds and the handler awaits `at`, about row or event `on`.
Awaits(r, at, on) == reqs' = [reqs EXCEPT ![r].at = at, ![r].on = on]
\* r answers with an error, or fails: nothing was handed out.
Refuses(r) == reqs' = [reqs EXCEPT ![r] = Idle]

Arriving(r, start) ==
    /\ reqs[r].at = "free" /\ begun < MaxRequests
    /\ begun' = begun + 1
    /\ reqs' = [reqs EXCEPT ![r] = start]
    /\ UNCHANGED planeRows

\* The routes. The caller is authenticated on arrival (Tenancy); a deletion looks
\* its row up, and a redemption or validation of an unknown secret is refused.
PostHosts(r) == Arriving(r, [Idle EXCEPT !.at = "count"])
PostPair(r, h) == Arriving(r, [Idle EXCEPT !.at = "find", !.host = h])
PostTickets(r, h) == Arriving(r, [Idle EXCEPT !.at = "arm", !.host = h])
PostRedeem(r, p) ==
    pairs[p].standing # "absent" /\ Arriving(r, [Idle EXCEPT !.at = "arm", !.on = p])
DeleteHost(r, h) ==
    hosts[h] # "absent" /\ Arriving(r, [Idle EXCEPT !.at = "revoke-host", !.on = h])
DeleteDevice(r, d) ==
    /\ devices[d].standing # "absent"
    /\ Arriving(r, [Idle EXCEPT !.at = "revoke-device", !.on = d])
\* The clock is read as the call begins; `gone` notes for the property that the
\* host was already revoked by then.
ValidateTicket(r, t) ==
    /\ tickets[t].standing # "absent"
    /\ Arriving(r, [Idle EXCEPT !.at = "take", !.on = t, !.late = tickets[t].stale,
                                !.gone = hosts[tickets[t].host] = "revoked"])

\* A statement throws or the replica dies; or the resolved route has been sent.
Fails(r) ==
    /\ reqs[r].at # "free" /\ Refuses(r)
    /\ unlogged' = IF reqs[r].at = "log" THEN unlogged \cup {reqs[r].on} ELSE unlogged
    /\ UNCHANGED <<hosts, devices, pairs, tickets, rates, audit, handed, routed, begun>>

-----------------------------------------------------------------------------
(* The log: appended to before anything is handed back *)

AppendAuditEvent(r) ==
    /\ Waits(r, "log") /\ Awaits(r, "reply", reqs[r].on)
    /\ audit' = [audit EXCEPT ![reqs[r].on] = @ + 1]
    /\ UNCHANGED <<hosts, devices, pairs, tickets, rates, handed, unlogged, routed>>

Replies(r) ==
    /\ Waits(r, "reply") /\ Refuses(r)
    /\ handed' = handed \cup ({reqs[r].on} \cap Events)
    /\ UNCHANGED <<hosts, devices, pairs, tickets, rates, audit, unlogged, routed>>

-----------------------------------------------------------------------------
(* Hosts *)

CountsHosts(r) ==
    /\ Waits(r, "count")
    /\ IF Cardinality({h \in HostRows : hosts[h] = "live"}) >= maxHostsPerOrg
         THEN Refuses(r)
         ELSE Awaits(r, "insert", NoRow)
    /\ UNCHANGED planeRows

\* Mutation: the answer goes out before the log.
RepliesUnlogged == "reply"

\* What follows the insert of a row.
AfterInsert == "log"

InsertsHost(r, h) ==
    /\ Waits(r, "insert") /\ hosts[h] = "absent"
    /\ hosts' = [hosts EXCEPT ![h] = "live"]
    /\ Awaits(r, AfterInsert, <<"host-registered", h>>)
    /\ UNCHANGED <<devices, pairs, tickets, rates, audit, handed, unlogged, routed>>

WinsRevocation(standing) == standing = "live"

\* The first revocation is logged. A repeat is answered the same, whatever became
\* of the first one's log entry.
RevokesHost(r, h) ==
    /\ Waits(r, "revoke-host") /\ reqs[r].on = h
    /\ IF WinsRevocation(hosts[h])
         THEN /\ hosts' = [hosts EXCEPT ![h] = "revoked"]
              /\ Awaits(r, "log", <<"host-revoked", h>>)
         ELSE UNCHANGED hosts /\ Awaits(r, "reply", <<"host-revoked", h>>)
    /\ UNCHANGED <<devices, pairs, tickets, rates, audit, handed, unlogged, routed>>

RevokesDevice(r, d) ==
    /\ Waits(r, "revoke-device") /\ reqs[r].on = d
    /\ IF WinsRevocation(devices[d].standing)
         THEN /\ devices' = [devices EXCEPT ![d].standing = "revoked"]
              /\ Awaits(r, "log", <<"device-revoked", d>>)
         ELSE UNCHANGED devices /\ Awaits(r, "reply", <<"device-revoked", d>>)
    /\ UNCHANGED <<hosts, pairs, tickets, rates, audit, handed, unlogged, routed>>

-----------------------------------------------------------------------------
(* Rate limits *)

RateOf(r) == IF reqs[r].on \in PairRows THEN "pair-redeem" ELSE "tickets"

\* SET key 0 NX PX: the TTL is armed with the key's creation.
Arms(r) ==
    /\ Waits(r, "arm") /\ Awaits(r, "hit", reqs[r].on)
    /\ rates' = [rates EXCEPT ![RateOf(r)] =
                   IF @.there THEN @ ELSE [there |-> TRUE, ttl |-> TRUE, n |-> 0]]
    /\ UNCHANGED <<hosts, devices, pairs, tickets, audit, handed, unlogged, routed>>

\* INCR creates a missing key at 1, without a TTL, and keeps a present one's.
\* A redemption reads the clock as soon as it is let through.
Hits(r) ==
    /\ Waits(r, "hit")
    /\ rates' = [rates EXCEPT ![RateOf(r)].there = TRUE, ![RateOf(r)].n = @ + 1]
    /\ IF rates'[RateOf(r)].n > HitLimit THEN Refuses(r)
       ELSE IF reqs[r].on \in PairRows
         THEN reqs' = [reqs EXCEPT ![r].at = "claim", ![r].late = pairs[reqs[r].on].stale]
         ELSE Awaits(r, "route", NoRow)
    /\ UNCHANGED <<hosts, devices, pairs, tickets, audit, handed, unlogged, routed>>

WindowEnds(k) ==
    /\ rates[k].there /\ rates[k].ttl
    /\ rates' = [rates EXCEPT ![k] = [there |-> FALSE, ttl |-> FALSE, n |-> 0]]
    /\ UNCHANGED <<hosts, devices, pairs, tickets, audit, handed, unlogged, routed, reqs, begun>>

-----------------------------------------------------------------------------
(* Pair tokens *)

\* A host that another request revokes after this look still gets its token.
FindsHost(r) ==
    /\ Waits(r, "find")
    /\ IF hosts[reqs[r].host] = "live" THEN Awaits(r, "mint", NoRow) ELSE Refuses(r)
    /\ UNCHANGED planeRows

MintPairToken(r, p) ==
    /\ Waits(r, "mint") /\ pairs[p].standing = "absent"
    /\ pairs' = [pairs EXCEPT ![p] = [@ EXCEPT !.standing = "open", !.host = reqs[r].host]]
    /\ Awaits(r, "log", <<"pair-minted", p>>)
    /\ UNCHANGED <<hosts, devices, tickets, rates, audit, handed, unlogged, routed>>

\* Mutation: redeemed_at is not looked at.
RedeemableIfFresh(r, p) == ~reqs[r].late

\* UPDATE ... WHERE redeemed_at IS NULL AND expires_at > now RETURNING *
Redeemable(r, p) == pairs[p].standing = "open" /\ ~reqs[r].late

ClaimsPair(r, p) ==
    /\ Waits(r, "claim") /\ reqs[r].on = p
    /\ IF Redeemable(r, p)
         THEN /\ pairs' = [pairs EXCEPT ![p].standing = "redeemed"]
              /\ Awaits(r, "enrol", p)
         ELSE UNCHANGED pairs /\ Refuses(r)
    /\ UNCHANGED <<hosts, devices, tickets, rates, audit, handed, unlogged, routed>>

InsertsDevice(r, d) ==
    /\ Waits(r, "enrol") /\ devices[d].standing = "absent"
    /\ devices' = [devices EXCEPT ![d] = [standing |-> "live", from |-> reqs[r].on]]
    /\ Awaits(r, "stamp", d)
    /\ UNCHANGED <<hosts, pairs, tickets, rates, audit, handed, unlogged, routed>>

StampsDevice(r, d) ==
    /\ Waits(r, "stamp") /\ reqs[r].on = d
    /\ pairs' = [pairs EXCEPT ![devices[d].from].device = d]
    /\ Awaits(r, "log", <<"device-paired", d>>)
    /\ UNCHANGED <<hosts, devices, tickets, rates, audit, handed, unlogged, routed>>

PairExpires(p) ==
    /\ pairs[p].standing = "open" /\ ~pairs[p].stale
    /\ pairs' = [pairs EXCEPT ![p].stale = TRUE]
    /\ UNCHANGED <<hosts, devices, tickets, rates, audit, handed, unlogged, routed, reqs, begun>>

-----------------------------------------------------------------------------
(* Relay tickets *)

RoutesTicket(r) ==
    /\ Waits(r, "route")
    /\ IF hosts[reqs[r].host] = "live" THEN Awaits(r, "store", NoRow) ELSE Refuses(r)
    /\ UNCHANGED planeRows

\* SET NX PX under a fresh random ticket; a collision mints another.
IssueTicket(r, t) ==
    /\ Waits(r, "store") /\ tickets[t].standing = "absent"
    /\ tickets' = [tickets EXCEPT ![t] = [@ EXCEPT !.standing = "stored",
                                                   !.host = reqs[r].host]]
    /\ Awaits(r, "log", <<"ticket-minted", t>>)
    /\ UNCHANGED <<hosts, devices, pairs, rates, audit, handed, unlogged, routed>>

\* GETDEL, then the record's own expiry.
Deleted(t) == [tickets EXCEPT ![t].standing = "gone"]

TakesTicket(r, t) ==
    /\ Waits(r, "take") /\ reqs[r].on = t
    /\ tickets' = Deleted(t)
    /\ IF tickets[t].standing = "stored" /\ ~reqs[r].late
         THEN reqs' = [reqs EXCEPT ![r].at = "load", ![r].host = tickets[t].host]
         ELSE Refuses(r)
    /\ UNCHANGED <<hosts, devices, pairs, rates, audit, handed, unlogged, routed>>

\* The host behind a ticket, unless it is revoked.
LoadActiveHost(h) == hosts[h] = "live"

ResolvesTicket(r) ==
    /\ Waits(r, "load")
    /\ IF LoadActiveHost(reqs[r].host)
         THEN /\ reqs' = [reqs EXCEPT ![r].at = "resolved"]
              /\ routed' = [routed EXCEPT ![reqs[r].on] = @ + 1]
         ELSE Refuses(r) /\ UNCHANGED routed
    /\ UNCHANGED <<hosts, devices, pairs, tickets, rates, audit, handed, unlogged>>

\* Redis evicts the key when its TTL runs out; the plane's own clock may be
\* behind, or ahead and find the record expired while Redis still holds it.
TicketExpires(t) ==
    /\ tickets[t].standing = "stored"
    /\ \/ ~tickets[t].stale /\ tickets' = [tickets EXCEPT ![t].stale = TRUE]
       \/ tickets' = [tickets EXCEPT ![t].standing = "gone"]
    /\ UNCHANGED <<hosts, devices, pairs, rates, audit, handed, unlogged, routed, reqs, begun>>

-----------------------------------------------------------------------------
PlaneNext ==
    \/ \E r \in Requests :
         \/ PostHosts(r) \/ CountsHosts(r) \/ FindsHost(r) \/ RoutesTicket(r)
         \/ Arms(r) \/ Hits(r) \/ ResolvesTicket(r)
         \/ AppendAuditEvent(r) \/ Replies(r) \/ Fails(r)
         \/ \E h \in HostRows :
              \/ InsertsHost(r, h) \/ PostPair(r, h) \/ PostTickets(r, h)
              \/ DeleteHost(r, h) \/ RevokesHost(r, h)
         \/ \E d \in DeviceRows :
              InsertsDevice(r, d) \/ StampsDevice(r, d) \/ DeleteDevice(r, d)
                \/ RevokesDevice(r, d)
         \/ \E p \in PairRows : MintPairToken(r, p) \/ PostRedeem(r, p) \/ ClaimsPair(r, p)
         \/ \E t \in Tickets :
              IssueTicket(r, t) \/ ValidateTicket(r, t) \/ TakesTicket(r, t)
    \/ \E k \in RateNames : WindowEnds(k)
    \/ \E p \in PairRows : PairExpires(p)
    \/ \E t \in Tickets : TicketExpires(t)

PlaneSpec == PlaneInit /\ [][PlaneNext]_dbVars

-----------------------------------------------------------------------------
\* A secret works once whatever is retried, raced or interrupted: a pair token
\* makes at most one device, a relay ticket is resolved at most once
\* (redeemPairToken's claim, consumeTicket's GETDEL).
SecretsUsedOnce ==
    /\ \A d, e \in DeviceRows :
         devices[d].from = devices[e].from /\ devices[d].from # NoRow => d = e
    /\ \A t \in Tickets : routed[t] <= 1

\* The log has event e - or e is a revocation whose own request is about to log
\* it, or has failed to.
Accounted(e) ==
    \/ audit[e] = 1
    \/ /\ e[1] \in {"host-revoked", "device-revoked"}
       /\ e \in unlogged \/ \E r \in Requests : reqs[r].at = "log" /\ reqs[r].on = e

\* No client holds a credential that the log missed ("an authorization the log
\* missed never reaches the client", services/audit.ts), and nothing is in the
\* log twice. A revocation is weaker: a repeated delete is answered ok without a
\* look at the log, so a client may be told of one that the log lacks - but only
\* while the request that revoked is about to log it, or after it failed there,
\* and then the entry is missing for good.
HandedIsLogged ==
    /\ \A e \in handed : Accounted(e)
    /\ \A e \in Events : audit[e] <= 1

\* A ticket presented after its host was revoked is never resolved, even when it
\* was minted, or its mint looked at the host, before (consumeTicket).
RevokedNeverRouted == \A r \in Requests : reqs[r].at = "resolved" => ~reqs[r].gone

\* Secrets work once, and not past the revocation of what they open.
CredentialsSafe == SecretsUsedOnce /\ RevokedNeverRouted

\* A rate counter that exists will expire (services/rate-limit.ts on
\* checkRateLimit: INCR "can never leave a TTL-less (immortal) counter behind").
CountersMortal == \A k \in RateNames : rates[k].there => rates[k].ttl
=============================================================================
