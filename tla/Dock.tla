-------------------------------- MODULE Dock --------------------------------
(***************************************************************************)
(* `pherry dock`: sign in, register this host, anchor its keys, decide on  *)
(* the boot service, make sure a daemon runs that has loaded the identity  *)
(* just registered, mint a pairing and enroll the phone that redeems it    *)
(* (packages/cli/src/commands/dock.ts), with the service manager behind    *)
(* it (cli/src/service) and the daemon it starts and stops.                *)
(*                                                                         *)
(* One dock at a time; it may be interrupted between any two steps, and    *)
(* the daemon, its sessions, the control plane and the phone go their own  *)
(* way meanwhile.                                                          *)
(***************************************************************************)
EXTENDS Integers

CONSTANTS
    MaxHosts,   \* bound: hosts registered
    MaxStarts   \* bound: docks run

ASSUME DockAssumption == MaxHosts \in Nat /\ MaxStarts \in Nat

VARIABLES
    backend,    \* the service manager: launchd, systemd, none
    at,         \* the step dock is at
    run,        \* what dock holds in its variables
    starts,     \* docks begun
    grant,      \* the sign-in request at the control plane
    live,       \* hosts whose credential the control plane honours
    minted,     \* hosts registered so far
    dockjson,   \* the host in dock.json; 0 absent, -1 torn
    pins, enrolled,   \* hosts pinned in known_hosts, keys in devices.json
    pref,       \* the remembered decision on the boot service
    daemon,     \* the custody daemon
    pairing     \* the pair token minted last

dockVars == <<backend, at, run, starts, grant, live, minted, dockjson, pins,
              enrolled, pref, daemon, pairing>>

HostIds == 1..MaxHosts
Prefs == {"open", "installed", "declined"}

\* DockOptions and what runDock computes on the way.
Runs == [old : HostIds \cup {0}, same : BOOLEAN, id : HostIds \cup {0},
         made : {"none", "created", "reused"}, flag : {"none", "yes", "no"},
         tty : BOOLEAN, managed : BOOLEAN, auto : BOOLEAN, needs : BOOLEAN]

\* The daemon: whether the service manager runs it, whether it has read
\* dock.json and whom it serves as, whether it holds live sessions and, noted for
\* the properties, whether it was up before dock.json was last written.
Daemons == [up : BOOLEAN, managed : BOOLEAN, loaded : BOOLEAN,
            id : HostIds \cup {0, -1}, busy : BOOLEAN, older : BOOLEAN]
Down == [up |-> FALSE, managed |-> FALSE, loaded |-> FALSE, id |-> 0, busy |-> FALSE,
         older |-> FALSE]
Started(m) == [Down EXCEPT !.up = TRUE, !.managed = m]

\* The types, and that a sign-in is open only while dock waits for it.
DockTypeOK ==
    /\ backend \in {"launchd", "systemd", "none"}
    /\ at \in {"idle", "signin", "browser", "headless", "register", "create",
               "write", "pin", "enroll", "service", "ensure", "probe",
               "stop", "respawn", "pair", "await", "confirm"}
    /\ run \in Runs /\ starts \in 0..MaxStarts
    /\ grant \in {"none", "pending", "approved", "over"}
    /\ at \notin {"browser", "headless"} => grant = "none"
    /\ live \in SUBSET HostIds /\ minted \in 0..MaxHosts
    /\ dockjson \in HostIds \cup {0, -1}
    /\ pins \in SUBSET HostIds /\ enrolled \in SUBSET {"self", "phone", "swapped"}
    /\ pref \in Prefs
    /\ daemon \in Daemons
    /\ pairing \in {"none", "pending", "expired", "keyless", "phone", "swapped"}

NoRun == [old |-> 0, same |-> FALSE, id |-> 0, made |-> "none", flag |-> "none",
          tty |-> FALSE, managed |-> FALSE, auto |-> FALSE, needs |-> FALSE]

DockInit ==
    /\ backend \in {"launchd", "systemd", "none"}
    /\ at = "idle" /\ run = NoRun /\ starts = 0 /\ grant = "none"
    /\ live = {} /\ minted = 0 /\ dockjson = 0 /\ pins = {} /\ enrolled = {}
    /\ pref = "open" /\ daemon = Down /\ pairing = "none"

-----------------------------------------------------------------------------
(* Sign-in. *)

\* Mutation: the callback listener is not closed when sign-in fails.
EndedListening == at' = "idle" /\ run' = NoRun /\ UNCHANGED grant /\ pairing' = "none"

\* The process is gone, and with it what only it held; the callback listener
\* is closed in a finally.
Ended == at' = "idle" /\ run' = NoRun /\ grant' = "none" /\ pairing' = "none"

\* A torn dock.json makes readDockConfig throw before anything happens.
DockBegins ==
    /\ at = "idle" /\ starts < MaxStarts /\ dockjson # -1
    /\ starts' = starts + 1
    /\ run' \in {r \in Runs : /\ r.old = dockjson /\ r.id = 0 /\ r.made = "none"
                              /\ ~r.managed /\ ~r.needs
                              /\ r.same => r.old # 0}
    /\ at' = "signin"
    /\ UNCHANGED <<backend, grant, live, minted, dockjson, pins, enrolled, pref,
                   daemon, pairing>>

\* signIn: a token given, a browser opened, or neither.
SignsIn(way) ==
    /\ at = "signin"
    /\ at' = IF way = "token" THEN "register" ELSE way
    /\ grant' = IF way = "token" THEN grant ELSE "pending"
    /\ UNCHANGED <<backend, run, starts, live, minted, dockjson, pins, enrolled,
                   pref, daemon, pairing>>

\* The code arrives at the loopback listener, or the poll finds the approval.
Exchanges ==
    /\ at \in {"browser", "headless"} /\ grant = "approved"
    /\ grant' = "none" /\ at' = "register"
    /\ UNCHANGED <<backend, run, starts, live, minted, dockjson, pins, enrolled,
                   pref, daemon, pairing>>

\* Mutation: the headless poll has no deadline.
BrowserTimesOut == at = "browser" /\ grant = "over"

\* The deadline of the request passes.
SignInTimesOut == at \in {"browser", "headless"} /\ grant = "over"

\* What must make dock throw: sign-in too late, the plan's hosts used up, the
\* host revoked before its pairing.
Refused ==
    /\ \/ SignInTimesOut
       \/ at = "create" /\ minted = MaxHosts
       \/ at = "pair" /\ run.id \notin live
    /\ Ended
    /\ UNCHANGED <<backend, starts, live, minted, dockjson, pins, enrolled, pref, daemon>>

\* What may: a call to the control plane fails, or dock is killed.  A write of
\* dock.json under way is torn.
Gives ==
    /\ at # "idle" /\ Ended
    /\ dockjson' = IF at = "write" THEN -1 ELSE dockjson
    /\ UNCHANGED <<backend, starts, live, minted, pins, enrolled, pref, daemon>>

-----------------------------------------------------------------------------
(* Registration and anchors. *)

\* registerHost: a saved credential for the same control plane is probed; 401
\* alone means it is stale.
Registers ==
    /\ at = "register"
    /\ LET r == [run EXCEPT !.old = 0, !.same = FALSE]
       IN  IF run.same /\ run.old \in live
           THEN run' = [r EXCEPT !.id = run.old, !.made = "reused"] /\ at' = "pin"
           ELSE run' = r /\ at' = "create"
    /\ UNCHANGED <<backend, starts, grant, live, minted, dockjson, pins, enrolled,
                   pref, daemon, pairing>>

\* POST /v1/hosts, as long as the plan has hosts left.
Creates ==
    /\ at = "create" /\ minted < MaxHosts
    /\ minted' = minted + 1 /\ live' = live \cup {minted + 1}
    /\ run' = [run EXCEPT !.id = minted + 1, !.made = "created"]
    /\ at' = "write"
    /\ UNCHANGED <<backend, starts, grant, dockjson, pins, enrolled, pref, daemon,
                   pairing>>

\* writeDockConfig.
WritesDock ==
    /\ at = "write"
    /\ dockjson' = run.id /\ at' = "pin"
    /\ daemon' = [daemon EXCEPT !.older = daemon.up]
    /\ UNCHANGED <<backend, run, starts, grant, live, minted, pins, enrolled, pref,
                   pairing>>

\* writeKnownHost on this machine's own key.
Pinned == pins \cup {run.id}

PinsSelf ==
    /\ at = "pin"
    /\ pins' = Pinned /\ at' = "enroll"
    /\ UNCHANGED <<backend, run, starts, grant, live, minted, dockjson, enrolled,
                   pref, daemon, pairing>>

EnrollsSelf ==
    /\ at = "enroll"
    /\ enrolled' = enrolled \cup {"self"} /\ at' = "service"
    /\ UNCHANGED <<backend, run, starts, grant, live, minted, dockjson, pins, pref,
                   daemon, pairing>>

-----------------------------------------------------------------------------
(* The boot service. *)

\* The ladder: the flag, the remembered choice, the question.  Empty: skipped.
ServiceAnswers ==
    IF run.flag # "none" THEN {run.flag = "yes"}
    ELSE IF pref # "open" THEN {pref = "installed"}
    ELSE IF run.tty THEN BOOLEAN ELSE {}

\* ServiceBackend.install.  launchd boots the running job out first; either
\* starts the unit, which defers to a daemon that is up.
Installed ==
    IF (backend = "launchd" /\ daemon.managed) \/ ~daemon.up
    THEN Started(TRUE) ELSE daemon

DecidesService ==
    /\ at = "service" /\ at' = "ensure"
    /\ \/ /\ backend = "none" \/ ServiceAnswers = {}
          /\ UNCHANGED <<pref, daemon, run>>
       \/ /\ backend # "none" /\ FALSE \in ServiceAnswers
          /\ pref' = "declined" /\ UNCHANGED <<daemon, run>>
       \/ /\ backend # "none" /\ TRUE \in ServiceAnswers
          /\ pref' = "installed" /\ daemon' = Installed
          /\ run' = [run EXCEPT !.managed = TRUE]
       \/ /\ backend # "none" /\ TRUE \in ServiceAnswers   \* the manager refuses
          /\ UNCHANGED <<pref, daemon, run>>
    /\ UNCHANGED <<backend, starts, grant, live, minted, dockjson, pins, enrolled,
                   pairing>>

\* `pherry service install` and `uninstall`, with no dock under way.
ServiceCommand ==
    /\ at = "idle" /\ backend # "none"
    /\ \/ pref' = "installed" /\ daemon' = Installed
       \/ pref' = "open" /\ daemon' = IF daemon.managed THEN Down ELSE daemon
    /\ UNCHANGED <<backend, at, run, starts, grant, live, minted, dockjson, pins,
                   enrolled, pairing>>

-----------------------------------------------------------------------------
(* The daemon. *)

\* Mutation: a daemon that was running is taken to be current.
NeverStale == FALSE

\* A running daemon predates a registration made just now.
Stale == run.made = "created"

\* ensureDaemon, and what follows from its answer.
EnsuresDaemon ==
    /\ at = "ensure"
    /\ \/ /\ daemon.up
          /\ run' = [run EXCEPT !.needs = Stale]
          /\ at' = IF Stale /\ run.auto THEN "probe" ELSE "pair"
          /\ UNCHANGED daemon
       \/ /\ ~daemon.up /\ run.auto
          /\ daemon' \in {daemon, Started(run.managed)}
          /\ at' = "pair" /\ UNCHANGED run
       \/ /\ ~daemon.up /\ ~run.auto
          /\ at' = "pair" /\ UNCHANGED <<daemon, run>>
    /\ UNCHANGED <<backend, starts, grant, live, minted, dockjson, pins, enrolled,
                   pref, pairing>>

\* The probe for live sessions: their number, or none in time.
Probes ==
    /\ at = "probe"
    /\ \/ daemon.up /\ daemon.busy /\ at' = "pair"
       \/ daemon.up /\ ~daemon.busy /\ at' = "stop"
       \/ at' = "stop"
    /\ UNCHANGED <<backend, run, starts, grant, live, minted, dockjson, pins,
                   enrolled, pref, daemon, pairing>>

\* stopServe: the daemon goes, sessions and all, or outlives the timeout.
Stops ==
    /\ at = "stop"
    /\ \/ daemon' = Down /\ at' = "respawn"
       \/ daemon.up /\ at' = "pair" /\ UNCHANGED daemon
    /\ UNCHANGED <<backend, run, starts, grant, live, minted, dockjson, pins,
                   enrolled, pref, pairing>>

\* ensureDaemon again: only a daemon it saw come up counts as a restart.
Respawns ==
    /\ at = "respawn" /\ at' = "pair"
    /\ \/ daemon.up /\ UNCHANGED <<daemon, run>>
       \/ /\ ~daemon.up
          /\ \/ daemon' = Started(run.managed) /\ run' = [run EXCEPT !.needs = FALSE]
             \/ UNCHANGED <<daemon, run>>
    /\ UNCHANGED <<backend, starts, grant, live, minted, dockjson, pins, enrolled,
                   pref, pairing>>

-----------------------------------------------------------------------------
(* The phone. *)

MintsPair ==
    /\ at = "pair" /\ run.id \in live
    /\ pairing' = "pending" /\ at' = "await"
    /\ UNCHANGED <<backend, run, starts, grant, live, minted, dockjson, pins,
                   enrolled, pref, daemon>>

\* A device that sent a key is shown to the human, at a terminal only.
AsksHuman == pairing \in {"phone", "swapped"} /\ run.tty

\* enrollDevice: the poll ends with the redemption or the expiry.
AwaitsPhone ==
    /\ at = "await" /\ pairing # "pending"
    /\ IF AsksHuman THEN at' = "confirm" /\ UNCHANGED <<run, grant, pairing>> ELSE Ended
    /\ UNCHANGED <<backend, starts, live, minted, dockjson, pins, enrolled, pref, daemon>>

\* The human compares fingerprints and answers: a y enrolls whichever key was shown.
EnrollsConfirmed ==
    \/ pairing \in {"phone", "swapped"} /\ enrolled' = enrolled \cup {pairing}
    \/ UNCHANGED enrolled

ConfirmsPhone ==
    /\ at = "confirm" /\ EnrollsConfirmed /\ Ended
    /\ UNCHANGED <<backend, starts, live, minted, dockjson, pins, pref, daemon>>

-----------------------------------------------------------------------------
(* The world. *)

Approves ==
    /\ grant = "pending" /\ grant' = "approved"
    /\ UNCHANGED <<backend, at, run, starts, live, minted, dockjson, pins, enrolled,
                   pref, daemon, pairing>>

GrantExpires ==
    /\ grant \in {"pending", "approved"} /\ grant' = "over"
    /\ UNCHANGED <<backend, at, run, starts, live, minted, dockjson, pins, enrolled,
                   pref, daemon, pairing>>

Revokes(h) ==
    /\ live' = live \ {h} /\ h \in live
    /\ UNCHANGED <<backend, at, run, starts, grant, minted, dockjson, pins, enrolled,
                   pref, daemon, pairing>>

\* The phone redeems the pair token; what the control plane passes on may be
\* another key than the phone's.
Redeems ==
    /\ pairing = "pending" /\ pairing' \in {"keyless", "phone", "swapped"}
    /\ UNCHANGED <<backend, at, run, starts, grant, live, minted, dockjson, pins,
                   enrolled, pref, daemon>>

PairExpires ==
    /\ pairing = "pending" /\ pairing' = "expired"
    /\ UNCHANGED <<backend, at, run, starts, grant, live, minted, dockjson, pins,
                   enrolled, pref, daemon>>

\* Somebody, or the service manager, runs `pherry serve`; the daemon reads
\* dock.json after it has its lock; it dies; its sessions come and go.
DaemonMoves ==
    /\ \/ ~daemon.up /\ \E m \in {FALSE, pref = "installed"} : daemon' = Started(m)
       \/ /\ daemon.up /\ ~daemon.loaded
          /\ daemon' = [daemon EXCEPT !.loaded = TRUE, !.id = dockjson]
       \/ daemon.up /\ daemon' = Down
       \/ daemon.up /\ daemon' = [daemon EXCEPT !.busy = ~@]
    /\ UNCHANGED <<backend, at, run, starts, grant, live, minted, dockjson, pins,
                   enrolled, pref, pairing>>

DockSteps ==
    \/ \E way \in {"token", "browser", "headless"} : SignsIn(way)
    \/ Exchanges \/ Refused \/ Registers \/ Creates \/ WritesDock
    \/ PinsSelf \/ EnrollsSelf \/ DecidesService \/ EnsuresDaemon \/ Probes \/ Stops
    \/ Respawns \/ MintsPair \/ AwaitsPhone \/ ConfirmsPhone

DockNext ==
    \/ DockBegins \/ DockSteps \/ Gives \/ ServiceCommand
    \/ Approves \/ GrantExpires \/ Redeems \/ PairExpires \/ DaemonMoves
    \/ \E h \in HostIds : Revokes(h)

DockSpec == DockInit /\ [][DockNext]_dockVars

-----------------------------------------------------------------------------

\* A daemon that a dock leaves without asking for a restart serves the identity it
\* pairs - but for one case. A dock that reused the saved credential takes any
\* daemon for current, so where the dock that registered it ended, or asked for a
\* restart, before the daemon was restarted, the next one shows done over a daemon
\* that still serves the identity before (daemonNeedsRestart).
ServedAsRegistered ==
    at \in {"pair", "await", "confirm"} /\ ~run.needs /\ daemon.loaded =>
        daemon.id = dockjson \/ (run.made = "reused" /\ daemon.older)

\* Where dock gets as far as pairing, the identity it pairs is the one on disk,
\* its key is pinned and this machine enrolled, however earlier docks ended.
PairedIsAnchored ==
    at \in {"pair", "await", "confirm"} =>
        dockjson = run.id /\ run.id \in pins /\ "self" \in enrolled

\* However docks were interrupted, the daemon and the anchors are where dock says.
DockSafe == ServedAsRegistered /\ PairedIsAnchored

\* Every dock ends: sign-in and pairing are bounded by their expiry.
DockEnds == (at # "idle") ~> (at = "idle")

\* dock.ts: "a daemon holding live sessions is never killed implicitly".
SessionsSpared == [][at # at' /\ daemon.busy => daemon'.busy]_dockVars
=============================================================================
