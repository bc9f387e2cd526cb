------------------------------ MODULE CliProofs ------------------------------
(***************************************************************************)
(* The commands of the CLI are safe for any number of hosts, keys, devices *)
(* and repositories, however they overlap or die: the terminal clients,    *)
(* the trust files, boarding and dock, each by an inductive invariant, and *)
(* the types of all four together.                                         *)
(***************************************************************************)
EXTENDS MCCli, TLAPS

-----------------------------------------------------------------------------
(* The terminal clients. *)

\* Which steps belong to which command, and how far each step has brought the
\* terminal and the ticket.
ClientPhases ==
    /\ pc \in {"mint", "pin", "prompt", "remint", "dial", "bridge", "closing"} => way = "relay"
    /\ pc \in {"setup", "serving"} => way = "run"
    /\ way = "run" => pc \in {"start", "setup", "serving", "over"}
    /\ pc \in {"subscribe", "mirror"} => raw
    /\ raw => pc \in {"subscribe", "mirror", "closing"}
    /\ pc = "pin" => ticket = "fresh"

\* Where an open may still fall open, the host has spawned nothing: in the
\* claim, unless the host said yes or died with the answer.
NothingSpawned ==
    /\ way = "open" /\ pc \in {"start", "connect", "ready", "reserve"} => child = "none"
    /\ way = "open" /\ pc = "claim" /\ (answer = "error" \/ (answer = "none" /\ host = "up"))
         => child = "none"
    /\ fell => pc \in {"fallback", "over"}

ClientInv == ClientTypeOK /\ ClientsSafe /\ ClientPhases /\ NothingSpawned

\* A command begins with the terminal as it was and nothing spawned by it.
LEMMA ClientInitInv == ClientInit => ClientInv
BY DEF ClientInit, ClientInv, ClientTypeOK, ClientsSafe, AgentRunsOnce,
   TerminalRestored, DialsFreshTicket, RunLeavesNothing, ClientPhases,
   NothingSpawned, Ways, Calls

\* A failure keeps the invariant where an open that falls open has no agent yet.
LEMMA FailsInv ==
    ASSUME ClientInv, Fails, UNCHANGED cell,
           ticket' \in {"none", "fresh", "aged"}, authed' \in BOOLEAN,
           way # "run", pc \notin {"fallback", "over"},
           way = "open" /\ pc \in FailsOpenAt => child = "none"
    PROVE  ClientInv'
<1> USE DEF ClientInv, ClientTypeOK, ClientsSafe, AgentRunsOnce,
            TerminalRestored, DialsFreshTicket, RunLeavesNothing, ClientPhases,
            NothingSpawned, Ways, Calls, Restored, FailsOpenAt
<1>1. raw' = FALSE /\ keyed' = FALSE /\ answer' = "none" /\ named' = named
  BY DEF Fails
<1>2. CASE /\ way = "open" /\ pc \in FailsOpenAt
           /\ pc' = "fallback" /\ fell' = TRUE /\ UNCHANGED <<way, host, child, ends>>
  BY <1>1, <1>2
<1>3. CASE /\ way = "daemon" /\ ~named /\ pc' = "connect" /\ way' = "socket"
           /\ host' \in {"up", "gone"} /\ child' \in {"running", "ended"}
           /\ UNCHANGED <<fell, ends>>
  BY <1>1, <1>3
<1>4. CASE /\ ~(way = "open" /\ pc \in FailsOpenAt)
           /\ pc' = "over" /\ ends' = "error" /\ UNCHANGED <<way, host, child, fell>>
  BY <1>1, <1>4
<1> QED  BY <1>2, <1>3, <1>4 DEF Fails

\* Every step of a command, of its host and of the agent keeps the invariant.
LEMMA ClientNextInv == ClientInv /\ [ClientNext]_clientVars => ClientInv'
<1> SUFFICES ASSUME ClientInv, [ClientNext]_clientVars PROVE ClientInv'
  OBVIOUS
<1> USE DEF ClientInv, ClientTypeOK, ClientsSafe, AgentRunsOnce,
            TerminalRestored, DialsFreshTicket, RunLeavesNothing, ClientPhases,
            NothingSpawned, Ways, Calls
<1>1. CASE Starts
  BY <1>1 DEF Starts
<1>2. CASE Mints
  <2>1. CASE Fails
    BY <1>2, <2>1, FailsInv DEF Mints
  <2>2. CASE ~Fails
    BY <1>2, <2>2 DEF Steps, Mints
  <2> QED  BY <2>1, <2>2
<1>3. CASE PinsHost
  <2>1. CASE Fails
    BY <1>3, <2>1, FailsInv DEF PinsHost
  <2>2. CASE ~Fails
    BY <1>3, <2>2 DEF Steps, PinsHost
  <2> QED  BY <2>1, <2>2
<1>4. CASE Connects \/ DialsCell \/ CellAnswers
  <2>1. /\ pc \in {"connect", "dial", "bridge"} /\ UNCHANGED <<cell, ticket, authed>>
        /\ way # "run" /\ (way = "open" => pc = "connect")
    BY <1>4 DEF Connects, DialsCell, CellAnswers
  <2>2. CASE Fails
    BY <2>1, <2>2, FailsInv
  <2>3. CASE Proceeds("ready")
    <3>1. /\ pc' = "ready" /\ answer' = "none" /\ raw' = raw /\ keyed' = FALSE
          /\ named' = named /\ UNCHANGED <<way, host, child, fell, ends>>
      BY <2>3 DEF Proceeds
    <3>2. ClientTypeOK'
      <4> HIDE DEF ClientInv, ClientsSafe, AgentRunsOnce, TerminalRestored, DialsFreshTicket,
               RunLeavesNothing, ClientPhases, NothingSpawned, Ways, Calls
      <4>1. ClientTypeOK
        BY DEF ClientInv
      <4>2. "ready" \in Calls
        BY DEF Calls
      <4>3. /\ way' \in Ways /\ answer' \in {"none", "ok", "error"}
            /\ host' \in {"up", "gone"} /\ cell' \in {"up", "gone"}
            /\ child' \in {"none", "running", "ended"}
            /\ ticket' \in {"none", "fresh", "aged"}
            /\ ends' \in {"none", "code", "null", "error"}
        BY <2>1, <3>1, <4>1
      <4>4. /\ named' \in BOOLEAN /\ fell' \in BOOLEAN /\ raw' \in BOOLEAN
            /\ keyed' \in BOOLEAN /\ authed' \in BOOLEAN /\ ~keyed'
        BY <2>1, <3>1, <4>1
      <4> QED  BY <3>1, <4>2, <4>3, <4>4
    <3>3. ClientPhases'
      BY <2>1, <3>1
    <3>4. NothingSpawned'
      BY <2>1, <3>1
    <3>5. AgentRunsOnce' /\ TerminalRestored'
      BY <2>1, <3>1
    <3>6. DialsFreshTicket' /\ RunLeavesNothing'
      BY <2>1, <3>1
    <3> QED  BY <3>2, <3>3, <3>4, <3>5, <3>6
  <2>4. CASE Steps("bridge") /\ pc = "dial"
    BY <2>1, <2>4 DEF Steps
  <2> QED  BY <1>4, <2>2, <2>3, <2>4 DEF Connects, DialsCell, CellAnswers
<1>5. CASE TakesAnswer
  <2>1. CASE Fails /\ (answer = "error" \/ pc = "list")
    <3>1. /\ UNCHANGED cell /\ ticket' \in {"none", "fresh", "aged"}
          /\ way # "run" /\ pc \notin {"fallback", "over"}
      BY <1>5 DEF TakesAnswer
    <3>2. authed' \in BOOLEAN
      BY <1>5 DEF TakesAnswer
    <3>3. way = "open" /\ pc \in FailsOpenAt => child = "none"
      BY <2>1 DEF FailsOpenAt
    <3> QED  BY <2>1, <3>1, <3>2, <3>3, FailsInv
  <2>2. CASE answer = "ok" /\ Proceeds(After(pc))
    <3> DEFINE to == After(pc)
    <3>1. /\ pc # "ready" => to \in {"claim", "subscribe", "connect", "mirror"}
          /\ pc = "ready" => to \in {"reserve", "subscribe", "list"}
          /\ way = "open" /\ pc = "ready" => to = "reserve"
          /\ to = "claim" <=> pc = "reserve"
          /\ to = "mirror" <=> pc = "subscribe"
          /\ to = "connect" => way = "daemon"
      BY <1>5 DEF TakesAnswer, After
    <3> HIDE DEF to
    <3>2. pc' = to
      BY <2>2 DEF Proceeds, to
    <3>3. /\ answer' = "none" /\ raw' = (raw \/ pc' = "subscribe")
          /\ keyed' = (pc' = "mirror") /\ named' \in BOOLEAN
          /\ UNCHANGED <<way, host, child, fell, ends>>
      BY <2>2, <3>2 DEF Proceeds, to
    <3>4. /\ UNCHANGED <<cell, ticket>> /\ pc \in Calls
          /\ authed' \in BOOLEAN
      BY <1>5 DEF TakesAnswer
    <3>5. raw' \in BOOLEAN /\ keyed' \in BOOLEAN /\ (keyed' => raw' /\ pc' = "mirror")
      BY <3>1, <3>2, <3>3, <3>4
    <3>6. ClientTypeOK'
      BY <3>1, <3>2, <3>3, <3>4, <3>5
    <3>7. ClientPhases'
      BY <3>1, <3>2, <3>3, <3>4
    <3>8. NothingSpawned'
      BY <2>2, <3>1, <3>2, <3>3, <3>4
    <3>9. ClientsSafe'
      BY <3>1, <3>2, <3>3, <3>4
    <3> QED  BY <3>6, <3>7, <3>8, <3>9
  <2> QED  BY <1>5, <2>1, <2>2 DEF TakesAnswer
<1>6. CASE DeadlinePasses \/ MirrorUnwinds
  <2>1. CASE DeadlinePasses
    BY <2>1 DEF DeadlinePasses, DeadlineRuns
  <2>2. CASE MirrorUnwinds
    <3>1. /\ pc = "closing" /\ UNCHANGED <<way, named, host, cell, child, fell, ticket, authed, ends>>
          /\ ~keyed /\ way = "relay"
      BY <2>2 DEF MirrorUnwinds
    <3>2. CASE raw' = TRUE /\ answer' = "none" /\ UNCHANGED <<pc, keyed>>
      BY <3>1, <3>2
    <3>3. CASE Restored /\ pc' = "over" /\ UNCHANGED answer
      <4>1. raw' = FALSE /\ keyed' = FALSE /\ pc' = "over" /\ answer' = answer
        BY <3>3 DEF Restored
      <4>2. ClientTypeOK'
        <5> HIDE DEF ClientInv, ClientsSafe, AgentRunsOnce, TerminalRestored, DialsFreshTicket,
                 RunLeavesNothing, ClientPhases, NothingSpawned, Ways, Calls
        <5>1. ClientTypeOK
          BY DEF ClientInv
        <5>2. /\ way' \in Ways /\ answer' \in {"none", "ok", "error"}
              /\ host' \in {"up", "gone"} /\ cell' \in {"up", "gone"}
              /\ child' \in {"none", "running", "ended"}
              /\ ticket' \in {"none", "fresh", "aged"}
              /\ ends' \in {"none", "code", "null", "error"}
          BY <3>1, <4>1, <5>1
        <5>3. /\ named' \in BOOLEAN /\ fell' \in BOOLEAN /\ raw' \in BOOLEAN
              /\ keyed' \in BOOLEAN /\ authed' \in BOOLEAN /\ ~keyed'
          BY <3>1, <4>1, <5>1
        <5> QED  BY <4>1, <5>2, <5>3
      <4>3. ClientPhases' /\ NothingSpawned'
        BY <3>1, <4>1
      <4>4. ClientsSafe'
        BY <3>1, <4>1
      <4> QED  BY <4>2, <4>3, <4>4
    <3> QED  BY <2>2, <3>2, <3>3 DEF MirrorUnwinds
  <2> QED  BY <1>6, <2>1, <2>2
<1>7. CASE FallbackEnds
  BY <1>7 DEF FallbackEnds
<1>8. CASE SetsUp
  BY <1>8 DEF SetsUp, SetupFails
<1>9. CASE ConfirmsPin
  <2>1. CASE Fails
    BY <1>9, <2>1, FailsInv DEF ConfirmsPin
  <2>2. CASE ~Fails
    BY <1>9, <2>2 DEF Steps, ConfirmsPin, AfterPrompt
  <2> QED  BY <2>1, <2>2
<1>10. CASE HostAnswers
  BY <1>10 DEF HostAnswers
<1>11. CASE Mirrors
  BY ZenonT(40), <1>11 DEF Mirrors, Restored
<1>12. CASE RunCloses
  BY <1>12 DEF RunCloses
<1>13. CASE ChildEnds
  BY <1>13 DEF ChildEnds
<1>14. CASE HostDies \/ CellDies
  <2>1. CASE HostDies
    BY <2>1 DEF HostDies
  <2>2. CASE CellDies
    BY <2>2 DEF CellDies
  <2> QED  BY <1>14, <2>1, <2>2
<1>15. CASE UNCHANGED clientVars
  BY <1>15 DEF clientVars
<1> QED
  BY <1>1, <1>2, <1>3, <1>4, <1>5, <1>6, <1>7, <1>8, <1>9, <1>10, <1>11,
     <1>12, <1>13, <1>14, <1>15 DEF ClientNext, ClientSteps

\* However a command, its host, its agent and the cell interleave, die or refuse:
\* one launch runs one agent (runOpen's try ends with the claim), the terminal is
\* restored, the relay is dialled with a fresh ticket, and a run leaves nothing.
THEOREM ClientsHold == ClientFairSpec => []ClientsSafe
<1>1. ClientInv => ClientsSafe
  BY DEF ClientInv
<1> QED
  BY <1>1, ClientInitInv, ClientNextInv, PTL DEF ClientFairSpec

-----------------------------------------------------------------------------
(* The trust files. *)

\* The record of a command under way, and what it can name.
Job == [pc : {"look", "prompt", "read", "open", "write", "dial"}, job : Commands,
        copy : {NoJob} \cup (SUBSET Pins) \cup (SUBSET Standings)]

\* A command at a step that has its own copy holds a whole file, and a command
\* on a pin holds no pin that nobody vouched for.
JobOK(c) ==
    /\ c.pc = "look" => c.job.cmd \in {"attach", "revoke"}
    /\ c.pc \in {"prompt", "dial"} => c.job.cmd = "attach"
    /\ c.pc \in {"open", "write"} =>
         /\ OnePerName(c.copy)
         /\ File(c.job) = "known" => c.copy \subseteq Pins /\ c.copy \subseteq vouched
         /\ File(c.job) = "keyring" => c.copy \subseteq Standings
    /\ c.pc = "dial" => <<c.job.of, c.job.to>> \in vouched
    /\ c.pc \in {"read", "open", "write"} /\ c.job.cmd \in {"trust", "attach"} =>
         <<c.job.of, c.job.to>> \in vouched

\* With one command at a time its copy has every pin kept and no revocation less,
\* and an attach that will write a pin has found none.
AloneOK(c) ==
    /\ c.pc \in {"open", "write"} /\ File(c.job) = "known" => kept \subseteq c.copy
    /\ c.pc \in {"open", "write"} /\ File(c.job) = "keyring" =>
         \A d \in told : <<d, "enrolled">> \notin c.copy
    /\ c.pc \in {"prompt", "read", "open", "write"} /\ c.job.cmd = "attach" =>
         ~Has(kept, c.job.of)

Alone ==
    alone =>
        /\ \A p, q \in Procs : procs[p] # Idle /\ procs[q] # Idle => p = q
        /\ \A p \in Procs : AloneOK(procs[p])
        /\ \A d \in told : <<d, "enrolled">> \notin keyring
        /\ "known" \notin torn => kept \subseteq known

TrustInv ==
    /\ TrustTypeOK /\ procs \in [Procs -> {Idle} \cup Job]
    /\ known \subseteq vouched /\ (\A p \in Procs : JobOK(procs[p])) /\ Alone

\* Who a job is about, and the pin it carries.
LEMMA JobNames ==
    ASSUME NEW job \in Commands
    PROVE  /\ job.cmd \in {"trust", "attach", "forget", "enroll", "revoke"}
           /\ job.cmd \in {"trust", "attach"} => job.of \in Hosts /\ job.to \in Keys
           /\ job.cmd = "forget" => job.of \in Hosts
           /\ job.cmd \in {"enroll", "revoke"} => job.of \in Devices
           /\ File(job) = "keyring" <=> job.cmd \in {"enroll", "revoke"}
           /\ File(job) = "known" <=> job.cmd \notin {"enroll", "revoke"}
BY DEF Commands, File

\* An idle process is at no step of a command.
LEMMA IdleOrJob ==
    ASSUME TrustInv, NEW p \in Procs
    PROVE  /\ procs[p] = Idle \/ procs[p] \in Job
           /\ procs[p].pc # "idle" => procs[p] # Idle /\ procs[p] \in Job
BY DEF TrustInv, Idle, Job

\* The files as they are when no command has run.
LEMMA TrustInitInv == TrustInit => TrustInv
<1> SUFFICES ASSUME TrustInit PROVE TrustInv
  OBVIOUS
<1>1. TrustTypeOK
  BY TrustAssumption DEF TrustInit, TrustTypeOK
<1>2. procs \in [Procs -> {Idle} \cup Job] /\ known \subseteq vouched
  BY DEF TrustInit
<1>3. \A p \in Procs : procs[p] = Idle /\ procs[p].pc = "idle"
  BY DEF TrustInit, Idle
<1>4. \A p \in Procs : JobOK(procs[p])
  BY <1>3 DEF JobOK
<1>5. \A d \in told : <<d, "enrolled">> \notin keyring
  BY DEF TrustInit, OnePerName
<1>6. Alone
  BY <1>3, <1>5 DEF Alone, AloneOK, TrustInit
<1> QED  BY <1>1, <1>2, <1>4, <1>6 DEF TrustInv

\* A command moves on to step r, or ends, and leaves the files alone.
LEMMA TrustMoves ==
    ASSUME TrustInv, NEW p \in Procs, NEW r \in {Idle} \cup Job,
           procs' = [procs EXCEPT ![p] = r],
           UNCHANGED <<alone, known, keyring, torn, kept, told>>, count' \in 0..MaxCommands,
           vouched \subseteq vouched', vouched' \subseteq Pins,
           JobOK(r)', alone => AloneOK(r),
           alone /\ r # Idle => \A q \in Procs \ {p} : procs[q] = Idle
    PROVE  TrustInv'
<1>1. \A q \in Procs : procs'[q] = IF q = p THEN r ELSE procs[q]
  BY DEF TrustInv
<1>2. procs' \in [Procs -> {Idle} \cup Job]
  BY DEF TrustInv
<1>3. TrustTypeOK'
  <2>1. \A q \in Procs : \/ procs'[q] = Idle
          \/ /\ procs'[q].pc \in {"look", "prompt", "read", "open", "write", "dial"}
             /\ procs'[q].job \in Commands
             /\ procs'[q].copy \in {NoJob} \cup (SUBSET Pins) \cup (SUBSET Standings)
    BY <1>2 DEF Job
  <2> QED  BY <2>1 DEF TrustTypeOK, TrustInv
<1>4. \A q \in Procs : JobOK(procs[q])'
  <2> SUFFICES ASSUME NEW q \in Procs PROVE JobOK(procs[q])'
    OBVIOUS
  <2>1. PICK c : c = procs'[q]
    OBVIOUS
  <2>2. JobOK(c)'
    <3>1. CASE q = p
      BY <1>1, <2>1, <3>1
    <3>2. CASE q # p
      <4>1. c = procs[q] /\ JobOK(c)
        BY <1>1, <2>1, <3>2 DEF TrustInv
      <4> QED  BY <4>1 DEF JobOK
    <3> QED  BY <3>1, <3>2
  <2> QED  BY <2>1, <2>2 DEF JobOK
<1>5. Alone'
  <2> SUFFICES ASSUME alone PROVE Alone'
    BY DEF Alone
  <2>1. \A a, b \in Procs : procs'[a] # Idle /\ procs'[b] # Idle => a = b
    BY <1>1 DEF TrustInv, Alone
  <2>2. \A q \in Procs : AloneOK(procs[q])'
    BY <1>1 DEF TrustInv, Alone, AloneOK
  <2> QED  BY <2>1, <2>2 DEF TrustInv, Alone
<1> QED  BY <1>2, <1>3, <1>4, <1>5 DEF TrustInv

\* A command that is idle again satisfies every promise of a command.
LEMMA IdleOK == JobOK(Idle)' /\ AloneOK(Idle) /\ JobOK(Idle)
BY DEF JobOK, AloneOK, Idle

\* A command that ends, or is killed, leaves the files alone.
LEMMA TrustEnds ==
    ASSUME TrustInv, NEW p \in Procs, Ends(p),
           UNCHANGED <<alone, known, keyring, kept, told, torn, count, vouched>>
    PROVE  TrustInv'
<1>1. /\ count' \in 0..MaxCommands
      /\ vouched' \subseteq Pins /\ vouched \subseteq vouched'
  BY DEF TrustInv, TrustTypeOK
<1> QED  BY <1>1, IdleOK, TrustMoves DEF Ends

\* A command at a step of its own is the only one under way, when the user runs
\* one at a time.
LEMMA OthersIdle ==
    ASSUME TrustInv, NEW p \in Procs, procs[p].pc # "idle"
    PROVE  /\ procs[p] \in Job /\ procs[p] # Idle /\ JobOK(procs[p])
           /\ alone => AloneOK(procs[p]) /\ \A q \in Procs \ {p} : procs[q] = Idle
BY IdleOrJob DEF TrustInv, Alone

\* A command goes on to step x with the job and the copy it has.
LEMMA TrustGoes ==
    ASSUME TrustInv, NEW p \in Procs, procs[p].pc # "idle",
           NEW x \in {"look", "prompt", "read", "open", "write", "dial"}, Goes(p, x),
           UNCHANGED <<alone, known, keyring, torn, kept, told, count>>,
           vouched \subseteq vouched', vouched' \subseteq Pins,
           NEW r, r = [procs[p] EXCEPT !.pc = x],
           JobOK(r)', alone => AloneOK(r)
    PROVE  TrustInv'
<1>1. r \in Job
  BY OthersIdle DEF Job
<1>2. procs' = [procs EXCEPT ![p] = r]
  BY DEF Goes, TrustInv
<1>3. alone => \A q \in Procs \ {p} : procs[q] = Idle
  BY OthersIdle
<1>4. count' \in 0..MaxCommands
  BY DEF TrustInv, TrustTypeOK
<1> QED  BY <1>1, <1>2, <1>3, <1>4, TrustMoves

\* Where a file differs from its name alone, no two entries of it meet.
LEMMA WithoutOne ==
    ASSUME NEW S, OnePerName(S), NEW x, NEW y
    PROVE  /\ OnePerName(Without(S, x))
           /\ OnePerName(Without(S, x) \cup {<<x, y>>})
BY DEF OnePerName, Without

\* A file opened or written: its command goes on to step r or ends, and the files
\* list what was vouched for.
LEMMA TrustWrites ==
    ASSUME TrustInv, NEW p \in Procs, procs[p].pc # "idle",
           NEW r \in {Idle} \cup Job, procs' = [procs EXCEPT ![p] = r],
           UNCHANGED <<alone, count, vouched>>, torn' \in SUBSET {"known", "keyring"},
           known' \in SUBSET Pins, OnePerName(known'), known' \subseteq vouched,
           keyring' \in SUBSET Standings, OnePerName(keyring'),
           told' \subseteq Devices, kept' \subseteq Pins, JobOK(r),
           alone => AloneOK(r)',
           alone => \A d \in told' : <<d, "enrolled">> \notin keyring',
           alone /\ "known" \notin torn' => kept' \subseteq known'
    PROVE  TrustInv'
<1>1. \A q \in Procs : procs'[q] = IF q = p THEN r ELSE procs[q]
  BY DEF TrustInv
<1>2. procs' \in [Procs -> {Idle} \cup Job]
  BY DEF TrustInv
<1>3. TrustTypeOK'
  <2>1. \A q \in Procs : \/ procs'[q] = Idle
          \/ /\ procs'[q].pc \in {"look", "prompt", "read", "open", "write", "dial"}
             /\ procs'[q].job \in Commands
             /\ procs'[q].copy \in {NoJob} \cup (SUBSET Pins) \cup (SUBSET Standings)
    BY <1>2 DEF Job
  <2> QED  BY <2>1 DEF TrustTypeOK, TrustInv
<1>4. \A q \in Procs : JobOK(procs[q])'
  <2> SUFFICES ASSUME NEW q \in Procs PROVE JobOK(procs[q])'
    OBVIOUS
  <2>1. JobOK(procs'[q])
    BY <1>1 DEF TrustInv
  <2> QED  BY <2>1 DEF JobOK
<1>5. Alone'
  <2> SUFFICES ASSUME alone PROVE Alone'
    BY DEF Alone
  <2>1. \A q \in Procs \ {p} : procs'[q] = Idle
    BY <1>1, OthersIdle
  <2>2. \A q \in Procs : AloneOK(procs[q])'
    <3> SUFFICES ASSUME NEW q \in Procs PROVE AloneOK(procs[q])'
      OBVIOUS
    <3>1. CASE q = p
      BY <1>1, <3>1 DEF AloneOK
    <3>2. CASE q # p
      BY <2>1, <3>2 DEF AloneOK, Idle
    <3> QED  BY <3>1, <3>2
  <2> QED  BY <2>1, <2>2 DEF Alone
<1> QED  BY <1>2, <1>3, <1>4, <1>5 DEF TrustInv

\* Every step of a command keeps the invariant of the trust files.
LEMMA TrustNextInv == TrustInv /\ [TrustNext]_trustVars => TrustInv'
<1> SUFFICES ASSUME TrustInv, [TrustNext]_trustVars PROVE TrustInv'
  OBVIOUS
<1>0. /\ torn \in SUBSET {"known", "keyring"} /\ count \in 0..MaxCommands
      /\ vouched \subseteq Pins
  BY DEF TrustInv, TrustTypeOK
<1>1. ASSUME NEW p \in Procs, NEW job \in Commands, CommandBegins(p, job)
      PROVE  TrustInv'
  <2>1. PICK r : r = [pc |-> IF job.cmd \in {"attach", "revoke"} THEN "look" ELSE "read",
                      job |-> job, copy |-> NoJob]
    OBVIOUS
  <2>2. procs' = [procs EXCEPT ![p] = r]
    BY <1>1, <2>1 DEF CommandBegins
  <2>3. r \in Job
    BY <2>1 DEF Job
  <2>4. /\ vouched \subseteq vouched' /\ vouched' \subseteq Pins
        /\ job.cmd = "trust" => <<job.of, job.to>> \in vouched'
    BY <1>0, <1>1, JobNames DEF CommandBegins, Pins
  <2>5. JobOK(r)'
    BY <2>1, <2>4, JobNames DEF JobOK
  <2>6. AloneOK(r)
    BY <2>1, JobNames DEF AloneOK
  <2>7. count' \in 0..MaxCommands
    BY <1>0, <1>1, TrustAssumption DEF CommandBegins
  <2>8. alone => \A q \in Procs \ {p} : procs[q] = Idle
    BY <1>1 DEF CommandBegins
  <2>9. UNCHANGED <<alone, known, keyring, torn, kept, told>>
    BY <1>1 DEF CommandBegins
  <2> QED  BY <1>0, <2>2, <2>3, <2>4, <2>5, <2>6, <2>7, <2>8, <2>9, TrustMoves
<1>2. ASSUME NEW p \in Procs, Looks(p) PROVE TrustInv'
  <2> DEFINE job == procs[p].job
  <2>1. /\ procs[p].pc = "look" /\ procs[p] \in Job /\ JobOK(procs[p])
        /\ UNCHANGED <<alone, known, keyring, torn, count, vouched, kept, told>>
    BY <1>2, OthersIdle DEF Looks
  <2>2. CASE Ends(p)
    BY <2>1, <2>2, TrustEnds
  <2>3. ASSUME NEW x \in {"dial", "prompt", "read"}, Goes(p, x),
               x = "dial" => job.cmd = "attach" /\ <<job.of, job.to>> \in known,
               x = "prompt" => job.cmd = "attach" /\ ~Has(known, job.of) /\ "known" \notin torn,
               x = "read" => job.cmd = "revoke"
        PROVE  TrustInv'
    <3>1. PICK r : r = [procs[p] EXCEPT !.pc = x]
      OBVIOUS
    <3>2. r.pc = x /\ r.job = job
      BY <2>1, <3>1 DEF Job
    <3>3. JobOK(r)'
      BY <2>1, <2>3, <3>2 DEF JobOK, TrustInv
    <3>4. alone => AloneOK(r)
      BY <2>3, <3>2 DEF AloneOK, TrustInv, Alone, Has
    <3> QED  BY <1>0, <2>1, <2>3, <3>1, <3>3, <3>4, TrustGoes
  <2>4. CASE job.cmd = "attach" /\ ~Ends(p)
    <3>1. /\ ResolvesTo(job) \in {"dial", "prompt"} /\ Goes(p, ResolvesTo(job))
      BY <1>2, <2>4 DEF Looks, ResolvesTo
    <3>2. /\ ResolvesTo(job) = "dial" => <<job.of, job.to>> \in known
          /\ ResolvesTo(job) = "prompt" => ~Has(known, job.of)
      BY DEF ResolvesTo
    <3>3. "known" \notin torn
      BY <1>2, <2>4 DEF Looks, File
    <3> QED  BY <2>3, <2>4, <3>1, <3>2, <3>3
  <2>5. CASE job.cmd # "attach" /\ ~Ends(p)
    <3>1. job.cmd = "revoke" /\ Goes(p, "read")
      BY <1>2, <2>5 DEF Looks
    <3> QED  BY <2>3, <3>1
  <2> QED  BY <2>2, <2>4, <2>5
<1>3. ASSUME NEW p \in Procs, Answers(p) PROVE TrustInv'
  <2> DEFINE job == procs[p].job
  <2>1. /\ procs[p].pc = "prompt" /\ procs[p] \in Job /\ job.cmd = "attach"
        /\ UNCHANGED <<alone, known, keyring, torn, count, kept, told>>
    BY <1>3, OthersIdle DEF Answers, JobOK
  <2>2. CASE Ends(p) /\ UNCHANGED vouched
    BY <2>1, <2>2, TrustEnds
  <2>3. CASE Goes(p, "read") /\ vouched' = vouched \cup {<<job.of, job.to>>}
    <3>1. PICK r : r = [procs[p] EXCEPT !.pc = "read"]
      OBVIOUS
    <3>2. r.pc = "read" /\ r.job = job
      BY <2>1, <3>1 DEF Job
    <3>3. vouched \subseteq vouched' /\ vouched' \subseteq Pins
      BY <1>0, <2>1, <2>3, JobNames DEF Job, Pins
    <3>4. JobOK(r)'
      BY <2>1, <2>3, <3>2 DEF JobOK
    <3>5. alone => AloneOK(r)
      BY <2>1, <3>2, OthersIdle DEF AloneOK
    <3> QED  BY <1>0, <2>1, <2>3, <3>1, <3>3, <3>4, <3>5, TrustGoes
  <2> QED  BY <1>3, <2>2, <2>3 DEF Answers
<1>4. ASSUME NEW p \in Procs, Reads(p) PROVE TrustInv'
  <2> DEFINE job == procs[p].job
             now == Contents(File(job))
  <2>1. /\ procs[p].pc = "read" /\ procs[p] \in Job /\ JobOK(procs[p])
        /\ UNCHANGED <<alone, known, keyring, torn, count, vouched, kept, told>>
    BY <1>4, OthersIdle DEF Reads
  <2>2. CASE Ends(p)
    BY <2>1, <2>2, TrustEnds
  <2>3. CASE ~Ends(p)
    <3>1. now # NoJob /\ procs' = [procs EXCEPT ![p].pc = "open", ![p].copy = now]
      BY <1>4, <2>3 DEF Reads
    <3>2. /\ now = IF File(job) = "known" THEN known ELSE keyring
          /\ now \in (SUBSET Pins) \cup (SUBSET Standings) /\ OnePerName(now)
          /\ File(job) = "known" => now \subseteq Pins /\ now \subseteq vouched
          /\ File(job) = "keyring" => now \subseteq Standings
      <4>1. now = IF File(job) = "known" THEN known ELSE keyring
        BY <3>1 DEF Contents
      <4>2. /\ known \subseteq Pins /\ OnePerName(known) /\ known \subseteq vouched
            /\ keyring \subseteq Standings /\ OnePerName(keyring)
        BY DEF TrustInv, TrustTypeOK
      <4>3. CASE File(job) = "known"
        <5>1. now = known
          BY <4>1, <4>3
        <5> QED  BY <4>1, <4>2, <4>3, <5>1
      <4>4. CASE File(job) # "known"
        <5>1. now = keyring
          BY <4>1, <4>4
        <5>2. now \subseteq Standings /\ OnePerName(now)
          BY <4>2, <5>1
        <5> QED  BY <4>1, <4>4, <5>2
      <4> QED  BY <4>3, <4>4
    <3>3. PICK r : r = [pc |-> "open", job |-> job, copy |-> now]
      OBVIOUS
    <3>4. r \in Job /\ job \in Commands
      BY <2>1, <3>2, <3>3 DEF Job
    <3>5. procs' = [procs EXCEPT ![p] = r]
      <4>1. procs \in [Procs -> {Idle} \cup Job]
        BY DEF TrustInv
      <4>2. [procs[p] EXCEPT !.pc = "open"] =
              [pc |-> "open", job |-> job, copy |-> procs[p].copy]
        BY <2>1 DEF Job
      <4> HIDE DEF now
      <4>3. procs'[p] = r
        BY <3>1, <3>3, <4>1, <4>2
      <4>4. /\ \A q \in Procs : q # p => procs'[q] = procs[q]
            /\ procs' = [q \in Procs |-> procs'[q]]
        BY <3>1, <4>1
      <4> QED  BY <4>1, <4>3, <4>4
    <3>6. JobOK(r)'
      BY <2>1, <3>2, <3>3 DEF JobOK
    <3>7. alone => AloneOK(r)
      <4> SUFFICES ASSUME alone PROVE AloneOK(r)
        OBVIOUS
      <4>1. AloneOK(procs[p])
        BY <2>1, OthersIdle
      <4>2. File(job) \notin torn
        BY <3>1 DEF Contents
      <4>3. File(job) = "known" => kept \subseteq now
        BY <3>2, <4>2 DEF TrustInv, Alone
      <4>4. File(job) = "keyring" => \A d \in told : <<d, "enrolled">> \notin now
        BY <3>2 DEF TrustInv, Alone
      <4> HIDE DEF now
      <4> QED  BY <2>1, <3>3, <4>1, <4>3, <4>4 DEF AloneOK
    <3>8. alone => \A q \in Procs \ {p} : procs[q] = Idle
      BY <2>1, OthersIdle
    <3> QED  BY <1>0, <2>1, <3>4, <3>5, <3>6, <3>7, <3>8, TrustMoves
  <2> QED  BY <2>2, <2>3
<1>5. ASSUME NEW p \in Procs, Opens(p) PROVE TrustInv'
  <2>1. /\ procs[p].pc = "open" /\ procs[p] \in Job /\ JobOK(procs[p])
        /\ UNCHANGED <<alone, count, vouched, kept, told>> /\ Goes(p, "write")
        /\ known' \in {{}, known} /\ keyring' \in {{}, keyring}
        /\ "known" \notin torn' => "known" \notin torn /\ known' = known
    BY <1>5, OthersIdle DEF Opens
  <2>2. torn' \in SUBSET {"known", "keyring"}
    BY <1>0, <1>5 DEF Opens, File
  <2>3. PICK r : r = [procs[p] EXCEPT !.pc = "write"]
    OBVIOUS
  <2>4. r.pc = "write" /\ r.job = procs[p].job /\ r.copy = procs[p].copy /\ r \in Job
    BY <2>1, <2>3 DEF Job
  <2>5. JobOK(r)
    BY <2>1, <2>4 DEF JobOK
  <2>6. alone => AloneOK(r)'
    BY <2>1, <2>4, OthersIdle DEF AloneOK
  <2>7. procs' = [procs EXCEPT ![p] = r]
    BY <2>1, <2>3 DEF Goes, TrustInv
  <2>8. /\ known' \in SUBSET Pins /\ OnePerName(known') /\ known' \subseteq vouched
        /\ keyring' \in SUBSET Standings /\ OnePerName(keyring')
        /\ told' \subseteq Devices /\ kept' \subseteq Pins
    <3>1. OnePerName({})
      BY DEF OnePerName
    <3> QED  BY <2>1, <3>1 DEF TrustInv, TrustTypeOK
  <2>9. /\ alone => \A d \in told' : <<d, "enrolled">> \notin keyring'
        /\ alone /\ "known" \notin torn' => kept' \subseteq known'
    BY <2>1 DEF TrustInv, Alone
  <2> QED  BY <2>1, <2>2, <2>4, <2>5, <2>6, <2>7, <2>8, <2>9, TrustWrites
<1>6. ASSUME NEW p \in Procs, Writes(p) PROVE TrustInv'
  <2> DEFINE job == procs[p].job
             copy == procs[p].copy
  <2>1. /\ procs[p].pc = "write" /\ procs[p] \in Job /\ JobOK(procs[p])
        /\ job \in Commands /\ UNCHANGED <<alone, count, vouched>>
    BY <1>6, OthersIdle DEF Writes, Job
  <2>2. PICK list :
          /\ list = {} \/ list = Updated(job, copy)
          /\ torn' \in SUBSET {"known", "keyring"}
          /\ File(job) \notin torn' => list = Updated(job, copy)
          /\ File(job) # "known" => ("known" \notin torn' => "known" \notin torn)
          /\ IF File(job) = "known" THEN known' = list /\ UNCHANGED keyring
             ELSE keyring' = list /\ UNCHANGED known
    BY <1>0, <1>6 DEF Writes, File
  <2>3. OnePerName(copy) /\ OnePerName({})
    BY <2>1 DEF JobOK, OnePerName
  <2>4. /\ known \in SUBSET Pins /\ OnePerName(known) /\ known \subseteq vouched
        /\ keyring \in SUBSET Standings /\ OnePerName(keyring) /\ told \in SUBSET Devices
        /\ kept \in SUBSET Pins
    BY DEF TrustInv, TrustTypeOK
  <2>5. PICK r \in {Idle} \cup Job : /\ procs' = [procs EXCEPT ![p] = r]
                                     /\ r.pc \in {"idle", "dial"} /\ JobOK(r)
                                     /\ AloneOK(r)'
    <3>1. CASE job.cmd = "attach"
      <4>1. PICK r : r = [pc |-> "dial", job |-> job, copy |-> NoJob]
        OBVIOUS
      <4>2. r \in Job
        BY <2>1, <4>1 DEF Job
      <4>3. procs' = [procs EXCEPT ![p].pc = "dial", ![p].copy = NoJob]
        BY <1>6, <3>1 DEF Writes
      <4>4. procs' = [procs EXCEPT ![p] = r]
        <5>1. procs \in [Procs -> {Idle} \cup Job]
          BY DEF TrustInv
        <5>2. [procs[p] EXCEPT !.pc = "dial"] =
                [pc |-> "dial", job |-> job, copy |-> procs[p].copy]
          BY <2>1 DEF Job
        <5>3. procs'[p] = r
          BY <4>1, <4>3, <5>1, <5>2
        <5>4. /\ \A q \in Procs : q # p => procs'[q] = procs[q]
              /\ procs' = [q \in Procs |-> procs'[q]]
          BY <4>3, <5>1
        <5> QED  BY <5>1, <5>3, <5>4
      <4>5. JobOK(r)
        BY <2>1, <3>1, <4>1 DEF JobOK
      <4>6. AloneOK(r)'
        BY <4>1 DEF AloneOK
      <4> QED  BY <4>1, <4>2, <4>4, <4>5, <4>6
    <3>2. CASE job.cmd # "attach"
      <4>1. procs' = [procs EXCEPT ![p] = Idle]
        BY <1>6, <3>2 DEF Writes, Ends
      <4>2. Idle.pc = "idle" /\ AloneOK(Idle)'
        BY DEF Idle, AloneOK
      <4> QED  BY <4>1, <4>2, IdleOK
    <3> QED  BY <3>1, <3>2
  <2>6. CASE File(job) = "known"
    <3>1. /\ job.cmd \in {"trust", "attach", "forget"}
          /\ known' = list /\ UNCHANGED <<keyring, told>>
      BY <1>6, <2>1, <2>2, <2>6, JobNames DEF Writes
    <3>2. copy \subseteq Pins /\ copy \subseteq vouched
      BY <2>1, <2>6 DEF JobOK
    <3>3. alone => kept \subseteq copy /\ (job.cmd = "attach" => ~Has(kept, job.of))
      BY <2>1, <2>6, OthersIdle DEF AloneOK
    <3>4. CASE job.cmd = "forget"
      <4>1. Updated(job, copy) = Without(copy, job.of) /\ kept' = Without(kept, job.of)
        BY <1>6, <3>4 DEF Updated, Writes
      <4>2. known' \in SUBSET Pins /\ OnePerName(known') /\ known' \subseteq vouched
        <5>1. OnePerName(Updated(job, copy))
          BY <2>3, <4>1, WithoutOne
        <5>2. OnePerName(known')
          BY <2>2, <2>3, <3>1, <5>1
        <5>3. Updated(job, copy) \subseteq copy
          BY <4>1 DEF Without
        <5>4. known' \subseteq copy
          BY <2>2, <3>1, <5>3
        <5> QED  BY <3>2, <5>2, <5>4
      <4>3. kept' \subseteq Pins /\ (alone /\ "known" \notin torn' => kept' \subseteq known')
        BY <2>2, <2>4, <2>6, <3>1, <3>3, <4>1 DEF Without
      <4> QED
        BY <2>1, <2>2, <2>4, <2>5, <3>1, <4>2, <4>3, TrustWrites DEF TrustInv, Alone
    <3>5. CASE job.cmd \in {"trust", "attach"}
      <4>1. /\ Updated(job, copy) = Without(copy, job.of) \cup {<<job.of, job.to>>}
            /\ job.cmd = "trust" => kept' = Without(kept, job.of) \cup {<<job.of, job.to>>}
            /\ job.cmd = "attach" => kept' = kept \cup {<<job.of, job.to>>}
        BY <1>6, <3>5 DEF Updated, Writes
      <4>2. <<job.of, job.to>> \in vouched /\ <<job.of, job.to>> \in Pins
        BY <2>1, <3>5, JobNames DEF JobOK, Pins
      <4>3. known' \in SUBSET Pins /\ OnePerName(known') /\ known' \subseteq vouched
        <5> HIDE DEF job, copy
        <5>0. OnePerName(Without(copy, job.of) \cup {<<job.of, job.to>>})
          BY <2>3, WithoutOne
        <5>1. OnePerName(Updated(job, copy))
          BY <4>1, <5>0
        <5>2. OnePerName(known')
          BY <2>2, <2>3, <3>1, <5>1
        <5>3. Updated(job, copy) \subseteq copy \cup {<<job.of, job.to>>}
          BY <4>1 DEF Without
        <5>4. known' \subseteq copy \cup {<<job.of, job.to>>}
          BY <2>2, <3>1, <5>3
        <5> QED  BY <3>2, <4>2, <5>2, <5>4
      <4>4. kept' \subseteq Pins
        BY <2>4, <3>5, <4>1, <4>2 DEF Without
      <4>5. ASSUME alone, "known" \notin torn' PROVE kept' \subseteq known'
        <5>1. known' = Without(copy, job.of) \cup {<<job.of, job.to>>}
          BY <2>2, <2>6, <3>1, <4>1, <4>5
        <5>2. Without(kept, job.of) \subseteq Without(copy, job.of)
          BY <3>3, <4>5 DEF Without
        <5>3. job.cmd = "attach" => Without(kept, job.of) = kept
          BY <3>3, <4>5 DEF Without, Has
        <5> QED  BY <3>5, <4>1, <5>1, <5>2, <5>3
      <4> QED
        BY <2>1, <2>2, <2>4, <2>5, <3>1, <4>3, <4>4, <4>5, TrustWrites DEF TrustInv, Alone
    <3> QED  BY <3>1, <3>4, <3>5
  <2>7. CASE File(job) # "known"
    <3>1. /\ job.cmd \in {"enroll", "revoke"} /\ job.of \in Devices
          /\ keyring' = list /\ UNCHANGED <<known, kept>>
      BY <1>6, <2>1, <2>2, <2>7, JobNames DEF Writes
    <3>2. /\ copy \subseteq Standings
          /\ alone => \A d \in told : <<d, "enrolled">> \notin copy
      <4>1. File(job) = "keyring"
        BY <2>7 DEF File
      <4>2. alone => AloneOK(procs[p])
        BY <2>1, OthersIdle
      <4> QED  BY <2>1, <4>1, <4>2 DEF JobOK, AloneOK
    <3>3. PICK y \in {"enrolled", "revoked"} :
             /\ Updated(job, copy) = Without(copy, job.of) \cup {<<job.of, y>>}
             /\ y = "enrolled" => told' = told \ {job.of}
             /\ y = "revoked" => told' = told \cup {job.of}
      <4>1. CASE job.cmd = "enroll"
        BY <1>6, <3>1, <4>1 DEF Updated, Writes
      <4>2. CASE job.cmd = "revoke"
        BY <1>6, <3>1, <4>2 DEF Updated, Writes
      <4> QED  BY <3>1, <4>1, <4>2
    <3>4. /\ keyring' \in SUBSET Standings /\ OnePerName(keyring')
          /\ told' \subseteq Devices
      <4>1. OnePerName(keyring')
        <5> HIDE DEF job, copy
        <5>0. OnePerName(Without(copy, job.of) \cup {<<job.of, y>>})
          BY <2>3, WithoutOne
        <5>1. OnePerName(Updated(job, copy))
          BY <3>3, <5>0
        <5> QED  BY <2>2, <2>3, <3>1, <5>1
      <4>2. <<job.of, y>> \in Standings
        BY <3>1 DEF Standings
      <4>3. keyring' \in SUBSET Standings
        BY <2>2, <3>1, <3>2, <3>3, <4>2 DEF Without
      <4>4. told' \subseteq Devices
        BY <2>4, <3>1, <3>3
      <4> QED  BY <4>1, <4>3, <4>4
    <3>5. alone => \A d \in told' : <<d, "enrolled">> \notin keyring'
      <4> SUFFICES ASSUME alone, NEW d \in told' PROVE <<d, "enrolled">> \notin keyring'
        OBVIOUS
      <4>1. <<d, "enrolled">> \notin Without(copy, job.of) \cup {<<job.of, y>>}
        BY <3>2, <3>3 DEF Without
      <4> QED  BY <2>2, <3>1, <3>3, <4>1
    <3>6. alone /\ "known" \notin torn' => kept' \subseteq known'
      BY <2>2, <2>7, <3>1 DEF TrustInv, Alone
    <3> QED  BY <2>1, <2>2, <2>4, <2>5, <3>1, <3>4, <3>5, <3>6, TrustWrites
  <2> QED  BY <2>6, <2>7
<1>7. ASSUME NEW p \in Procs, Dials(p) PROVE TrustInv'
  BY <1>7, TrustEnds DEF Dials
<1>8. ASSUME NEW p \in Procs, Dies(p) PROVE TrustInv'
  BY <1>8, TrustEnds DEF Dies
<1>9. CASE UNCHANGED trustVars
  BY <1>9 DEF trustVars, TrustInv, TrustTypeOK, JobOK, Alone, AloneOK
<1> QED
  BY <1>1, <1>2, <1>3, <1>4, <1>5, <1>6, <1>7, <1>8, <1>9 DEF TrustNext

\* Whatever is interrupted or overlaps, no attach dials a key the user has not
\* vouched for; and with one command at a time a revoked device never verifies
\* again, though writeFile truncates before it writes and nothing is locked.
THEOREM TrustHolds == TrustSpec => []TrustSafe
<1>1. TrustInv => TrustSafe
  BY DEF TrustInv, Alone, JobOK, TrustSafe, RevocationSticks, DialsVouched, Verifies
<1> QED
  BY <1>1, TrustInitInv, TrustNextInv, PTL DEF TrustSpec

\* With one command at a time, a known_hosts.json that can be read lists every pin
\* recorded and not since trusted anew or forgotten: what a killed write destroys
\* leaves a torn file, on which readKnownHosts throws, instead of an empty one that
\* the next write would make final.
THEOREM PinsStay == TrustSpec => []PinsKept
<1>1. TrustInv => PinsKept
  BY DEF TrustInv, Alone, PinsKept
<1> QED
  BY <1>1, TrustInitInv, TrustNextInv, PTL DEF TrustSpec

-----------------------------------------------------------------------------
(* Dock. *)

\* The steps at which the identity dock goes by is the one it wrote or found.
Identified == {"pin", "enroll", "service", "ensure", "probe", "stop", "respawn",
               "pair", "await", "confirm"}
SelfPinned == Identified \ {"pin"}
SelfEnrolled == SelfPinned \ {"enroll"}

\* How far each step has brought the files, and that a restart is under way only
\* for an identity just registered; a daemon that is down has loaded nothing, and
\* one that serves another identity than the one on disk was up before it was written.
DockPhases ==
    /\ daemon.loaded => daemon.up
    /\ daemon.loaded /\ dockjson # -1 => daemon.id = dockjson \/ daemon.older
    /\ at \in {"probe", "stop", "respawn"} => run.needs
    /\ at \in {"signin", "browser", "headless", "register"} => run.old = dockjson
    /\ at \in Identified \cup {"write"} => run.id \in HostIds
    /\ at = "write" => run.made = "created"
    /\ at \in Identified => dockjson = run.id /\ run.made # "none"
    /\ at \in SelfPinned => run.id \in pins
    /\ at \in SelfEnrolled => "self" \in enrolled

DockInv == DockTypeOK /\ DockPhases /\ ServedAsRegistered

\* Nothing is docked at first.
LEMMA DockInitInv == DockInit => DockInv
BY DockAssumption
   DEF DockInit, DockInv, DockTypeOK, DockPhases, ServedAsRegistered,
       Runs, NoRun, Daemons, Down, Prefs, Identified, SelfPinned, SelfEnrolled

\* What the daemon's own moves, and the service manager's, leave of it.
LEMMA DaemonTypes ==
    ASSUME daemon \in Daemons, NEW m \in BOOLEAN
    PROVE  /\ Down \in Daemons /\ ~Down.loaded /\ ~Down.up
           /\ Started(m) \in Daemons /\ ~Started(m).loaded
BY DEF Daemons, Down, Started

\* A dock that ends, however it does, leaves nothing its invariant speaks of.
LEMMA EndedInv ==
    ASSUME DockInv, Ended, dockjson' \in {-1, dockjson},
           enrolled' \in SUBSET {"self", "phone", "swapped"},
           UNCHANGED <<backend, starts, live, minted, pins, pref, daemon>>
    PROVE  DockInv'
BY DEF DockInv, DockTypeOK, DockPhases, ServedAsRegistered, Ended,
       Runs, NoRun, Prefs, Identified, SelfPinned, SelfEnrolled

\* Every step of a dock, of the daemon, the phone and the control plane keeps the
\* invariant.
LEMMA DockNextInv == DockInv /\ [DockNext]_dockVars => DockInv'
<1> SUFFICES ASSUME DockInv, [DockNext]_dockVars PROVE DockInv'
  OBVIOUS
<1> USE DEF DockInv
<1>0. run \in Runs /\ daemon \in Daemons /\ minted \in 0..MaxHosts /\ live \subseteq HostIds
  BY DEF DockTypeOK
<1>1. CASE DockBegins
  <2>1. run' \in Runs /\ run'.old = dockjson
    BY <1>1 DEF DockBegins
  <2>2. starts' \in 0..MaxStarts
    BY <1>1, DockAssumption DEF DockBegins, DockTypeOK
  <2> QED
    BY <1>1, <2>1, <2>2 DEF DockBegins, DockTypeOK, DockPhases, ServedAsRegistered,
       Identified, SelfPinned, SelfEnrolled
<1>2. ASSUME NEW w \in {"token", "browser", "headless"}, SignsIn(w) PROVE DockInv'
  BY <1>2 DEF SignsIn, DockTypeOK, DockPhases, ServedAsRegistered,
       Identified, SelfPinned, SelfEnrolled
<1>3. CASE Exchanges
  BY <1>3 DEF Exchanges, DockTypeOK, DockPhases, ServedAsRegistered,
       Identified, SelfPinned, SelfEnrolled
<1>4. CASE Refused
  <2>1. Ended /\ UNCHANGED <<backend, starts, live, minted, dockjson, pins, enrolled, pref, daemon>>
    BY <1>4 DEF Refused
  <2> QED  BY <2>1, EndedInv DEF DockTypeOK
<1>5. CASE Gives
  <2>1. /\ Ended /\ UNCHANGED <<backend, starts, live, minted, pins, enrolled, pref, daemon>>
        /\ dockjson' \in {-1, dockjson}
    BY <1>5 DEF Gives
  <2> QED  BY <2>1, EndedInv DEF DockTypeOK
<1>6. CASE Registers
  <2> DEFINE r == [run EXCEPT !.old = 0, !.same = FALSE]
  <2>1. CASE run.same /\ run.old \in live
    <3>1. run' = [r EXCEPT !.id = run.old, !.made = "reused"] /\ at' = "pin"
      BY <1>6, <2>1 DEF Registers
    <3>2. run.old \in HostIds /\ run.old = dockjson
      BY <1>0, <1>6, <2>1 DEF Registers, DockPhases
    <3>3. run' \in Runs /\ run'.id = dockjson
      BY <1>0, <3>1, <3>2 DEF Runs
    <3> QED
      BY <1>6, <3>1, <3>2, <3>3 DEF Registers, DockTypeOK, DockPhases, ServedAsRegistered,
         Identified, SelfPinned, SelfEnrolled
  <2>2. CASE ~(run.same /\ run.old \in live)
    <3>1. run' = r /\ at' = "create"
      BY <1>6, <2>2 DEF Registers
    <3>2. run' \in Runs
      BY <1>0, <3>1 DEF Runs
    <3> QED
      BY <1>6, <3>1, <3>2 DEF Registers, DockTypeOK, DockPhases, ServedAsRegistered,
         Identified, SelfPinned, SelfEnrolled
  <2> QED  BY <2>1, <2>2
<1>7. CASE Creates
  <2>1. minted + 1 \in HostIds /\ minted' \in 0..MaxHosts
    BY <1>0, <1>7, DockAssumption DEF Creates, HostIds
  <2>2. run' \in Runs /\ run'.id \in HostIds
    BY <1>0, <1>7, <2>1 DEF Creates, Runs
  <2> QED
    BY <1>0, <1>7, <2>1, <2>2 DEF Creates, DockTypeOK, DockPhases, ServedAsRegistered,
       Identified, SelfPinned, SelfEnrolled
<1>8. CASE WritesDock
  <2>1. daemon' \in Daemons /\ daemon'.loaded = daemon.loaded /\ daemon'.up = daemon.up
        /\ (daemon'.loaded => daemon'.older)
    BY <1>0, <1>8 DEF WritesDock, Daemons, DockPhases
  <2> QED
    BY <1>8, <2>1 DEF WritesDock, DockTypeOK, DockPhases, ServedAsRegistered,
       Identified, SelfPinned, SelfEnrolled
<1>9. CASE PinsSelf
  BY <1>9 DEF PinsSelf, Pinned, DockTypeOK, DockPhases, ServedAsRegistered,
     Identified, SelfPinned, SelfEnrolled
<1>10. CASE EnrollsSelf
  BY <1>10 DEF EnrollsSelf, DockTypeOK, DockPhases, ServedAsRegistered,
     Identified, SelfPinned, SelfEnrolled
<1>11. CASE DecidesService
  <2>1. run' \in Runs /\ run'.id = run.id /\ run'.made = run.made
    BY <1>0, <1>11 DEF DecidesService, Runs
  <2>2. daemon' \in Daemons /\ (daemon'.loaded => daemon' = daemon /\ daemon'.up)
    BY <1>0, <1>11, DaemonTypes DEF DecidesService, Installed, DockPhases
  <2>3. pref' \in Prefs
    BY <1>11 DEF DecidesService, DockTypeOK, Prefs
  <2> QED
    BY <1>11, <2>1, <2>2, <2>3 DEF DecidesService, DockTypeOK, DockPhases, ServedAsRegistered,
       Identified, SelfPinned, SelfEnrolled
<1>12. CASE ServiceCommand
  <2>1. daemon' \in Daemons /\ (daemon'.loaded => daemon' = daemon /\ daemon'.up)
    BY <1>0, <1>12, DaemonTypes DEF ServiceCommand, Installed, DockPhases
  <2>2. pref' \in Prefs
    BY <1>12 DEF ServiceCommand, Prefs
  <2> QED
    BY <1>12, <2>1, <2>2 DEF ServiceCommand, DockTypeOK, DockPhases, ServedAsRegistered,
       Identified, SelfPinned, SelfEnrolled
<1>13. CASE EnsuresDaemon
  <2>1. CASE daemon.up
    <3>1. run' = [run EXCEPT !.needs = Stale] /\ at' \in {"probe", "pair"} /\ daemon' = daemon
      BY <1>13, <2>1 DEF EnsuresDaemon
    <3>2. Stale \in BOOLEAN
      BY DEF Stale
    <3>3. run' \in Runs /\ run'.id = run.id /\ run'.made = run.made
      BY <1>0, <3>1, <3>2 DEF Runs
    <3>4. run'.needs <=> run.made = "created"
      BY <1>0, <3>1 DEF Runs, Stale
    <3>5. at' = "probe" => run.made = "created"
      BY <1>13, <2>1 DEF EnsuresDaemon, Stale
    <3>6. run.made \in {"none", "created", "reused"}
      BY <1>0 DEF Runs
    <3>7. at = "ensure" /\ UNCHANGED <<backend, starts, grant, live, minted, dockjson, pins,
                                         enrolled, pref, pairing>>
      BY <1>13 DEF EnsuresDaemon
    <3>8. run.id \in HostIds /\ dockjson = run.id /\ run.made # "none"
          /\ run.id \in pins /\ "self" \in enrolled
      BY <3>7 DEF DockPhases, Identified, SelfPinned, SelfEnrolled
    <3>9. ServedAsRegistered'
      <4> SUFFICES ASSUME at' = "pair", ~run'.needs, daemon.loaded
                   PROVE  daemon.id = dockjson \/ (run.made = "reused" /\ daemon.older)
        BY <3>1, <3>3, <3>7 DEF ServedAsRegistered
      <4>1. run.made = "reused" /\ dockjson # -1
        BY <3>4, <3>6, <3>8 DEF HostIds
      <4> QED  BY <4>1 DEF DockPhases
    <3>10. DockTypeOK'
      BY <3>1, <3>3, <3>7 DEF DockTypeOK
    <3>11. DockPhases'
      BY <3>1, <3>3, <3>4, <3>5, <3>7, <3>8 DEF DockPhases, Identified, SelfPinned, SelfEnrolled
    <3> QED  BY <3>9, <3>10, <3>11
  <2>2. CASE ~daemon.up
    <3>1. run' = run /\ at' = "pair" /\ daemon' \in {daemon, Started(run.managed)}
      BY <1>13, <2>2 DEF EnsuresDaemon
    <3>2. run.managed \in BOOLEAN
      BY <1>0 DEF Runs
    <3>3. daemon' \in Daemons /\ ~daemon'.loaded
      BY <1>0, <2>2, <3>1, <3>2, DaemonTypes DEF DockPhases
    <3> QED
      BY <1>13, <3>1, <3>3 DEF EnsuresDaemon, DockTypeOK, DockPhases,
         ServedAsRegistered, Identified, SelfPinned, SelfEnrolled
  <2> QED  BY <2>1, <2>2
<1>14. CASE Probes
  BY <1>14 DEF Probes, DockTypeOK, DockPhases, ServedAsRegistered,
     Identified, SelfPinned, SelfEnrolled
<1>15. CASE Stops
  <2>1. daemon' \in Daemons /\ (daemon'.loaded => daemon' = daemon /\ daemon'.up)
    BY <1>0, <1>15, DaemonTypes DEF Stops, DockPhases
  <2> QED
    BY <1>15, <2>1 DEF Stops, DockTypeOK, DockPhases, ServedAsRegistered,
       Identified, SelfPinned, SelfEnrolled
<1>16. CASE Respawns
  <2>1. CASE UNCHANGED <<daemon, run>>
    BY <1>16, <2>1 DEF Respawns, DockTypeOK, DockPhases, ServedAsRegistered,
       Identified, SelfPinned, SelfEnrolled
  <2>2. CASE daemon' = Started(run.managed) /\ run' = [run EXCEPT !.needs = FALSE]
    <3>1. run.managed \in BOOLEAN
      BY <1>0 DEF Runs
    <3>2. daemon' \in Daemons /\ ~daemon'.loaded
      BY <1>0, <2>2, <3>1, DaemonTypes
    <3>3. run' \in Runs /\ run'.id = run.id /\ run'.made = run.made
      BY <1>0, <2>2 DEF Runs
    <3> QED
      BY <1>16, <3>2, <3>3 DEF Respawns, DockTypeOK, DockPhases, ServedAsRegistered,
         Identified, SelfPinned, SelfEnrolled
  <2> QED  BY <1>16, <2>1, <2>2 DEF Respawns
<1>17. CASE MintsPair
  BY <1>17 DEF MintsPair, DockTypeOK, DockPhases, ServedAsRegistered,
     Identified, SelfPinned, SelfEnrolled
<1>18. CASE AwaitsPhone
  <2>1. CASE AsksHuman
    BY <1>18, <2>1 DEF AwaitsPhone, DockTypeOK, DockPhases, ServedAsRegistered,
       Identified, SelfPinned, SelfEnrolled
  <2>2. CASE ~AsksHuman
    <3>1. Ended /\ UNCHANGED <<backend, starts, live, minted, dockjson, pins, enrolled, pref, daemon>>
      BY <1>18, <2>2 DEF AwaitsPhone
    <3> QED  BY <3>1, EndedInv DEF DockTypeOK
  <2> QED  BY <2>1, <2>2
<1>19. CASE ConfirmsPhone
  <2>1. /\ Ended /\ UNCHANGED <<backend, starts, live, minted, dockjson, pins, pref, daemon>>
        /\ enrolled' \in {enrolled, enrolled \cup {"phone"}, enrolled \cup {"swapped"}}
    BY <1>19 DEF ConfirmsPhone, EnrollsConfirmed
  <2>2. enrolled' \in SUBSET {"self", "phone", "swapped"}
    BY <2>1 DEF DockTypeOK
  <2> QED  BY <2>1, <2>2, EndedInv DEF DockTypeOK
<1>20. CASE Approves \/ GrantExpires \/ Redeems \/ PairExpires
  <2>1. /\ UNCHANGED <<backend, at, run, starts, live, minted, dockjson, pins, enrolled,
                       pref, daemon>>
        /\ \/ UNCHANGED grant
           \/ grant \in {"pending", "approved"} /\ grant' \in {"approved", "over"}
        /\ pairing' \in {pairing, "keyless", "phone", "swapped", "expired"}
    BY <1>20 DEF Approves, GrantExpires, Redeems, PairExpires
  <2>2. DockTypeOK'
    BY <2>1 DEF DockTypeOK
  <2> QED
    BY <2>1, <2>2 DEF DockPhases, ServedAsRegistered
<1>21. CASE DaemonMoves
  <2>1. /\ daemon' \in Daemons /\ (daemon'.loaded => daemon'.up)
        /\ daemon'.loaded =>
             \/ daemon'.id = dockjson
             \/ daemon.loaded /\ daemon'.id = daemon.id /\ daemon'.older = daemon.older
    <3>1. CASE \E m \in {FALSE, pref = "installed"} : daemon' = Started(m)
      BY <1>0, <3>1, DaemonTypes
    <3>2. CASE daemon.up /\ daemon' = [daemon EXCEPT !.loaded = TRUE, !.id = dockjson]
      BY <1>0, <3>2 DEF Daemons, DockTypeOK
    <3>3. CASE daemon' = Down
      BY <1>0, <3>3, DaemonTypes
    <3>4. CASE daemon.up /\ daemon' = [daemon EXCEPT !.busy = ~@]
      BY <1>0, <3>4 DEF Daemons
    <3> QED  BY <1>21, <3>1, <3>2, <3>3, <3>4 DEF DaemonMoves
  <2> QED
    BY <1>21, <2>1 DEF DaemonMoves, DockTypeOK, DockPhases,
     ServedAsRegistered, Identified, SelfPinned, SelfEnrolled
<1>22. CASE \E h \in HostIds : Revokes(h)
  BY <1>22 DEF Revokes, DockTypeOK, DockPhases,
     ServedAsRegistered, Identified, SelfPinned, SelfEnrolled
<1>23. CASE UNCHANGED dockVars
  BY <1>23 DEF dockVars, DockTypeOK, DockPhases,
     ServedAsRegistered, Identified, SelfPinned, SelfEnrolled
<1> QED
  BY <1>1, <1>2, <1>3, <1>4, <1>5, <1>6, <1>7, <1>8, <1>9, <1>10, <1>11, <1>12, <1>13,
     <1>14, <1>15, <1>16, <1>17, <1>18, <1>19, <1>20, <1>21, <1>22, <1>23
     DEF DockNext, DockSteps

\* However docks are interrupted, the identity paired is the one on disk, pinned
\* and this machine enrolled; and a daemon left in place without a word serves it,
\* unless this dock reused a credential and the daemon was up before that was written.
THEOREM DockHolds == DockSpec => []DockSafe
<1>1. DockInv => DockSafe
  BY DEF DockInv, DockPhases, DockSafe, PairedIsAnchored, Identified, SelfPinned, SelfEnrolled
<1> QED
  BY <1>1, DockInitInv, DockNextInv, PTL DEF DockSpec

-----------------------------------------------------------------------------
(* Boarding. *)

NoLast == <<NoRepo, NoRepo>>

\* The steps each command takes.
StagesOf(cmd) ==
    CASE cmd = "board" -> {"shims", "boarded", "write-boarded", "anchored", "write-anchored", "rc"}
      [] cmd = "unboard" -> {"boarded", "write-boarded", "anchored", "write-anchored",
                             "remaining", "unshim", "rc"}
      [] cmd = "anchor" -> {"require", "anchored", "write-anchored"}

CmdRecs == {c \in [pc : Stages, cmd : {"board", "unboard", "anchor"}, repo : Repos,
                   wires : BOOLEAN, copy : SUBSET Repos] : c.pc \in StagesOf(c.cmd)}

\* What a command with nobody beside it has made true by the step it is at.
BoardCmdOK(c) ==
    /\ c.cmd = "board" =>
          /\ c.pc # "shims" => shims = "all"
          /\ c.pc \in {"anchored", "write-anchored", "rc"} => c.repo \in boarded
          /\ c.pc = "rc" => c.repo \notin anchored
    /\ c.cmd = "unboard" =>
          /\ c.pc \in {"anchored", "write-anchored", "remaining", "unshim", "rc"}
                => c.repo \notin boarded
          /\ c.pc \in {"unshim", "rc"} => boarded = {}
    /\ c.cmd = "anchor" /\ c.pc # "require" => c.repo \in boarded
    /\ c.pc = "write-boarded" => c.copy = With(c, boarded)
    /\ c.pc = "write-anchored" => c.copy = AnchoredNext(c)

\* Whether a command is about to take back the anchor of a repo it has unboarded.
Unanchors(c, repo) ==
    c.cmd = "unboard" /\ c.repo = repo /\ c.pc \in {"anchored", "write-anchored"}

BoardAlone ==
    /\ \A p, q \in Shells : cmds[p] # NoCmd /\ cmds[q] # NoCmd => p = q
    /\ \A p \in Shells : cmds[p] # NoCmd => last = NoLast /\ BoardCmdOK(cmds[p])
    /\ ~died => \A repo \in anchored \ boarded : \E p \in Shells : Unanchors(cmds[p], repo)

BoardInv ==
    /\ BoardTypeOK /\ cmds \in [Shells -> {NoCmd} \cup CmdRecs]
    /\ oneAtATime => BoardAlone
    /\ BoardSafe

\* A command under way is not the idle one.
LEMMA CmdNotIdle == \A c \in CmdRecs : c # NoCmd /\ c.pc # "idle"
BY DEF CmdRecs, NoCmd, Stages

\* A command that completes decides its launches where it has done its part: with
\* none boarded above its repo, the repo's own line is the only one that matches.
LEMMA TakesHold ==
    ASSUME NEW c \in CmdRecs, last' = <<c.cmd, c.repo>>,
           c.cmd = "board" => shims' = "all" /\ c.repo \in boarded' /\ c.repo \notin anchored',
           c.cmd = "unboard" => c.repo \notin boarded',
           c.cmd = "anchor" => c.repo \in anchored'
    PROVE  CommandsTakeHold'
<1>1. last'[2] = c.repo /\ last'[1] = c.cmd /\ c.repo \in Repos
      /\ c.cmd \in {"board", "unboard", "anchor"}
  BY DEF CmdRecs
<1> SUFFICES ASSUME Above[c.repo] \cap boarded' = {}
             PROVE  Ladder(c.repo, TRUE)' = IF c.cmd = "board" THEN {"custody"} ELSE {"free"}
  BY <1>1 DEF CommandsTakeHold
<1>2. Matches(c.repo)' = {c.repo} \cap boarded'
  BY DEF Matches
<1>3. CASE c.repo \in boarded'
  <2>1. Matches(c.repo)' = {c.repo}
    BY <1>2, <1>3
  <2> QED  BY <1>1, <1>3, <2>1 DEF Ladder
<1>4. CASE c.repo \notin boarded'
  <2>1. Matches(c.repo)' = {}
    BY <1>2, <1>4
  <2> QED  BY <1>1, <1>4, <2>1 DEF Ladder
<1> QED  BY <1>3, <1>4

\* Nothing is boarded, and no command under way, at first.
LEMMA BoardInitInv == BoardInit => BoardInv
<1> SUFFICES ASSUME BoardInit PROVE BoardInv
  OBVIOUS
<1>1. /\ cmds \in [Shells -> {NoCmd} \cup CmdRecs]
      /\ \A p \in Shells : cmds[p] = NoCmd
  BY DEF BoardInit
<1>2. BoardTypeOK
  <2>1. oneAtATime \in BOOLEAN /\ rc \in BOOLEAN /\ died \in BOOLEAN
    BY DEF BoardInit
  <2>2. typed \in 0..MaxTyped
    BY BoardAssumption DEF BoardInit
  <2> QED
    BY <1>1, <2>1, <2>2 DEF BoardInit, BoardTypeOK
<1>3. BoardAlone /\ BoardSafe
  BY <1>1 DEF BoardInit, BoardAlone, BoardSafe, CommandsTakeHold, NeverUnshimmed, NoLast
<1> QED
  BY <1>1, <1>2, <1>3 DEF BoardInv

\* A command that moves on to `c` keeps the invariant where `c` has made true what
\* its step stands for, and a command that completes where its launches are decided.
LEMMA BoardMoves ==
    ASSUME BoardInv, NEW p \in Shells, cmds[p] \in CmdRecs, NEW c \in {NoCmd} \cup CmdRecs,
           cmds' = [cmds EXCEPT ![p] = c], UNCHANGED <<oneAtATime, typed>>,
           boarded' \in SUBSET Repos, anchored' \in SUBSET Repos,
           shims' \in {"all", "some", "none"}, rc' \in BOOLEAN, died' \in BOOLEAN,
           \/ last' = last
           \/ /\ c = NoCmd /\ last' = <<cmds[p].cmd, cmds[p].repo>>
              /\ oneAtATime => CommandsTakeHold',
           oneAtATime => /\ c # NoCmd => BoardCmdOK(c)'
                         /\ NeverUnshimmed'
                         /\ ~died' => \A repo \in anchored' \ boarded' : Unanchors(c, repo)
    PROVE  BoardInv'
<1>1. cmds' \in [Shells -> {NoCmd} \cup CmdRecs] /\ cmds'[p] = c
      /\ \A q \in Shells \ {p} : cmds'[q] = cmds[q]
  BY DEF BoardInv
<1>2. last' \in {NoLast} \cup {"board", "unboard", "anchor"} \X Repos
  BY DEF BoardInv, BoardTypeOK, NoLast, CmdRecs
<1>3. cmds[p] # NoCmd
  BY CmdNotIdle
<1>4. ASSUME oneAtATime PROVE BoardAlone' /\ CommandsTakeHold'
  <2>1. \A q \in Shells \ {p} : cmds'[q] = NoCmd
    BY <1>1, <1>3, <1>4 DEF BoardInv, BoardAlone
  <2>2. last = NoLast
    BY <1>3, <1>4 DEF BoardInv, BoardAlone
  <2>3. \A q \in Shells : cmds'[q] # NoCmd => last' = NoLast /\ BoardCmdOK(c)' /\ cmds'[q] = c
    BY <1>1, <1>4, <2>1, <2>2
  <2>4. \A q \in Shells : cmds'[q] # NoCmd => last' = NoLast /\ BoardCmdOK(cmds[q])'
    BY <2>3 DEF BoardCmdOK, With, AnchoredNext
  <2>5. ~died' => \A repo \in anchored' \ boarded' : \E q \in Shells : Unanchors(cmds'[q], repo)
    BY <1>1, <1>4
  <2>6. CommandsTakeHold'
    BY <1>4, <2>2 DEF CommandsTakeHold, NoLast
  <2> QED
    BY <2>1, <2>4, <2>5, <2>6 DEF BoardAlone
<1>5. BoardTypeOK'
  <2>1. \A q \in Shells : \/ cmds'[q] = NoCmd
                          \/ /\ cmds'[q].pc \in Stages /\ cmds'[q].cmd \in {"board", "unboard", "anchor"}
                             /\ cmds'[q].repo \in Repos /\ cmds'[q].wires \in BOOLEAN
                             /\ cmds'[q].copy \in SUBSET Repos
    BY <1>1 DEF CmdRecs
  <2>2. ASSUME oneAtATime, ~died', \A q \in Shells : cmds'[q] = NoCmd
        PROVE  anchored' \subseteq boarded'
    BY <1>1, <2>2 DEF Unanchors, NoCmd
  <2> QED
    BY <1>2, <2>1, <2>2 DEF BoardInv, BoardTypeOK, NoLast
<1> QED
  BY <1>1, <1>4, <1>5 DEF BoardInv, BoardSafe, CommandsTakeHold, NeverUnshimmed

\* A command's record after a step, and the shells after it.
LEMMA CmdSteps ==
    ASSUME cmds \in [Shells -> {NoCmd} \cup CmdRecs], NEW p \in Shells, cmds[p] \in CmdRecs,
           NEW stage \in StagesOf(cmds[p].cmd)
    PROVE  \E c \in CmdRecs :
             /\ c.pc = stage /\ c.cmd = cmds[p].cmd /\ c.repo = cmds[p].repo
             /\ [cmds EXCEPT ![p].pc = stage] = [cmds EXCEPT ![p] = c]
<1>1. PICK c : c = [cmds[p] EXCEPT !.pc = stage]
  OBVIOUS
<1>2. StagesOf(cmds[p].cmd) \subseteq Stages
  BY DEF StagesOf, Stages, CmdRecs
<1>3. c \in CmdRecs /\ c.pc = stage /\ c.cmd = cmds[p].cmd /\ c.repo = cmds[p].repo
  BY <1>1, <1>2 DEF CmdRecs
<1>4. [cmds EXCEPT ![p].pc = stage] = [cmds EXCEPT ![p] = c]
  BY <1>1
<1> QED  BY <1>3, <1>4

\* Every step of a command, and its death, keeps the invariant.
LEMMA BoardNextInv == BoardInv /\ [BoardNext]_boardVars => BoardInv'
<1> SUFFICES ASSUME BoardInv, [BoardNext]_boardVars PROVE BoardInv'
  OBVIOUS
<1>0. /\ cmds \in [Shells -> {NoCmd} \cup CmdRecs]
      /\ boarded \in SUBSET Repos /\ anchored \in SUBSET Repos
      /\ shims \in {"all", "some", "none"} /\ rc \in BOOLEAN /\ died \in BOOLEAN
  BY DEF BoardInv, BoardTypeOK
<1>a. \A p \in Shells : cmds[p].pc # "idle" \/ cmds[p] # NoCmd => cmds[p] \in CmdRecs
  BY <1>0 DEF NoCmd
<1>b. ASSUME NEW p \in Shells, oneAtATime, cmds[p] \in CmdRecs
      PROVE  /\ BoardCmdOK(cmds[p]) /\ NeverUnshimmed
             /\ ~died => \A repo \in anchored \ boarded : Unanchors(cmds[p], repo)
  <2>1. \A q \in Shells : q # p => cmds[q] = NoCmd
    BY <1>b, CmdNotIdle DEF BoardInv, BoardAlone
  <2>2. \A repo : ~Unanchors(NoCmd, repo)
    BY DEF Unanchors, NoCmd
  <2> QED
    BY <1>b, <2>1, <2>2, CmdNotIdle DEF BoardInv, BoardAlone, BoardSafe
<1>1. ASSUME NEW p \in Shells, NEW cmd \in {"board", "unboard", "anchor"}, NEW repo \in Repos,
             NEW wires \in BOOLEAN, Types(p, cmd, repo, wires)
      PROVE  BoardInv'
  <2>1. PICK c : c = [pc |-> CASE cmd = "board" -> "shims" [] cmd = "unboard" -> "boarded"
                                [] cmd = "anchor" -> "require",
                      cmd |-> cmd, repo |-> repo, wires |-> wires, copy |-> {}]
    OBVIOUS
  <2>2. /\ c \in CmdRecs /\ c.cmd = cmd
        /\ c.pc = CASE cmd = "board" -> "shims" [] cmd = "unboard" -> "boarded"
                    [] cmd = "anchor" -> "require"
    BY <2>1 DEF CmdRecs, StagesOf, Stages
  <2>3. /\ cmds' = [cmds EXCEPT ![p] = c] /\ last' = NoLast /\ cmds[p] = NoCmd
        /\ oneAtATime => \A q \in Shells : cmds[q] = NoCmd
        /\ UNCHANGED <<oneAtATime, boarded, anchored, shims, rc, died>>
    BY <1>1, <2>1 DEF Types, NoLast
  <2>4. typed' \in 0..MaxTyped
    BY <1>1, BoardAssumption DEF Types, BoardInv, BoardTypeOK
  <2>5. /\ cmds' \in [Shells -> {NoCmd} \cup CmdRecs] /\ cmds'[p] = c
        /\ \A q \in Shells : q # p => cmds'[q] = cmds[q]
    BY <1>0, <2>2, <2>3
  <2>6. \A q \in Shells : \/ cmds'[q] = NoCmd
                          \/ /\ cmds'[q].pc \in Stages /\ cmds'[q].cmd \in {"board", "unboard", "anchor"}
                             /\ cmds'[q].repo \in Repos /\ cmds'[q].wires \in BOOLEAN
                             /\ cmds'[q].copy \in SUBSET Repos
    BY <2>5 DEF CmdRecs
  <2>7. c # NoCmd
    BY <2>2, CmdNotIdle
  <2>8. ~(\A q \in Shells : cmds'[q] = NoCmd)
    BY <2>5, <2>7
  <2>9. BoardTypeOK'
    BY <1>0, <2>3, <2>4, <2>6, <2>8 DEF BoardInv, BoardTypeOK, NoLast
  <2>10. ASSUME oneAtATime PROVE BoardAlone'
    <3>1. \A q \in Shells : q # p => cmds'[q] = NoCmd
      BY <2>3, <2>5, <2>10
    <3>2. BoardCmdOK(c)'
      BY <2>2 DEF BoardCmdOK
    <3>3. BoardCmdOK(cmds[p])'
      BY <2>5, <3>2 DEF BoardCmdOK, With, AnchoredNext
    <3>4. ~died => anchored \subseteq boarded
      BY <2>3, <2>10 DEF BoardInv, BoardTypeOK
    <3> QED
      BY <2>3, <3>1, <3>3, <3>4 DEF BoardAlone
  <2>11. BoardSafe'
    BY <2>3 DEF BoardInv, BoardSafe, CommandsTakeHold, NeverUnshimmed, NoLast
  <2> QED
    BY <2>3, <2>5, <2>9, <2>10, <2>11 DEF BoardInv
<1>2. ASSUME NEW p \in Shells, WritesShims(p) PROVE BoardInv'
  <2>1. cmds[p] \in CmdRecs /\ cmds[p].pc = "shims" /\ cmds[p].cmd = "board"
    BY <1>2, <1>a DEF WritesShims, At, CmdRecs, StagesOf
  <2>2. CASE shims' = "some" /\ UNCHANGED cmds
    <3>1. PICK c : c = cmds[p]
      OBVIOUS
    <3>2. cmds' = [cmds EXCEPT ![p] = c] /\ c \in CmdRecs
      BY <1>0, <2>1, <2>2, <3>1
    <3>3. oneAtATime => BoardCmdOK(c)' /\ NeverUnshimmed'
      BY <2>1, <2>2, <3>1 DEF BoardCmdOK, NeverUnshimmed
    <3>4. oneAtATime /\ ~died => \A repo \in anchored \ boarded : Unanchors(c, repo)
      BY <1>b, <2>1, <3>1
    <3> QED
      BY <1>0, <1>2, <2>1, <2>2, <3>2, <3>3, <3>4, BoardMoves DEF WritesShims
  <2>3. CASE shims' = "all" /\ To(p, "boarded")
    <3>1. "boarded" \in StagesOf(cmds[p].cmd)
      BY <2>1 DEF StagesOf
    <3>2. PICK c \in CmdRecs : /\ c.pc = "boarded" /\ c.cmd = cmds[p].cmd /\ c.repo = cmds[p].repo
                               /\ [cmds EXCEPT ![p].pc = "boarded"] = [cmds EXCEPT ![p] = c]
      BY <1>0, <2>1, <3>1, CmdSteps
    <3>3. oneAtATime => BoardCmdOK(c)' /\ NeverUnshimmed'
      BY <2>1, <2>3, <3>2 DEF BoardCmdOK, NeverUnshimmed
    <3>4. oneAtATime /\ ~died => anchored \subseteq boarded
      BY <1>b, <2>1 DEF Unanchors
    <3> QED
      BY <1>0, <1>2, <2>1, <2>3, <3>2, <3>3, <3>4, BoardMoves DEF WritesShims, To
  <2> QED  BY <1>2, <2>2, <2>3 DEF WritesShims
<1>3. ASSUME NEW p \in Shells, ReadsBoarded(p) PROVE BoardInv'
  <2> DEFINE next == With(cmds[p], boarded)
  <2>1. /\ cmds[p] \in CmdRecs /\ cmds[p].pc = "boarded" /\ cmds[p].cmd \in {"board", "unboard"}
        /\ cmds[p].repo \in Repos
        /\ UNCHANGED <<oneAtATime, boarded, anchored, shims, rc, typed, died, last>>
    BY <1>3, <1>a DEF ReadsBoarded, At, CmdRecs, StagesOf
  <2>2. /\ {"anchored", "write-boarded"} \subseteq StagesOf(cmds[p].cmd)
        /\ next \in SUBSET Repos
    BY <1>0, <2>1 DEF StagesOf, With
  <2>3. ASSUME oneAtATime
        PROVE  /\ cmds[p].cmd = "board" => shims = "all"
               /\ NeverUnshimmed' /\ (~died => anchored \subseteq boarded)
    BY <1>b, <2>1, <2>3 DEF BoardCmdOK, NeverUnshimmed, Unanchors
  <2>4. CASE next = boarded
    <3>1. cmds' = [cmds EXCEPT ![p].pc = "anchored"]
      BY <1>3, <2>4 DEF ReadsBoarded, To
    <3>2. PICK c \in CmdRecs : /\ c.pc = "anchored" /\ c.cmd = cmds[p].cmd /\ c.repo = cmds[p].repo
                               /\ [cmds EXCEPT ![p].pc = "anchored"] = [cmds EXCEPT ![p] = c]
      BY <1>0, <2>1, <2>2, CmdSteps
    <3>3. oneAtATime => BoardCmdOK(c)'
      BY <2>1, <2>3, <2>4, <3>2 DEF BoardCmdOK, With
    <3> QED
      BY <1>0, <2>1, <2>3, <3>1, <3>2, <3>3, BoardMoves
  <2>5. CASE next # boarded
    <3>1. cmds' = [cmds EXCEPT ![p].pc = "write-boarded", ![p].copy = next]
      BY <1>3, <2>5 DEF ReadsBoarded
    <3>2. PICK c \in CmdRecs :
            /\ c.pc = "write-boarded" /\ c.cmd = cmds[p].cmd /\ c.repo = cmds[p].repo
            /\ c.copy = next
            /\ [cmds EXCEPT ![p].pc = "write-boarded", ![p].copy = next] = [cmds EXCEPT ![p] = c]
      <4>1. "write-boarded" \in StagesOf(cmds[p].cmd) /\ "write-boarded" \in Stages
        BY <2>2 DEF Stages
      <4> HIDE DEF next
      <4>2. PICK c : c = [cmds[p] EXCEPT !.pc = "write-boarded", !.copy = next]
        OBVIOUS
      <4>3. /\ c \in CmdRecs /\ c.pc = "write-boarded" /\ c.cmd = cmds[p].cmd
            /\ c.repo = cmds[p].repo /\ c.copy = next
        BY <2>1, <2>2, <4>1, <4>2 DEF CmdRecs
      <4>4. [cmds EXCEPT ![p].pc = "write-boarded", ![p].copy = next] = [cmds EXCEPT ![p] = c]
        BY <1>0, <4>2
      <4> QED  BY <4>3, <4>4
    <3>3. oneAtATime => BoardCmdOK(c)'
      BY <2>1, <2>3, <3>2 DEF BoardCmdOK, With
    <3> QED
      BY ZenonT(40), <1>0, <2>1, <2>3, <3>1, <3>2, <3>3, BoardMoves
  <2> QED  BY <2>4, <2>5
<1>4. ASSUME NEW p \in Shells, WritesBoarded(p) PROVE BoardInv'
  <2>1. /\ cmds[p] \in CmdRecs /\ cmds[p].pc = "write-boarded"
        /\ cmds[p].cmd \in {"board", "unboard"} /\ cmds[p].copy \in SUBSET Repos
        /\ UNCHANGED <<oneAtATime, anchored, shims, rc, typed, last>>
    BY <1>4, <1>a DEF WritesBoarded, At, CmdRecs, StagesOf
  <2>2. ASSUME oneAtATime
        PROVE  /\ cmds[p].cmd = "board" => shims = "all" /\ cmds[p].copy = boarded \cup {cmds[p].repo}
               /\ cmds[p].cmd = "unboard" => cmds[p].copy = boarded \ {cmds[p].repo}
               /\ NeverUnshimmed /\ (~died => anchored \subseteq boarded)
    BY <1>b, <2>1, <2>2 DEF BoardCmdOK, With, Unanchors
  <2>3. CASE boarded' = cmds[p].copy /\ To(p, "anchored") /\ UNCHANGED died
    <3>1. "anchored" \in StagesOf(cmds[p].cmd)
      BY <2>1 DEF StagesOf
    <3>2. PICK c \in CmdRecs : /\ c.pc = "anchored" /\ c.cmd = cmds[p].cmd /\ c.repo = cmds[p].repo
                               /\ [cmds EXCEPT ![p].pc = "anchored"] = [cmds EXCEPT ![p] = c]
      BY <1>0, <2>1, <3>1, CmdSteps
    <3>3. oneAtATime => BoardCmdOK(c)'
      BY <2>1, <2>2, <2>3, <3>2 DEF BoardCmdOK
    <3>4. oneAtATime => NeverUnshimmed'
      BY <2>1, <2>2, <2>3 DEF NeverUnshimmed
    <3>5. oneAtATime /\ ~died' => \A repo \in anchored' \ boarded' : Unanchors(c, repo)
      BY <2>1, <2>2, <2>3, <3>2 DEF Unanchors
    <3> QED
      BY <1>0, <2>1, <2>3, <3>2, <3>3, <3>4, <3>5, BoardMoves DEF To
  <2>4. CASE boarded' = {} /\ Over(p) /\ died' = TRUE
    <3>1. NeverUnshimmed'
      BY <2>4 DEF NeverUnshimmed
    <3> QED
      BY <1>0, <2>1, <2>4, <3>1, BoardMoves DEF Over
  <2> QED  BY <1>4, <2>3, <2>4 DEF WritesBoarded
<1>5. ASSUME NEW p \in Shells, ReadsAnchored(p) PROVE BoardInv'
  <2> DEFINE next == AnchoredNext(cmds[p])
  <2>1. /\ cmds[p] \in CmdRecs /\ cmds[p].pc = "anchored"
        /\ cmds[p].cmd \in {"board", "unboard", "anchor"}
        /\ cmds[p].repo \in Repos /\ cmds[p].wires \in BOOLEAN
        /\ UNCHANGED <<oneAtATime, boarded, anchored, shims, rc, typed, died>>
    BY <1>5, <1>a DEF ReadsAnchored, At, CmdRecs
  <2>2. "write-anchored" \in StagesOf(cmds[p].cmd) /\ next \in SUBSET Repos
    BY <1>0, <2>1 DEF StagesOf, AnchoredNext
  <2>3. ASSUME oneAtATime
        PROVE  /\ cmds[p].cmd = "board" => shims = "all" /\ cmds[p].repo \in boarded
               /\ cmds[p].cmd = "unboard" => cmds[p].repo \notin boarded
               /\ cmds[p].cmd = "anchor" => cmds[p].repo \in boarded
               /\ NeverUnshimmed'
    BY <1>b, <2>1, <2>3 DEF BoardCmdOK, NeverUnshimmed
  <2>4. oneAtATime /\ ~died => \A repo \in anchored \ boarded : Unanchors(cmds[p], repo)
    BY <1>b, <2>1
  <2>5. CASE next # anchored
    <3>1. cmds' = [cmds EXCEPT ![p].pc = "write-anchored", ![p].copy = next] /\ last' = last
      BY <1>5, <2>5 DEF ReadsAnchored
    <3>2. PICK c \in CmdRecs :
            /\ c.pc = "write-anchored" /\ c.cmd = cmds[p].cmd /\ c.repo = cmds[p].repo
            /\ c.copy = next
            /\ [cmds EXCEPT ![p].pc = "write-anchored", ![p].copy = next] = [cmds EXCEPT ![p] = c]
      <4>1. "write-anchored" \in StagesOf(cmds[p].cmd) /\ "write-anchored" \in Stages
        BY <2>2 DEF Stages
      <4> HIDE DEF next
      <4>2. PICK c : c = [cmds[p] EXCEPT !.pc = "write-anchored", !.copy = next]
        OBVIOUS
      <4>3. /\ c \in CmdRecs /\ c.pc = "write-anchored" /\ c.cmd = cmds[p].cmd
            /\ c.repo = cmds[p].repo /\ c.copy = next
        BY <2>1, <2>2, <4>1, <4>2 DEF CmdRecs
      <4>4. [cmds EXCEPT ![p].pc = "write-anchored", ![p].copy = next] = [cmds EXCEPT ![p] = c]
        BY <1>0, <4>2
      <4> QED  BY <4>3, <4>4
    <3>3. oneAtATime => BoardCmdOK(c)'
      BY <2>1, <2>3, <3>2 DEF BoardCmdOK, AnchoredNext
    <3>4. oneAtATime /\ ~died => \A repo \in anchored \ boarded : Unanchors(c, repo)
      BY <2>4, <3>2 DEF Unanchors
    <3> QED
      BY ZenonT(40), <1>0, <2>1, <2>3, <3>1, <3>2, <3>3, <3>4, BoardMoves
  <2>6. CASE next = anchored
    <3>1. /\ cmds[p].cmd = "anchor" => cmds[p].repo \in anchored
          /\ cmds[p].cmd # "anchor" => cmds[p].repo \notin anchored
      BY <2>6 DEF AnchoredNext
    <3>2. oneAtATime /\ ~died => anchored \subseteq boarded
      BY <2>1, <2>4, <3>1 DEF Unanchors
    <3>3. \/ Done(p) /\ cmds[p].cmd # "unboard"
          \/ cmds[p].cmd = "board" /\ To(p, "rc") /\ last' = last
          \/ cmds[p].cmd = "unboard" /\ To(p, "remaining") /\ last' = last
      <4>1. CASE cmds[p].cmd = "board"
        BY <1>5, <2>1, <2>6, <4>1 DEF ReadsAnchored
      <4>2. CASE cmds[p].cmd = "unboard"
        BY <1>5, <2>1, <2>6, <4>2 DEF ReadsAnchored
      <4>3. CASE cmds[p].cmd = "anchor"
        BY <1>5, <2>1, <2>6, <4>3 DEF ReadsAnchored
      <4> QED  BY <2>1, <4>1, <4>2, <4>3
    <3>4. CASE Done(p) /\ cmds[p].cmd # "unboard"
      <4>1. cmds' = [cmds EXCEPT ![p] = NoCmd] /\ last' = <<cmds[p].cmd, cmds[p].repo>>
        BY <3>4 DEF Done, Over
      <4>2. oneAtATime => CommandsTakeHold'
        BY <2>1, <2>3, <3>1, <3>4, <4>1, TakesHold
      <4> QED
        BY <1>0, <2>1, <2>3, <3>2, <4>1, <4>2, BoardMoves
    <3>5. CASE cmds[p].cmd = "board" /\ To(p, "rc") /\ last' = last
      <4>1. PICK c \in CmdRecs : /\ c.pc = "rc" /\ c.cmd = cmds[p].cmd /\ c.repo = cmds[p].repo
                                 /\ [cmds EXCEPT ![p].pc = "rc"] = [cmds EXCEPT ![p] = c]
        BY <1>0, <2>1, <3>5, CmdSteps DEF StagesOf
      <4>2. oneAtATime => BoardCmdOK(c)'
        BY <2>1, <2>3, <3>1, <3>5, <4>1 DEF BoardCmdOK
      <4> QED
        BY <1>0, <2>1, <2>3, <3>2, <3>5, <4>1, <4>2, BoardMoves DEF To
    <3>6. CASE cmds[p].cmd = "unboard" /\ To(p, "remaining") /\ last' = last
      <4>1. PICK c \in CmdRecs : /\ c.pc = "remaining" /\ c.cmd = cmds[p].cmd /\ c.repo = cmds[p].repo
                                 /\ [cmds EXCEPT ![p].pc = "remaining"] = [cmds EXCEPT ![p] = c]
        BY <1>0, <2>1, <3>6, CmdSteps DEF StagesOf
      <4>2. oneAtATime => BoardCmdOK(c)'
        BY <2>1, <2>3, <3>1, <3>6, <4>1 DEF BoardCmdOK
      <4> QED
        BY <1>0, <2>1, <2>3, <3>2, <3>6, <4>1, <4>2, BoardMoves DEF To
    <3> QED  BY <3>3, <3>4, <3>5, <3>6
  <2> QED  BY <2>5, <2>6
<1>6. ASSUME NEW p \in Shells, WritesAnchored(p) PROVE BoardInv'
  <2>1. /\ cmds[p] \in CmdRecs /\ cmds[p].pc = "write-anchored"
        /\ cmds[p].cmd \in {"board", "unboard", "anchor"}
        /\ cmds[p].copy \in SUBSET Repos
        /\ UNCHANGED <<oneAtATime, boarded, shims, rc, typed, last>>
    BY <1>6, <1>a DEF WritesAnchored, At, CmdRecs
  <2>2. ASSUME oneAtATime
        PROVE  /\ cmds[p].cmd = "board" => shims = "all" /\ cmds[p].repo \in boarded
               /\ cmds[p].cmd = "unboard" => cmds[p].repo \notin boarded
               /\ cmds[p].cmd = "anchor" => cmds[p].repo \in boarded
               /\ cmds[p].copy = AnchoredNext(cmds[p])
               /\ NeverUnshimmed'
               /\ ~died => \A repo \in anchored \ boarded : Unanchors(cmds[p], repo)
    BY <1>b, <2>1, <2>2 DEF BoardCmdOK, NeverUnshimmed
  <2>3. CASE anchored' = cmds[p].copy /\ To(p, "anchored") /\ UNCHANGED died
    <3>1. "anchored" \in StagesOf(cmds[p].cmd)
      BY <2>1 DEF StagesOf
    <3>2. PICK c \in CmdRecs : /\ c.pc = "anchored" /\ c.cmd = cmds[p].cmd /\ c.repo = cmds[p].repo
                               /\ [cmds EXCEPT ![p].pc = "anchored"] = [cmds EXCEPT ![p] = c]
      BY <1>0, <2>1, <3>1, CmdSteps
    <3>3. oneAtATime => BoardCmdOK(c)'
      BY <2>1, <2>2, <2>3, <3>2 DEF BoardCmdOK
    <3>4. oneAtATime /\ ~died' => \A repo \in anchored' \ boarded' : Unanchors(c, repo)
      BY <2>1, <2>2, <2>3 DEF Unanchors, AnchoredNext
    <3> QED
      BY <1>0, <2>1, <2>2, <2>3, <3>2, <3>3, <3>4, BoardMoves DEF To
  <2>4. CASE anchored' = {} /\ Over(p) /\ died' = TRUE
    BY <1>0, <2>1, <2>2, <2>4, BoardMoves DEF Over
  <2> QED  BY <1>6, <2>3, <2>4 DEF WritesAnchored
<1>7. ASSUME NEW p \in Shells, ReadsRemaining(p) PROVE BoardInv'
  <2>1. /\ cmds[p] \in CmdRecs /\ cmds[p].pc = "remaining" /\ cmds[p].cmd = "unboard"
        /\ UNCHANGED <<oneAtATime, boarded, anchored, shims, rc, typed, died>>
    BY <1>7, <1>a DEF ReadsRemaining, At, CmdRecs, StagesOf
  <2>2. ASSUME oneAtATime
        PROVE  /\ cmds[p].repo \notin boarded /\ NeverUnshimmed'
               /\ ~died => anchored \subseteq boarded
    BY <1>b, <2>1, <2>2 DEF BoardCmdOK, NeverUnshimmed, Unanchors
  <2>3. CASE NoneBoarded
    <3>1. To(p, "unshim") /\ last' = last
      BY <1>7, <2>3 DEF ReadsRemaining
    <3>2. PICK c \in CmdRecs : /\ c.pc = "unshim" /\ c.cmd = cmds[p].cmd /\ c.repo = cmds[p].repo
                               /\ [cmds EXCEPT ![p].pc = "unshim"] = [cmds EXCEPT ![p] = c]
      BY <1>0, <2>1, CmdSteps DEF StagesOf
    <3>3. BoardCmdOK(c)'
      BY <2>1, <2>3, <3>2 DEF BoardCmdOK, NoneBoarded
    <3> QED
      BY <1>0, <2>1, <2>2, <3>1, <3>2, <3>3, BoardMoves DEF To
  <2>4. CASE ~NoneBoarded
    <3>1. cmds' = [cmds EXCEPT ![p] = NoCmd] /\ last' = <<cmds[p].cmd, cmds[p].repo>>
      BY <1>7, <2>4 DEF ReadsRemaining, Done, Over
    <3>2. oneAtATime => CommandsTakeHold'
      BY <2>1, <2>2, <3>1, TakesHold
    <3> QED
      BY <1>0, <2>1, <2>2, <3>1, <3>2, BoardMoves
  <2> QED  BY <2>3, <2>4
<1>8. ASSUME NEW p \in Shells, RemovesShims(p) PROVE BoardInv'
  <2>1. /\ cmds[p] \in CmdRecs /\ cmds[p].pc = "unshim" /\ cmds[p].cmd = "unboard"
        /\ UNCHANGED <<oneAtATime, boarded, anchored, rc, typed, died>>
        /\ shims' \in {"all", "some", "none"}
    BY <1>8, <1>a DEF RemovesShims, At, CmdRecs, StagesOf
  <2>2. ASSUME oneAtATime
        PROVE  /\ boarded = {} /\ NeverUnshimmed'
               /\ ~died => anchored \subseteq boarded
    BY <1>b, <2>1, <2>2 DEF BoardCmdOK, NeverUnshimmed, Unanchors
  <2>3. CASE UNCHANGED <<cmds, last>>
    <3>1. PICK c : c = cmds[p]
      OBVIOUS
    <3>2. cmds' = [cmds EXCEPT ![p] = c] /\ c \in CmdRecs
      BY <1>0, <2>1, <2>3, <3>1
    <3>3. oneAtATime => BoardCmdOK(c)'
      BY <2>1, <2>2, <3>1 DEF BoardCmdOK
    <3> QED
      BY <1>0, <2>1, <2>2, <2>3, <3>2, <3>3, BoardMoves
  <2>4. CASE To(p, "rc") /\ last' = last
    <3>1. PICK c \in CmdRecs : /\ c.pc = "rc" /\ c.cmd = cmds[p].cmd /\ c.repo = cmds[p].repo
                               /\ [cmds EXCEPT ![p].pc = "rc"] = [cmds EXCEPT ![p] = c]
      BY <1>0, <2>1, CmdSteps DEF StagesOf
    <3>2. oneAtATime => BoardCmdOK(c)'
      BY <2>1, <2>2, <3>1 DEF BoardCmdOK
    <3> QED
      BY <1>0, <2>1, <2>2, <2>4, <3>1, <3>2, BoardMoves DEF To
  <2>5. CASE Done(p)
    <3>1. cmds' = [cmds EXCEPT ![p] = NoCmd] /\ last' = <<cmds[p].cmd, cmds[p].repo>>
      BY <2>5 DEF Done, Over
    <3>2. oneAtATime => CommandsTakeHold'
      BY <2>1, <2>2, <3>1, TakesHold
    <3> QED
      BY <1>0, <2>1, <2>2, <3>1, <3>2, BoardMoves
  <2> QED  BY <1>8, <2>3, <2>4, <2>5 DEF RemovesShims
<1>9. ASSUME NEW p \in Shells, WiresRc(p) PROVE BoardInv'
  <2>1. /\ cmds[p] \in CmdRecs /\ cmds[p].pc = "rc" /\ cmds[p].cmd \in {"board", "unboard"}
        /\ UNCHANGED <<oneAtATime, boarded, anchored, shims, typed, died>>
        /\ cmds' = [cmds EXCEPT ![p] = NoCmd] /\ last' = <<cmds[p].cmd, cmds[p].repo>>
    BY <1>9, <1>a DEF WiresRc, At, CmdRecs, StagesOf, Done, Over
  <2>2. rc' \in BOOLEAN
    BY <1>9 DEF WiresRc
  <2>3. ASSUME oneAtATime
        PROVE  /\ cmds[p].cmd = "board" =>
                     shims = "all" /\ cmds[p].repo \in boarded /\ cmds[p].repo \notin anchored
               /\ cmds[p].cmd = "unboard" => cmds[p].repo \notin boarded
               /\ NeverUnshimmed' /\ (~died => anchored \subseteq boarded)
    BY <1>b, <2>1, <2>3 DEF BoardCmdOK, NeverUnshimmed, Unanchors
  <2>4. oneAtATime => CommandsTakeHold'
    BY <2>1, <2>3, TakesHold
  <2> QED
    BY <1>0, <2>1, <2>2, <2>3, <2>4, BoardMoves
<1>10. ASSUME NEW p \in Shells, RequiresBoarded(p) PROVE BoardInv'
  <2>1. /\ cmds[p] \in CmdRecs /\ cmds[p].pc = "require" /\ cmds[p].cmd = "anchor"
        /\ UNCHANGED <<oneAtATime, boarded, anchored, shims, rc, typed, died, last>>
    BY <1>10, <1>a DEF RequiresBoarded, At, CmdRecs, StagesOf
  <2>2. ASSUME oneAtATime
        PROVE  NeverUnshimmed' /\ (~died => anchored \subseteq boarded)
    BY <1>b, <2>1, <2>2 DEF NeverUnshimmed, Unanchors
  <2>3. CASE MayAnchor(p)
    <3>1. To(p, "anchored")
      BY <1>10, <2>3 DEF RequiresBoarded
    <3>2. PICK c \in CmdRecs : /\ c.pc = "anchored" /\ c.cmd = cmds[p].cmd /\ c.repo = cmds[p].repo
                               /\ [cmds EXCEPT ![p].pc = "anchored"] = [cmds EXCEPT ![p] = c]
      BY <1>0, <2>1, CmdSteps DEF StagesOf
    <3>3. BoardCmdOK(c)'
      BY <2>1, <2>3, <3>2 DEF BoardCmdOK, MayAnchor
    <3> QED
      BY <1>0, <2>1, <2>2, <3>1, <3>2, <3>3, BoardMoves DEF To
  <2>4. CASE ~MayAnchor(p)
    BY <1>0, <1>10, <2>1, <2>2, <2>4, BoardMoves DEF RequiresBoarded, Over
  <2> QED  BY <2>3, <2>4
<1>11. ASSUME NEW p \in Shells, Killed(p) PROVE BoardInv'
  <2>1. cmds[p] \in CmdRecs
    BY <1>11, <1>a DEF Killed
  <2>2. NeverUnshimmed'
    BY <1>11 DEF Killed, BoardInv, BoardSafe, NeverUnshimmed
  <2> QED
    BY <1>0, <1>11, <2>1, <2>2, BoardMoves DEF Killed, Over
<1>12. CASE UNCHANGED boardVars
  <2>1. /\ BoardTypeOK' /\ (cmds \in [Shells -> {NoCmd} \cup CmdRecs])'
        /\ (oneAtATime => BoardAlone)'
    <3>1. BoardTypeOK' /\ (cmds \in [Shells -> {NoCmd} \cup CmdRecs])'
      BY <1>12 DEF boardVars, BoardInv, BoardTypeOK
    <3>2. ASSUME oneAtATime PROVE BoardAlone'
      BY <1>12, <3>2 DEF boardVars, BoardInv, BoardAlone, BoardCmdOK, With, AnchoredNext
    <3> QED  BY <1>12, <3>1, <3>2 DEF boardVars
  <2>2. \A repo \in Repos : Ladder(repo, TRUE)' = Ladder(repo, TRUE)
    BY <1>12 DEF boardVars, Ladder, Matches
  <2>3. last # NoLast => last[2] \in Repos
    BY DEF BoardInv, BoardTypeOK, NoLast
  <2>4. CommandsTakeHold'
    BY <1>12, <2>2, <2>3 DEF boardVars, BoardInv, BoardSafe, CommandsTakeHold, NoLast
  <2>5. NeverUnshimmed'
    BY <1>12 DEF boardVars, BoardInv, BoardSafe, NeverUnshimmed
  <2> QED  BY <1>12, <2>1, <2>4, <2>5 DEF boardVars, BoardInv, BoardSafe
<1> QED
  BY <1>1, <1>2, <1>3, <1>4, <1>5, <1>6, <1>7, <1>8, <1>9, <1>10, <1>11, <1>12
     DEF BoardNext

\* With one command at a time, a board, unboard or anchor that completes decides
\* the launches in its repo whatever a killed one left behind, if no repo around it
\* is boarded; and no boarded repo is without its shims.
THEOREM BoardHolds == BoardSpec => []BoardSafe
<1>1. BoardInv => BoardSafe
  BY DEF BoardInv
<1> QED
  BY <1>1, BoardInitInv, BoardNextInv, PTL DEF BoardSpec

-----------------------------------------------------------------------------
(* The four together. *)

CliInv == DockInv /\ TrustInv /\ BoardInv /\ ClientInv

\* The commands stay in their types whatever the number of hosts, keys, devices and
\* repositories; among the types, that a sign-in is open only while dock waits for
\* it, and that between commands none of which died only a boarded repo is anchored.
THEOREM CliTypes == MCSpec => []MCTypeOK
<1>1. MCInit => CliInv
  BY DockInitInv, TrustInitInv, BoardInitInv, ClientInitInv DEF MCInit, CliInv
<1>2. CliInv /\ [MCNext]_MCVars => CliInv'
  <2> SUFFICES ASSUME CliInv, [MCNext]_MCVars PROVE CliInv'
    OBVIOUS
  <2>1. /\ [DockNext]_dockVars /\ [TrustNext]_trustVars
        /\ [BoardNext]_boardVars /\ [ClientNext]_clientVars
    BY DEF MCNext, MCVars
  <2> QED
    BY <2>1, DockNextInv, TrustNextInv, BoardNextInv, ClientNextInv DEF CliInv
<1>3. CliInv => MCTypeOK
  BY DEF CliInv, MCTypeOK, DockInv, TrustInv, BoardInv, ClientInv
<1> QED
  BY <1>1, <1>2, <1>3, PTL DEF MCSpec
=============================================================================
