----------------------------- MODULE TrustFiles -----------------------------
(***************************************************************************)
(* The trust anchors under ~/.pherry and the commands that edit them:      *)
(* known_hosts.json, with `pherry hosts` and the pin that `attach --host`  *)
(* resolves (known-hosts.ts, commands/hosts.ts, commands/attach.ts), and   *)
(* devices.json, with `pherry devices`, dock's enrollment and the daemon's *)
(* verification of a claim (device-keyring.ts, commands/devices.ts).       *)
(*                                                                         *)
(* A command is a process of its own: it reads the whole file, changes its *)
(* copy and writes it back with a writeFile that truncates first.  There   *)
(* is no lock.  A file is what it lists and whether it is torn; a torn     *)
(* file lists nothing.                                                     *)
(***************************************************************************)
EXTENDS Integers

CONSTANTS
    Hosts, Keys, Devices,
    Procs,          \* commands that may be under way at once
    NoJob,
    MaxCommands     \* bound: commands run

ASSUME TrustAssumption == MaxCommands \in Nat

VARIABLES
    alone,          \* whether the user runs one command at a time
    known,          \* known_hosts.json: pairs of a host and its key
    keyring,        \* devices.json: pairs of a device and its standing
    torn,           \* the files that are not whole
    procs,          \* the commands
    count,          \* commands begun
    vouched,        \* the pins the user has vouched for
    kept,           \* the pins recorded, until trusted anew or forgotten
    told            \* devices whose revocation was reported, until re-enrolled

trustVars == <<alone, known, keyring, torn, procs, count, vouched, kept, told>>

Pins == Hosts \X Keys
Standings == Devices \X {"enrolled", "revoked"}
Commands == [cmd : {"trust", "attach"}, of : Hosts, to : Keys]
       \cup [cmd : {"forget"}, of : Hosts, to : {NoJob}]
       \cup [cmd : {"enroll", "revoke"}, of : Devices, to : {NoJob}]
Idle == [pc |-> "idle", job |-> NoJob, copy |-> NoJob]
File(job) == IF job.cmd \in {"enroll", "revoke"} THEN "keyring" ELSE "known"

\* parseKnownHosts, parseDevices: at most one entry for each name.
OnePerName(entries) == \A e, f \in entries : e[1] = f[1] => e = f
Without(entries, x) == {e \in entries : e[1] # x}
Has(entries, x) == \E e \in entries : e[1] = x

\* Besides the types: no file ever lists a host or a device twice.
TrustTypeOK ==
    /\ alone \in BOOLEAN
    /\ known \in SUBSET Pins /\ OnePerName(known)
    /\ keyring \in SUBSET Standings /\ OnePerName(keyring)
    /\ torn \in SUBSET {"known", "keyring"}
    /\ \A p \in Procs :
          \/ procs[p] = Idle
          \/ /\ procs[p].pc \in {"look", "prompt", "read", "open", "write", "dial"}
             /\ procs[p].job \in Commands
             /\ procs[p].copy \in {NoJob} \cup (SUBSET Pins) \cup (SUBSET Standings)
    /\ count \in 0..MaxCommands
    /\ vouched \in SUBSET Pins /\ kept \in SUBSET Pins /\ told \in SUBSET Devices

TrustInit ==
    /\ alone \in BOOLEAN
    /\ known \in {s \in SUBSET Pins : OnePerName(s)}
    /\ keyring \in {s \in SUBSET Standings : OnePerName(s)}
    /\ torn = {} /\ procs = [p \in Procs |-> Idle] /\ count = 0
    /\ vouched = known /\ kept = known
    /\ told = {d \in Devices : <<d, "revoked">> \in keyring}

-----------------------------------------------------------------------------
(* The steps of a command. *)

Goes(p, pc) == procs' = [procs EXCEPT ![p].pc = pc]
Ends(p) == procs' = [procs EXCEPT ![p] = Idle]

\* The user types a command; a trusted key was obtained out of band.
CommandBegins(p, job) ==
    /\ procs[p] = Idle /\ count < MaxCommands
    /\ alone => \A q \in Procs : procs[q] = Idle
    /\ count' = count + 1
    /\ procs' = [procs EXCEPT ![p] =
          [pc |-> IF job.cmd \in {"attach", "revoke"} THEN "look" ELSE "read",
           job |-> job, copy |-> NoJob]]
    /\ vouched' = IF job.cmd = "trust" THEN vouched \cup {<<job.of, job.to>>} ELSE vouched
    /\ UNCHANGED <<alone, known, keyring, torn, kept, told>>

\* resolveRemotePin: the record here decides; a difference refuses, and only
\* an unknown host is a question, at a terminal.
ResolvesTo(job) ==
    IF <<job.of, job.to>> \in known THEN "dial"
    ELSE IF Has(known, job.of) THEN "refuse" ELSE "prompt"

\* The lookup: attach's, and the one of revoke that ends a second revocation.
Looks(p) ==
    LET job == procs[p].job
    IN  /\ procs[p].pc = "look"
        /\ \/ File(job) \in torn /\ Ends(p)
           \/ /\ File(job) \notin torn /\ job.cmd = "attach"
              /\ \/ ResolvesTo(job) # "refuse" /\ Goes(p, ResolvesTo(job))
                 \/ ResolvesTo(job) # "dial" /\ Ends(p)       \* refused, or no terminal
           \/ /\ File(job) \notin torn /\ job.cmd = "revoke"
              /\ IF <<job.of, "revoked">> \in keyring THEN Ends(p) ELSE Goes(p, "read")
        /\ UNCHANGED <<alone, known, keyring, torn, count, vouched, kept, told>>

\* confirm: trust on first use, or not.
Answers(p) ==
    /\ procs[p].pc = "prompt"
    /\ \/ /\ Goes(p, "read")
          /\ vouched' = vouched \cup {<<procs[p].job.of, procs[p].job.to>>}
       \/ Ends(p) /\ UNCHANGED vouched
    /\ UNCHANGED <<alone, known, keyring, torn, count, kept, told>>

\* Mutation: a file that does not parse reads as an empty one.
TornAsEmpty(file) ==
    IF file \in torn THEN {} ELSE IF file = "known" THEN known ELSE keyring

\* readKnownHosts, readAuthorizedDevices: a torn file throws.
Contents(file) ==
    IF file \in torn THEN NoJob ELSE IF file = "known" THEN known ELSE keyring

Reads(p) ==
    LET job == procs[p].job
        now == Contents(File(job))
    IN  /\ procs[p].pc = "read"
        /\ IF now = NoJob \/ (job.cmd \in {"forget", "revoke"} /\ ~Has(now, job.of))
           THEN Ends(p)
           ELSE procs' = [procs EXCEPT ![p].pc = "open", ![p].copy = now]
        /\ UNCHANGED <<alone, known, keyring, torn, count, vouched, kept, told>>

\* writeFile opens with O_TRUNC: what the file listed is gone from the disk.
Opens(p) ==
    LET file == File(procs[p].job)
    IN  /\ procs[p].pc = "open" /\ Goes(p, "write")
        /\ torn' = torn \cup {file}
        /\ known' = IF file = "known" THEN {} ELSE known
        /\ keyring' = IF file = "keyring" THEN {} ELSE keyring
        /\ UNCHANGED <<alone, count, vouched, kept, told>>

\* Mutation: the time of revocation is not set.
UpdatedUnmarked(job, copy) ==
    CASE job.cmd \in {"trust", "attach"} -> Without(copy, job.of) \cup {<<job.of, job.to>>}
      [] job.cmd = "forget" -> Without(copy, job.of)
      [] job.cmd = "enroll" -> Without(copy, job.of) \cup {<<job.of, "enrolled">>}
      [] job.cmd = "revoke" -> copy

\* What the command makes of its copy; a re-enrollment lifts a revocation.
Updated(job, copy) ==
    CASE job.cmd \in {"trust", "attach"} -> Without(copy, job.of) \cup {<<job.of, job.to>>}
      [] job.cmd = "forget" -> Without(copy, job.of)
      [] job.cmd = "enroll" -> Without(copy, job.of) \cup {<<job.of, "enrolled">>}
      [] job.cmd = "revoke" -> Without(copy, job.of) \cup {<<job.of, "revoked">>}

\* The write lands; over another's, or beside one, it may leave the tail of the
\* longer and the file torn.
Writes(p) ==
    LET job == procs[p].job
        file == File(job)
        beside == file \notin torn
                  \/ \E q \in Procs \ {p} : procs[q] # Idle /\ File(procs[q].job) = file
    IN  /\ procs[p].pc = "write"
        /\ \E whole \in IF beside THEN BOOLEAN ELSE {TRUE} :
              LET list == IF whole THEN Updated(job, procs[p].copy) ELSE {}
              IN  /\ torn' = IF whole THEN torn \ {file} ELSE torn \cup {file}
                  /\ IF file = "known" THEN known' = list /\ UNCHANGED keyring
                     ELSE keyring' = list /\ UNCHANGED known
        /\ told' = CASE job.cmd = "revoke" -> told \cup {job.of}
                     [] job.cmd = "enroll" -> told \ {job.of}
                     [] OTHER -> told
        /\ kept' = CASE job.cmd = "trust" -> Without(kept, job.of) \cup {<<job.of, job.to>>}
                     [] job.cmd = "attach" -> kept \cup {<<job.of, job.to>>}
                     [] job.cmd = "forget" -> Without(kept, job.of)
                     [] OTHER -> kept
        /\ IF job.cmd = "attach"
           THEN procs' = [procs EXCEPT ![p].pc = "dial", ![p].copy = NoJob]
           ELSE Ends(p)
        /\ UNCHANGED <<alone, count, vouched>>

\* The dial, with the key resolved.
Dials(p) ==
    /\ procs[p].pc = "dial" /\ Ends(p)
    /\ UNCHANGED <<alone, known, keyring, torn, count, vouched, kept, told>>

\* The process is killed between two steps.
Dies(p) ==
    /\ procs[p].pc \in {"read", "open", "write"} /\ Ends(p)
    /\ UNCHANGED <<alone, known, keyring, torn, count, vouched, kept, told>>

TrustNext ==
    \E p \in Procs :
        \/ \E job \in Commands : CommandBegins(p, job)
        \/ Looks(p) \/ Answers(p) \/ Reads(p) \/ Opens(p) \/ Writes(p) \/ Dials(p) \/ Dies(p)

TrustSpec == TrustInit /\ [][TrustNext]_trustVars

-----------------------------------------------------------------------------

\* buildVerifyDevice: enrolled, not revoked, and the keyring readable.
Verifies(d) == "keyring" \notin torn /\ <<d, "enrolled">> \in keyring

\* A device whose revocation was reported does not verify again, whatever was
\* interrupted since, as long as commands are run one at a time: one that overlaps
\* writes back the copy it read before the revocation.
RevocationSticks == alone => \A d \in told : ~Verifies(d)

\* attach dials only a key that the user vouched for, by `hosts trust` or at
\* the first-use question, with commands overlapping or not: the control
\* plane's word for it is never enough.
DialsVouched ==
    \A p \in Procs :
        procs[p].pc = "dial" => <<procs[p].job.of, procs[p].job.to>> \in vouched

\* What the two files vouch for is what the user decided.
TrustSafe == RevocationSticks /\ DialsVouched

\* As long as commands are run one at a time, a known_hosts.json that can be read
\* lists every pin recorded in it and not since trusted anew or forgotten.  A
\* command killed once persist has truncated the file does lose every pin, but the
\* file is then refused, by attach too, and never taken for one that lists nobody:
\* no pinned host is a first use again.
PinsKept == alone /\ "known" \notin torn => kept \subseteq known
=============================================================================
