------------------------------ MODULE Boarding ------------------------------
(***************************************************************************)
(* `pherry board`, `unboard` and `anchor` over the boarded and anchored    *)
(* lists, the shims and the shell-rc block (commands/board.ts,             *)
(* custody/boarded.ts, custody/shell-rc.ts), and the decision ladder of a  *)
(* generated shim (custody/shim.ts).                                       *)
(*                                                                         *)
(* Each command is a process that may die between two writes; a list file  *)
(* is truncated before it is written, and a torn list reads as a short one.*)
(***************************************************************************)
EXTENDS Integers

CONSTANTS
    Repos,
    Above,       \* for each repo, those that contain it
    Shells,      \* commands that may be under way at once
    NoRepo,
    MaxTyped     \* bound: commands run

ASSUME BoardAssumption ==
    /\ MaxTyped \in Nat
    /\ Above \in [Repos -> SUBSET Repos] /\ \A r \in Repos : r \notin Above[r]

VARIABLES
    oneAtATime,     \* whether the user runs one command at a time
    boarded, anchored,   \* the two list files
    shims,          \* the managed shims: all, some or none of them on disk
    rc,             \* the block in the shell's rc
    cmds,           \* the commands under way
    typed,          \* commands begun
    died,           \* whether a command was killed half-way
    last            \* the command that completed last, and its repo

boardVars == <<oneAtATime, boarded, anchored, shims, rc, cmds, typed, died, last>>

NoCmd == [pc |-> "idle", cmd |-> NoRepo, repo |-> NoRepo, wires |-> FALSE, copy |-> {}]

\* The steps of a command, in the order the code takes them.
Stages == {"shims", "boarded", "write-boarded", "anchored", "write-anchored",
           "remaining", "unshim", "rc", "require"}

\* Besides the types: as long as no command died, and between commands, only a
\* boarded repo is anchored.
BoardTypeOK ==
    /\ oneAtATime \in BOOLEAN
    /\ boarded \in SUBSET Repos /\ anchored \in SUBSET Repos
    /\ shims \in {"all", "some", "none"} /\ rc \in BOOLEAN
    /\ \A p \in Shells :
          \/ cmds[p] = NoCmd
          \/ /\ cmds[p].pc \in Stages /\ cmds[p].cmd \in {"board", "unboard", "anchor"}
             /\ cmds[p].repo \in Repos /\ cmds[p].wires \in BOOLEAN
             /\ cmds[p].copy \in SUBSET Repos
    /\ typed \in 0..MaxTyped /\ died \in BOOLEAN
    /\ last \in {<<NoRepo, NoRepo>>} \cup {"board", "unboard", "anchor"} \X Repos
    /\ oneAtATime /\ ~died /\ (\A p \in Shells : cmds[p] = NoCmd) => anchored \subseteq boarded

BoardInit ==
    /\ oneAtATime \in BOOLEAN
    /\ boarded = {} /\ anchored = {} /\ shims = "none" /\ rc = FALSE
    /\ cmds = [p \in Shells |-> NoCmd] /\ typed = 0
    /\ died = FALSE /\ last = <<NoRepo, NoRepo>>

-----------------------------------------------------------------------------

At(p, pc) == cmds[p].pc = pc
To(p, pc) == cmds' = [cmds EXCEPT ![p].pc = pc]
Over(p) == cmds' = [cmds EXCEPT ![p] = NoCmd]
Done(p) == Over(p) /\ last' = <<cmds[p].cmd, cmds[p].repo>>

Types(p, cmd, repo, wires) ==
    /\ cmds[p] = NoCmd /\ typed < MaxTyped
    /\ oneAtATime => \A q \in Shells : cmds[q] = NoCmd
    /\ typed' = typed + 1
    /\ cmds' = [cmds EXCEPT ![p] =
          [pc |-> CASE cmd = "board" -> "shims" [] cmd = "unboard" -> "boarded"
                    [] cmd = "anchor" -> "require",
           cmd |-> cmd, repo |-> repo, wires |-> wires, copy |-> {}]]
    /\ last' = <<NoRepo, NoRepo>>
    /\ UNCHANGED <<oneAtATime, boarded, anchored, shims, rc, died>>

\* runBoard writes a shim for every agent, each in turn and over the old one.
WritesShims(p) ==
    /\ At(p, "shims")
    /\ \/ shims' = "some" /\ shims # "some" /\ UNCHANGED cmds
       \/ shims' = "all" /\ To(p, "boarded")
    /\ UNCHANGED <<oneAtATime, boarded, anchored, rc, typed, died, last>>

\* What adding or removing the repo makes of a list.
With(c, list) == IF c.cmd = "board" THEN list \cup {c.repo} ELSE list \ {c.repo}

\* addToBoardedList, removeFromBoardedList: nothing is written when nothing
\* changes.
ReadsBoarded(p) ==
    LET next == With(cmds[p], boarded)
    IN  /\ At(p, "boarded")
        /\ IF next = boarded THEN To(p, "anchored")
           ELSE cmds' = [cmds EXCEPT ![p].pc = "write-boarded", ![p].copy = next]
        /\ UNCHANGED <<oneAtATime, boarded, anchored, shims, rc, typed, died, last>>

\* The write, or the truncation before a death.
WritesBoarded(p) ==
    /\ At(p, "write-boarded")
    /\ \/ boarded' = cmds[p].copy /\ To(p, "anchored") /\ UNCHANGED died
       \/ boarded' = {} /\ Over(p) /\ died' = TRUE
    /\ UNCHANGED <<oneAtATime, anchored, shims, rc, typed, last>>

\* Mutation: boarding leaves an anchor in place.
AnchoredKeeps(c) == IF c.cmd = "unboard" THEN anchored \ {c.repo}
                    ELSE IF c.cmd = "anchor" THEN anchored \cup {c.repo} ELSE anchored

\* Boarding clears an anchor, and so does unboarding.
AnchoredNext(c) == IF c.cmd = "anchor" THEN anchored \cup {c.repo} ELSE anchored \ {c.repo}

ReadsAnchored(p) ==
    LET next == AnchoredNext(cmds[p])
        done == CASE cmds[p].cmd = "board" -> IF cmds[p].wires THEN "rc" ELSE "over"
                  [] cmds[p].cmd = "unboard" -> "remaining"
                  [] cmds[p].cmd = "anchor" -> "over"
    IN  /\ At(p, "anchored")
        /\ IF next # anchored
           THEN /\ cmds' = [cmds EXCEPT ![p].pc = "write-anchored", ![p].copy = next]
                /\ UNCHANGED last
           ELSE IF done = "over" THEN Done(p) ELSE To(p, done) /\ UNCHANGED last
        /\ UNCHANGED <<oneAtATime, boarded, anchored, shims, rc, typed, died>>

WritesAnchored(p) ==
    /\ At(p, "write-anchored")
    /\ \/ anchored' = cmds[p].copy /\ To(p, "anchored") /\ UNCHANGED died
       \/ anchored' = {} /\ Over(p) /\ died' = TRUE
    /\ UNCHANGED <<oneAtATime, boarded, shims, rc, typed, last>>

\* The shims go with the last boarded repo.
NoneBoarded == boarded = {}

ReadsRemaining(p) ==
    /\ At(p, "remaining")
    /\ IF NoneBoarded THEN To(p, "unshim") /\ UNCHANGED last ELSE Done(p)
    /\ UNCHANGED <<oneAtATime, boarded, anchored, shims, rc, typed, died>>

RemovesShims(p) ==
    /\ At(p, "unshim")
    /\ \/ shims' = "some" /\ shims = "all" /\ UNCHANGED <<cmds, last>>
       \/ shims' = "none" /\ IF cmds[p].wires THEN To(p, "rc") /\ UNCHANGED last ELSE Done(p)
    /\ UNCHANGED <<oneAtATime, boarded, anchored, rc, typed, died>>

\* ensureShimsOnShellPath, removeShimsFromShellPath: the block is there at most
\* once.
WiresRc(p) ==
    /\ At(p, "rc") /\ Done(p)
    /\ rc' = (cmds[p].cmd = "board")
    /\ UNCHANGED <<oneAtATime, boarded, anchored, shims, typed, died>>

\* runAnchor refuses a repo that is not boarded.
MayAnchor(p) == cmds[p].repo \in boarded

RequiresBoarded(p) ==
    /\ At(p, "require")
    /\ IF MayAnchor(p) THEN To(p, "anchored") ELSE Over(p)
    /\ UNCHANGED <<oneAtATime, boarded, anchored, shims, rc, typed, died, last>>

\* Killed between two steps.
Killed(p) ==
    /\ cmds[p] # NoCmd /\ Over(p) /\ died' = TRUE
    /\ UNCHANGED <<oneAtATime, boarded, anchored, shims, rc, typed, last>>

BoardNext ==
    \E p \in Shells :
        \/ \E cmd \in {"board", "unboard", "anchor"}, repo \in Repos, wires \in BOOLEAN :
              Types(p, cmd, repo, wires)
        \/ WritesShims(p) \/ ReadsBoarded(p) \/ WritesBoarded(p) \/ ReadsAnchored(p)
        \/ WritesAnchored(p) \/ ReadsRemaining(p) \/ RemovesShims(p) \/ WiresRc(p)
        \/ RequiresBoarded(p) \/ Killed(p)

BoardSpec == BoardInit /\ [][BoardNext]_boardVars

-----------------------------------------------------------------------------
(* The shim: what a launch in a repo comes to. *)

\* The lines of boarded.list that are a prefix of the repo's path: its own and those
\* of the directories above it. The shim takes the first; their order in the file is
\* left open.
Matches(repo) == ({repo} \cup Above[repo]) \cap boarded

\* renderShimScript: outside a session, at a terminal and without a passthrough
\* flag ("interactive"), under a boarded line that is not anchored, the launch goes
\* to the daemon; everything else runs the agent found on the rest of PATH.
Ladder(repo, interactive) ==
    IF shims # "all" \/ ~interactive \/ Matches(repo) = {} THEN {"free"}
    ELSE {IF line \in anchored THEN "free" ELSE "custody" : line \in Matches(repo)}

-----------------------------------------------------------------------------

\* A command that completes decides the launches in its repo, whatever earlier
\* commands left half done: custody after board, free after unboard and anchor. Not
\* so in a repo below a boarded one: there the shim may go by the line of the repo
\* above, and unboarding or anchoring the inner one leaves its launches in custody.
CommandsTakeHold ==
    oneAtATime /\ last # <<NoRepo, NoRepo>> /\ Above[last[2]] \cap boarded = {} =>
        Ladder(last[2], TRUE) = IF last[1] = "board" THEN {"custody"} ELSE {"free"}

\* While a repo is boarded the shims are there, though a board that died may
\* have left one of them half written.
NeverUnshimmed == oneAtATime /\ boarded # {} => shims # "none"

\* Boarding does what it says to the launches in a repo with none boarded above it.
BoardSafe == CommandsTakeHold /\ NeverUnshimmed
=============================================================================
