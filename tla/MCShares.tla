------------------------------ MODULE MCShares ------------------------------
(***************************************************************************)
(* A folder with one file in it and a file beside it, which can be moved   *)
(* in, merged, overwritten or deleted; the first expires, its content has  *)
(* still to be scanned.                                                    *)
(*                                                                         *)
(* The first state chooses which of two crowds meets the visits: two       *)
(* commands of the owner that overlap, with a restart, or one command at a *)
(* time, uploads among them, with the scanners.                            *)
(***************************************************************************)
EXTENDS Shares, TLC

CONSTANTS d, f, g, c1, c2

VARIABLE crowd

MCFolders == {d}
MCFiles == {f, g}
MCInitialPlace == [x \in {f, g} |-> IF x = f THEN d ELSE Root]
MCInitialContent == [x \in {f, g} |-> IF x = f THEN c1 ELSE c2]
MCInitialPending == {c1}
MCFileExpiry == [x \in {f, g} |-> IF x = f THEN 0 ELSE 9]
MCLinkLives == {0}

Perms == Permutations(Commands) \cup Permutations(Scanners)

CrowdInit ==
    /\ Init
    /\ crowd \in {"commands", "scans"}

\* What goes on in both.
Around ==
    \/ \E r \in Visits : Visit(r)
    \/ \E l \in Links : Revoke(l)
    \/ \E x \in Files : SweepMark(x) \/ SweepLinks(x)
    \/ \E x \in Files, p \in Folders \cup {Root} : Move(x, p)
    \/ ListDue
    \/ \E c \in Contents : PurgeFiles(c) \/ PurgeRow(c)
    \/ Tick

TwoCommands == (\E r \in Commands : Command(r)) \/ Restart

OneCommandAndScans ==
    \/ \E r \in Commands :
          (\A q \in Commands \ {r} : rq[q] = Idle) /\ (Command(r) \/ Uploading(r))
    \/ \E s \in Scanners :
          (\E c \in Contents : SelectForScan(s, c)) \/ Claim(s) \/ Conclude(s)

CrowdNext ==
    /\ UNCHANGED crowd
    /\ \/ Around
       \/ crowd = "commands" /\ TwoCommands
       \/ crowd = "scans" /\ OneCommandAndScans

CrowdSpec == CrowdInit /\ [][CrowdNext]_<<vars, crowd>>
=============================================================================
