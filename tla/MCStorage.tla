------------------------------ MODULE MCStorage -----------------------------
(***************************************************************************)
(* What precedes and what follows process_upload, in one run, though the   *)
(* two have no state in common: its first state chooses a part.            *)
(*                                                                         *)
(* Whole requests: one user and one folder suffice for the counts, which   *)
(* do not look at either; two names and two contents make every merge,     *)
(* three items a copy or bulk request over two files that share a content  *)
(* with a third.                                                           *)
(*                                                                         *)
(* Upload sessions: one of them, two chunks and three handlers: two chunks *)
(* in parallel or one twice, with a completion or an abort in between, or  *)
(* two completions and an abort.  Two different contents of a chunk tell   *)
(* stale etags apart.                                                      *)
(***************************************************************************)
EXTENDS StorageLifecycle, UploadSession, TLC

VARIABLE part

partVars == <<part, vars, sessionVars>>

\* Only one of the parts is at work, so that items and handlers, contents and data can
\* have the same names and be permuted together.
Symmetry == Permutations(Items) \cup Permutations(Hashes)

PartInit == part \in {"requests", "sessions"} /\ Init /\ SessionInit

PartNext ==
    /\ UNCHANGED part
    /\ \/ part = "requests" /\ Next /\ UNCHANGED sessionVars
       \/ part = "sessions" /\ SessionNext /\ UNCHANGED vars

PartSpec == PartInit /\ [][PartNext]_partVars
=============================================================================
