------------------------------ MODULE MCServer ------------------------------
(***************************************************************************)
(* Two parts of the server that have no state in common, the table of      *)
(* mutexes and the scans, in one run: its first state chooses a part.      *)
(*                                                                         *)
(* Three callers and two users; with three allocations an evicted mutex,   *)
(* its replacement and another key's are alive together.  Two workers and  *)
(* the scans of the uploads compete for two contents, one of them with a   *)
(* threat; a batch of one leaves the other content waiting.                *)
(***************************************************************************)
EXTENDS KeyedMutex, ScanPipeline

VARIABLE part

serverVars == <<part, vars, scanVars>>

ServerInit == part \in {"mutexes", "scans"} /\ Init /\ ScanInit

ServerNext ==
    /\ UNCHANGED part
    /\ \/ part = "mutexes" /\ Next /\ UNCHANGED scanVars
       \/ part = "scans" /\ ScanNext /\ UNCHANGED vars

\* The first state of the one part asks nothing of the fairness of the other.
ServerSpec == ServerInit /\ [][ServerNext]_serverVars /\ MutexFairness /\ ScanFairness
=============================================================================
