---------------------------- MODULE ScanPipeline ----------------------------
(***************************************************************************)
(* Virus scans: the scan that process_upload spawns for a new content      *)
(* (api/src/services/file_service/upload.rs) and those of the background   *)
(* workers (api/src/services/worker.rs), which share one column,           *)
(* storage_files.scan_status.                                              *)
(*                                                                         *)
(* A new row is pending; the upload claims it at once and a spawned task   *)
(* scans it, while any worker that has seen the row pending claims it too: *)
(* the SELECT takes no lock and the UPDATE does not look at the status     *)
(* again.  Every result is written by id, whatever the status is by then.  *)
(* A scan that is lost in memory (the process died, clamd answered with an *)
(* error to a worker) leaves the row as it is.                             *)
(*                                                                         *)
(* clamd is external: it finds the threats, cannot be reached, or answers  *)
(* with an error.                                                          *)
(***************************************************************************)
EXTENDS Integers, FiniteSets

CONSTANTS
    Contents,   \* storage_files ids
    Threats,    \* those that clamd objects to
    Workers,    \* background workers, one in each process that runs one
    BatchLimit, \* how many rows a worker claims at once (5)
    NoContent,
    MaxFaults   \* bound on the scans that fail and are retried, or are lost with a process

ASSUME ContentsAssumption == IsFiniteSet(Contents)
ASSUME ThreatsAssumption == Threats \subseteq Contents
ASSUME BatchAssumption == BatchLimit \in Nat \ {0}
ASSUME FaultsAssumption == MaxFaults \in Nat
ASSUME NoContentAssumption == NoContent \notin Contents

VARIABLES
    status,    \* per content: scan_status, or that there is no row yet or any more
    uploader,  \* per content: what process_upload and the task it spawned are at
    phase,     \* per worker: where perform_virus_scans is
    batch,     \* per worker: pending_ids, then the rows still to scan
    current,   \* per worker: the content that clamd is reading
    found,     \* history: contents reported as infected
    lost,      \* history: contents with a scan that came to nothing
    faults     \* how many scans failed or were lost with their process

scanVars == <<status, uploader, phase, batch, current, found, lost, faults>>

ScanTypeOK ==
    /\ status \in [Contents -> {"none", "pending", "scanning", "clean", "infected", "error", "deleted"}]
    /\ uploader \in [Contents -> {"none", "inserted", "scanning", "done"}]
    /\ phase \in [Workers -> {"idle", "selected", "claimed", "scanning"}]
    /\ batch \in [Workers -> SUBSET Contents]
    /\ current \in [Workers -> Contents \cup {NoContent}]
    /\ found \subseteq Threats
    /\ lost \subseteq Contents
    /\ faults \in 0 .. MaxFaults
    /\ \A w \in Workers :
         /\ phase[w] = "idle" => batch[w] = {}
         /\ current[w] # NoContent => phase[w] = "scanning"
         /\ Cardinality(batch[w]) <= BatchLimit

ScanInit ==
    /\ status = [c \in Contents |-> "none"]
    /\ uploader = [c \in Contents |-> "none"]
    /\ phase = [w \in Workers |-> "idle"]
    /\ batch = [w \in Workers |-> {}]
    /\ current = [w \in Workers |-> NoContent]
    /\ found = {} /\ lost = {} /\ faults = 0

-----------------------------------------------------------------------------
Stored(c) == status[c] \notin {"none", "deleted"}
Verdict(c) == IF c \in Threats THEN "infected" ELSE "clean"

\* UPDATE storage_files SET scan_status = s WHERE id IN C: rows that are gone are
\* left out.
SetStatus(C, s) == status' = [c \in Contents |-> IF c \in C /\ Stored(c) THEN s ELSE status[c]]

\* A verdict is written and, for a threat, known.
Report(c) == /\ SetStatus({c}, Verdict(c))
             /\ found' = found \cup ({c} \cap Threats)

-----------------------------------------------------------------------------
\* process_upload of a new content inserts its row.
InsertRow(c) ==
    /\ status[c] = "none"
    /\ status' = [status EXCEPT ![c] = "pending"]
    /\ uploader' = [uploader EXCEPT ![c] = "inserted"]
    /\ UNCHANGED <<phase, batch, current, found, lost, faults>>

\* Mutant: the claim is forgotten, the scan runs.
ClaimUploadNot(c) ==
    /\ uploader[c] = "inserted"
    /\ uploader' = [uploader EXCEPT ![c] = "done"]
    /\ SetStatus({c}, "scanning")
    /\ UNCHANGED <<phase, batch, current, found, lost, faults>>

\* It marks the row and spawns the scan.
ClaimUpload(c) ==
    /\ uploader[c] = "inserted"
    /\ uploader' = [uploader EXCEPT ![c] = "scanning"]
    /\ SetStatus({c}, "scanning")
    /\ UNCHANGED <<phase, batch, current, found, lost, faults>>

\* The spawned scan writes its verdict.
JudgeUpload(c) ==
    /\ uploader[c] = "scanning"
    /\ uploader' = [uploader EXCEPT ![c] = "done"]
    /\ Report(c)
    /\ UNCHANGED <<phase, batch, current, lost, faults>>

\* clamd cannot be reached or answers with an error: so does the row, for good.
UploadScanError(c) ==
    /\ uploader[c] = "scanning"
    /\ uploader' = [uploader EXCEPT ![c] = "done"]
    /\ SetStatus({c}, "error")
    /\ lost' = lost \cup {c}
    /\ UNCHANGED <<phase, batch, current, found, faults>>

-----------------------------------------------------------------------------
\* perform_virus_scans: the SELECT of a transaction.
Select(w) ==
    LET pending == {c \in Contents : status[c] = "pending"}
    IN  /\ phase[w] = "idle" /\ pending # {}
        /\ \E C \in SUBSET pending :
             /\ Cardinality(C) <= BatchLimit
             /\ C # pending => Cardinality(C) = BatchLimit
             /\ batch' = [batch EXCEPT ![w] = C]
        /\ phase' = [phase EXCEPT ![w] = "selected"]
        /\ UNCHANGED <<status, uploader, current, found, lost, faults>>

\* Its UPDATE, and the commit.
Claim(w) ==
    /\ phase[w] = "selected"
    /\ SetStatus(batch[w], "scanning")
    /\ phase' = [phase EXCEPT ![w] = "claimed"]
    /\ UNCHANGED <<uploader, batch, current, found, lost, faults>>

\* The rows are read again; some may be gone.
Fetch(w) ==
    /\ phase[w] = "claimed"
    /\ batch' = [batch EXCEPT ![w] = {c \in @ : Stored(c)}]
    /\ phase' = [phase EXCEPT ![w] = "scanning"]
    /\ UNCHANGED <<status, uploader, current, found, lost, faults>>

StartScan(w) ==
    /\ phase[w] = "scanning" /\ current[w] = NoContent
    /\ \E c \in batch[w] : current' = [current EXCEPT ![w] = c]
    /\ UNCHANGED <<status, uploader, phase, batch, found, lost, faults>>

EndScan(w, c) ==
    /\ current[w] = c /\ c # NoContent
    /\ current' = [current EXCEPT ![w] = NoContent]
    /\ batch' = [batch EXCEPT ![w] = @ \ {c}]
    /\ UNCHANGED <<uploader, phase>>

\* Mutant: a threat is taken note of, the row is left alone.
JudgeNot(w, c) ==
    /\ EndScan(w, c)
    /\ found' = found \cup ({c} \cap Threats)
    /\ UNCHANGED <<status, lost, faults>>

Judge(w, c) == EndScan(w, c) /\ Report(c) /\ UNCHANGED <<lost, faults>>

\* Mutant: the row is left as it is.
RetryNot(w, c) ==
    /\ EndScan(w, c) /\ faults < MaxFaults
    /\ faults' = faults + 1
    /\ UNCHANGED <<status, found, lost>>

\* The object cannot be read, or clamd not be reached.
Retry(w, c) ==
    /\ EndScan(w, c) /\ faults < MaxFaults
    /\ faults' = faults + 1
    /\ SetStatus({c}, "pending")
    /\ UNCHANGED <<found, lost>>

\* clamd answers with an error: the worker does nothing.  A result that cannot be
\* written is as good as lost, too.
Swallow(w, c) == EndScan(w, c) /\ lost' = lost \cup {c} /\ UNCHANGED <<status, found, faults>>

EndBatch(w) ==
    /\ phase[w] = "scanning" /\ batch[w] = {}
    /\ phase' = [phase EXCEPT ![w] = "idle"]
    /\ UNCHANGED <<status, uploader, batch, current, found, lost, faults>>

-----------------------------------------------------------------------------
\* perform_cleanup deletes a content that has been infected for five minutes.
Purge(w, c) ==
    /\ phase[w] = "idle"
    /\ status[c] = "infected"
    /\ status' = [status EXCEPT ![c] = "deleted"]
    /\ UNCHANGED <<uploader, phase, batch, current, found, lost, faults>>

\* The last file that refers to the content is deleted.
Release(c) ==
    /\ Stored(c)
    /\ status' = [status EXCEPT ![c] = "deleted"]
    /\ UNCHANGED <<uploader, phase, batch, current, found, lost, faults>>

\* The process of a worker dies, or its transaction or the read of the claimed rows
\* fails: what has been claimed is forgotten, what has not is still pending.
WorkerCrash(w) ==
    /\ phase[w] # "idle" /\ faults < MaxFaults
    /\ faults' = faults + 1
    /\ lost' = IF phase[w] = "selected" THEN lost ELSE lost \cup batch[w]
    /\ phase' = [phase EXCEPT ![w] = "idle"]
    /\ batch' = [batch EXCEPT ![w] = {}]
    /\ current' = [current EXCEPT ![w] = NoContent]
    /\ UNCHANGED <<status, uploader, found>>

\* The request ends before it has claimed the row, or the spawned scan dies.
UploadCrash(c) ==
    /\ uploader[c] \in {"inserted", "scanning"} /\ faults < MaxFaults
    /\ faults' = faults + 1
    /\ lost' = IF uploader[c] = "scanning" THEN lost \cup {c} ELSE lost
    /\ uploader' = [uploader EXCEPT ![c] = "done"]
    /\ UNCHANGED <<status, phase, batch, current, found>>

WorkerStep(w) == Select(w) \/ Claim(w) \/ Fetch(w) \/ StartScan(w) \/ EndBatch(w)
ScanStep(w, c) == Judge(w, c) \/ Retry(w, c) \/ Swallow(w, c)
UploadStep(c) == ClaimUpload(c) \/ JudgeUpload(c) \/ UploadScanError(c)

ScanNext ==
    \/ \E c \in Contents : InsertRow(c) \/ UploadStep(c) \/ Release(c) \/ UploadCrash(c)
    \/ \E w \in Workers : WorkerStep(w) \/ WorkerCrash(w)
    \/ \E w \in Workers, c \in Contents : ScanStep(w, c) \/ Purge(w, c)

ScanSpec == ScanInit /\ [][ScanNext]_scanVars

(***************************************************************************)
(* The runtime runs every task on, clamd goes on reading and answers, or   *)
(* the connection ends, and a worker's interval ticks again when it is     *)
(* idle.                                                                   *)
(***************************************************************************)
ScanFairness ==
    /\ \A c \in Contents : WF_scanVars(UploadStep(c))
    /\ \A w \in Workers : WF_scanVars(WorkerStep(w))
    /\ \A w \in Workers, c \in Contents : WF_scanVars(ScanStep(w, c)) /\ WF_scanVars(Purge(w, c))

-----------------------------------------------------------------------------
\* Some task will still write the result of a scan of c.
Scanned(c) == uploader[c] = "scanning" \/ \E w \in Workers : c \in batch[w]

\* A row that says scanning is being scanned, however claims and results of
\* several scanners overtake each other; or a scan of it has come to nothing, and
\* no worker will look at it again.
ScanningIsScanned ==
    \A c \in Contents : status[c] = "scanning" => Scanned(c) \/ c \in lost

\* A content in which a threat was found is blocked, is being scanned again or
\* waits for it, or a later scan of it has come to nothing.
ThreatNotForgotten ==
    \A c \in found : Stored(c) =>
        status[c] \in {"infected", "pending"} \/ Scanned(c) \/ c \in lost

\* Once failures end, every content settles: it is clean and no threat, or it has
\* been deleted; unless a scan of it has come to nothing.  This includes the rows
\* whose upload died before it had claimed them, and those reset to pending.
EventuallyJudged ==
    \A c \in Contents :
        <>[](status[c] \in {"none", "deleted"} \/ (status[c] = "clean" /\ c \notin Threats) \/ c \in lost)

\* Claims and results leave no row that only says it is scanned (worker.rs:99).
ScansInOrder == ScanTypeOK /\ ScanningIsScanned
=============================================================================
