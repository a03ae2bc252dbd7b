---------------------------- MODULE StorageTasks ----------------------------
(***************************************************************************)
(* The requests of StorageLifecycle, one statement at a time.              *)
(*                                                                         *)
(* A task is a request handler or the background worker.  Between two      *)
(* statements any other task may run, and what a task has read grows       *)
(* stale: ref_count is read by one statement and written by another, the   *)
(* file to merge with is looked up before it is written, and the bucket is *)
(* no part of any transaction.                                             *)
(*                                                                         *)
(* PostgreSQL (READ COMMITTED) is external: a statement sees what is       *)
(* committed and its own transaction's writes; a row that an open          *)
(* transaction has written is locked for the other writers; storage_files  *)
(* has UNIQUE (hash), and user_files.storage_file_id refers to it with ON  *)
(* DELETE SET NULL; of transactions that wait for each other one is        *)
(* aborted.  The bucket is external too, and its staging area left out.    *)
(* Waiting for a user's bulk lock is the subject of StorageLocks.          *)
(***************************************************************************)
EXTENDS Integers, FiniteSetsExt

CONSTANTS
    Tasks, Users, Folders, Names,
    Hashes,      \* contents
    Items, Ids,  \* user_files ids and storage_files ids; an Id in no hand is used again
    NoHash, NoId, NoFile, NoRow, NoKey, NoPlace, NoUser,
    Expiries,    \* bound: whether uploads are with an expiry (TRUE), without, or either
    MaxRef,      \* bound: no upload or copy begins that would count further
    MaxRequests, \* bound on the requests of a behaviour
    MaxFaults    \* bound on the requests that fail or die half-way

Places == [user : Users, folder : Folders, name : Names]
Keys == Hashes \X Names
NoItem == NoFile

FileRows == [at : Places, blob : Ids \cup {NoId}, live : BOOLEAN, expires : BOOLEAN]
StorageRows == [hash : Hashes, count : Int, name : Names, infected : BOOLEAN]

ASSUME ItemsAssumption == IsFiniteSet(Items)
ASSUME ExpiriesAssumption == Expiries \subseteq BOOLEAN
ASSUME MaxRefAssumption == MaxRef \in Nat \ {0}
ASSUME NullAssumption ==
    /\ NoFile \notin FileRows \cup Items /\ NoRow \notin StorageRows
    /\ NoFile \notin [at : Places, blob : Hashes \cup {NoHash}, live : BOOLEAN, expires : BOOLEAN]
    /\ NoRow \notin [count : Int, name : Names, infected : BOOLEAN]
    /\ NoId \notin Ids /\ NoHash \notin Hashes

\* One row of a table, and a table with the rows f written over it.
Row(key, value) == [k \in {key} |-> value]
Over(f, table) == [k \in DOMAIN f \cup DOMAIN table |-> IF k \in DOMAIN f THEN f[k] ELSE table[k]]

BulkOps == {"bulk_delete", "bulk_move", "bulk_copy"}
LoopOps == {"delete_item", "expire"} \cup BulkOps
Ops == {"upload", "link", "delete_item", "expire", "rename", "purge", "scan"} \cup BulkOps

VARIABLES
    files, rows,  \* user_files and storage_files, as committed
    objects,      \* the keys in the bucket
    draft,        \* per task: is a transaction open, and the rows it has written
    step,         \* per task: its next statement
    req,          \* per task: its arguments and local variables
    spent,        \* how many requests have begun, how many have failed half-way
    settled,      \* history: the tables and the bucket when the server was last idle
    disturbed     \* history: contents two overlapping requests had in hand, or a failed one

vars == <<files, rows, objects, draft, step, req, spent, settled, disturbed>>

NoDraft == [open |-> FALSE, files |-> <<>>, rows |-> <<>>]
Begun == [NoDraft EXCEPT !.open = TRUE]

\* Local variables: the user whose bulk_lock is held, the storage row in hand (id), the one a merge overwrites
\* (old), the file in hand (item), the file to merge with (target), the count to
\* write, the S3 key to delete, and for each item still to do the storage id
\* that was read with it.
NoReq == [op |-> "none", lock |-> NoUser, at |-> NoPlace, hash |-> NoHash, expires |-> FALSE,
          id |-> NoId, old |-> NoId, item |-> NoItem, target |-> NoItem, count |-> 0,
          key |-> NoKey, todo |-> <<>>, touched |-> {}]

Steps == {"idle", "find", "find_linked", "store", "insert_row", "refind", "raise", "find_file",
          "update_file", "insert_file", "read_count", "lower", "delete_object", "delete_row",
          "next", "soft_delete", "insert_copy", "copy_count", "move_file", "find_target",
          "merge", "retire", "rename_file", "purge_object", "purge_files", "purge_row", "report"}

TypeOK ==
    /\ files \in [Items -> FileRows \cup {NoFile}]
    /\ rows \in [Ids -> StorageRows \cup {NoRow}]
    /\ objects \subseteq Keys
    /\ step \in [Tasks -> Steps]
    /\ \A t \in Tasks :
         /\ DOMAIN draft[t].files \subseteq Items /\ DOMAIN draft[t].rows \subseteq Ids
         /\ \A i \in DOMAIN draft[t].files : draft[t].files[i] \in FileRows
         /\ \A b \in DOMAIN draft[t].rows : draft[t].rows[b] \in StorageRows \cup {NoRow}
         /\ req[t].op = "none" <=> step[t] = "idle"
         /\ draft[t].open => req[t].op \in BulkOps \cup {"delete_item"}
         /\ ~draft[t].open => draft[t] = NoDraft
    /\ disturbed \subseteq Hashes

-----------------------------------------------------------------------------
Idle(t) == step[t] = "idle"

\* The tables as task t sees them.
Files(t) == Over(draft[t].files, files)
Rows(t) == Over(draft[t].rows, rows)

Live(fs, i) == fs[i] # NoFile /\ fs[i].live
LiveAt(p) == {i \in Items : Live(files, i) /\ files[i].at = p}
OwnedBy(u) == {i \in Items : files[i] # NoFile /\ files[i].at.user = u}
Holding(h) == {b \in Ids : rows[b] # NoRow /\ rows[b].hash = h}
References(fs, b) == {i \in Items : Live(fs, i) /\ fs[i].blob = b}
KeyOf(row) == <<row.hash, row.name>>

\* The foreign key lets a file refer to b.
MayRefer(t, b) == b \in {NoId} \cup {c \in Ids : Rows(t)[c] # NoRow}

\* The row ids in a task's hand, whose reuse would be taken for the old row.
InHand(t) == {req[t].id, req[t].old} \cup {req[t].todo[i] : i \in DOMAIN req[t].todo}

-----------------------------------------------------------------------------
\* The rows that the next statement of t writes or, for a foreign key, locks.
ItemsNeeded(t) ==
    CASE step[t] \in {"soft_delete", "move_file", "retire", "rename_file"} -> {req[t].item}
      [] step[t] \in {"update_file", "merge"} -> {req[t].target}
      [] step[t] \in {"delete_row", "purge_row"} ->
            {i \in Items : files[i] # NoFile /\ files[i].blob = req[t].id}
            \cup {i \in Items : \E u \in Tasks \ {t} :
                    i \in DOMAIN draft[u].files /\ draft[u].files[i].blob = req[t].id}
      [] step[t] = "purge_files" -> {i \in Items : files[i] # NoFile /\ files[i].blob = req[t].id}
      [] OTHER -> {}

IdsNeeded(t) ==
    CASE step[t] \in {"raise", "lower", "delete_row", "purge_row", "report"} -> {req[t].id}
      [] step[t] = "insert_row" -> Holding(req[t].hash)
      [] OTHER -> {}

\* The row a new reference points to must not be going away.
Referred(t) == IF step[t] \in {"update_file", "insert_file", "insert_copy", "merge"}
               THEN {req[t].id} \ {NoId} ELSE {}

\* The next statement of t waits for the end of u's transaction.
WaitsFor(t, u) ==
    \/ ItemsNeeded(t) \cap DOMAIN draft[u].files # {}
    \/ IdsNeeded(t) \cap DOMAIN draft[u].rows # {}
    \/ \E b \in Referred(t) \cap DOMAIN draft[u].rows : draft[u].rows[b] = NoRow

RowWaits == {e \in Tasks \X Tasks : e[1] # e[2] /\ WaitsFor(e[1], e[2])}

\* The cycles of the wait-for graph with the edges W: the smallest sets of tasks
\* of which each waits for another one.
Cycles(W) ==
    LET Closed(C) == C # {} /\ \A t \in C : \E u \in C : <<t, u>> \in W
    IN  {C \in SUBSET Tasks : Closed(C) /\ \A D \in SUBSET C : Closed(D) => D = C}

Waits(t) == \E u \in Tasks \ {t} : WaitsFor(t, u)

\* Statement s is the next of task t, and the database lets it run.
At(t, s) == step[t] = s /\ ~Waits(t)

-----------------------------------------------------------------------------
\* The contents whose count or bytes a request with local variables r deals with.
Contents(r) ==
    LET ids == {r.id, r.old} \cup {r.todo[i] : i \in DOMAIN r.todo}
    IN  IF r.op = "scan" THEN {}
        ELSE ({r.hash} \ {NoHash}) \cup {rows[b].hash : b \in {c \in ids \ {NoId} : rows[c] # NoRow}}

\* Task t goes on to statement s with local variables r.
Goto(t, s, r) ==
    LET touched == req[t].touched \cup Contents(r)
    IN  /\ step' = [step EXCEPT ![t] = s]
        /\ req' = [req EXCEPT ![t] = [r EXCEPT !.touched = touched]]
        /\ disturbed' = disturbed \cup
              {h \in touched : \E u \in Tasks \ {t} : h \in req[u].touched}
        /\ UNCHANGED <<spent, settled>>

End(t) ==
    /\ step' = [step EXCEPT ![t] = "idle"]
    /\ req' = [req EXCEPT ![t] = NoReq]
    /\ UNCHANGED <<spent, settled>>

Finish(t) == End(t) /\ UNCHANGED disturbed

\* The request returns an error, or its task dies: an open transaction is rolled
\* back, statements outside of one have had their effect.
GiveUp(t) ==
    /\ End(t)
    /\ disturbed' = disturbed \cup req[t].touched
    /\ draft' = [draft EXCEPT ![t] = NoDraft]
    /\ UNCHANGED <<files, rows, objects>>

\* fs and rs map the rows that a statement of t writes to their new values.
Write(t, fs, rs) ==
    IF draft[t].open
    THEN /\ draft' = [draft EXCEPT ![t].files = Over(fs, @), ![t].rows = Over(rs, @)]
         /\ UNCHANGED <<files, rows>>
    ELSE /\ files' = Over(fs, files)
         /\ rows' = Over(rs, rows)
         /\ UNCHANGED draft

WriteFile(t, i, row) == Write(t, Row(i, row), <<>>)
WriteRow(t, b, row) == Write(t, <<>>, Row(b, row))
ReadOnly == UNCHANGED <<files, rows, objects, draft>>

\* decrement_ref_count is over; its callers differ in what they do of an error.
Released(t) == IF req[t].op \in LoopOps
               THEN Goto(t, "next", [req[t] EXCEPT !.id = NoId, !.item = NoItem])
               ELSE Finish(t)

ReleaseFails(t) == IF draft[t].open THEN GiveUp(t) ELSE Released(t) /\ ReadOnly

\* Mutant: the merge releases the content that the file has now.
ReleaseOldWrong(t) == IF req[t].old \notin {NoId, req[t].id}
                      THEN Goto(t, "read_count", req[t])
                      ELSE Finish(t)

\* The old content of a merged file is released if it is another one.
ReleaseOld(t) == IF req[t].old \notin {NoId, req[t].id}
                 THEN Goto(t, "read_count", [req[t] EXCEPT !.id = req[t].old])
                 ELSE Finish(t)

-----------------------------------------------------------------------------
\* Requests arrive.
Begin(t, s, r, d) ==
    /\ Idle(t)
    /\ spent.requests < MaxRequests
    /\ spent' = [spent EXCEPT !.requests = @ + 1]
    /\ settled' = IF \A u \in Tasks : Idle(u)
                  THEN [files |-> files, rows |-> rows, objects |-> objects] ELSE settled
    /\ LET touched == Contents(r)
       IN  /\ req' = [req EXCEPT ![t] = [r EXCEPT !.touched = touched]]
           /\ disturbed' = disturbed \cup
                 {h \in touched : \E u \in Tasks : h \in req[u].touched}
    /\ step' = [step EXCEPT ![t] = s]
    /\ draft' = [draft EXCEPT ![t] = d]
    /\ UNCHANGED <<files, rows, objects>>

FreshItem(i) ==
    /\ files[i] = NoFile
    /\ \A u \in Tasks : i \notin DOMAIN draft[u].files \cup DOMAIN req[u].todo
                                   \cup {req[u].item, req[u].target}

\* How many items the request of t may still insert.
Wanted(t) == CASE req[t].op \in {"upload", "link"} -> 1
               [] req[t].op = "bulk_copy" -> Cardinality(DOMAIN req[t].todo) + 1
               [] OTHER -> 0

\* Bounds: a request begins only if there is room for the n references that it adds.
RoomFor(n) ==
    /\ \A b \in Ids : rows[b] # NoRow => rows[b].count + n <= MaxRef
    /\ n + MapThenSumSet(Wanted, Tasks) <= Cardinality({i \in Items : FreshItem(i)})

\* KeyedMutex: one folder or bulk operation of a user at a time.
BulkLockFree(u) == \A t \in Tasks : req[t].lock # u

\* The content of the request has reached the staging area, and its hash is known.
BeginUpload(t, p, h, e) ==
    /\ RoomFor(1)
    /\ Begin(t, "find", [NoReq EXCEPT !.op = "upload", !.at = p, !.hash = h, !.expires = e], NoDraft)

BeginLink(t, p, b, e) ==
    /\ RoomFor(1) /\ rows[b] # NoRow
    /\ Begin(t, "find_linked", [NoReq EXCEPT !.op = "link", !.at = p, !.id = b, !.expires = e],
             NoDraft)

\* delete_item has read the item before the transaction begins.
BeginDeleteItem(t, i) ==
    /\ Live(files, i)
    /\ Begin(t, "next", [NoReq EXCEPT !.op = "delete_item", !.todo = Row(i, files[i].blob)], Begun)

BeginBulk(t, op, u, D, p) ==
    /\ D # {} /\ D \subseteq OwnedBy(u) /\ BulkLockFree(u)
    /\ op = "bulk_copy" => RoomFor(Cardinality(D))
    /\ Begin(t, "next", [NoReq EXCEPT !.op = op, !.lock = u, !.at = p,
                                !.todo = [i \in D |-> files[i].blob]], Begun)

\* perform_cleanup, step 1, reads its batch.
BeginExpire(t) ==
    LET due == {i \in Items : Live(files, i) /\ files[i].expires}
    IN  /\ due # {}
        /\ Begin(t, "next", [NoReq EXCEPT !.op = "expire", !.todo = [i \in due |-> files[i].blob]],
                 NoDraft)

BeginRename(t, i, p) ==
    /\ Live(files, i) /\ p.user = files[i].at.user
    /\ Begin(t, "find_target",
             [NoReq EXCEPT !.op = "rename", !.at = p, !.item = i, !.id = files[i].blob], NoDraft)

\* A scan of a stored content has found a threat.
BeginReport(t, b) ==
    /\ rows[b] # NoRow /\ ~rows[b].infected
    /\ Begin(t, "report", [NoReq EXCEPT !.op = "scan", !.id = b], NoDraft)

\* perform_cleanup, step 2, one content.
BeginPurge(t, b) ==
    /\ rows[b] # NoRow /\ rows[b].infected
    /\ Begin(t, "purge_object", [NoReq EXCEPT !.op = "purge", !.id = b, !.key = KeyOf(rows[b])],
             NoDraft)

-----------------------------------------------------------------------------
\* process_upload and link_existing_file: get a storage row to refer to.
FindContent(t) ==
    /\ At(t, "find")
    /\ \/ \E b \in Holding(req[t].hash) :
            Goto(t, "raise", [req[t] EXCEPT !.id = b, !.count = rows[b].count + 1])
       \/ Holding(req[t].hash) = {} /\ Goto(t, "store", req[t])
    /\ ReadOnly

FindLinked(t) ==
    /\ At(t, "find_linked")
    /\ \/ /\ rows[req[t].id] # NoRow
          /\ Goto(t, "raise", [req[t] EXCEPT !.count = rows[req[t].id].count + 1])
          /\ ReadOnly
       \/ rows[req[t].id] = NoRow /\ GiveUp(t)

\* copy_object from the staging area.
StoreObject(t) ==
    /\ At(t, "store")
    /\ objects' = objects \cup {<<req[t].hash, req[t].at.name>>}
    /\ Goto(t, "insert_row", req[t])
    /\ UNCHANGED <<files, rows, draft>>

\* A duplicate hash sends the request back to the row that is there.
InsertRow(t) ==
    /\ At(t, "insert_row")
    /\ \/ /\ Holding(req[t].hash) # {}
          /\ Goto(t, "refind", req[t])
          /\ UNCHANGED <<files, rows, draft>>
       \/ /\ Holding(req[t].hash) = {}
          /\ \E b \in Ids :
               /\ rows[b] = NoRow /\ \A u \in Tasks : b \notin InHand(u) \cup DOMAIN draft[u].rows
               /\ WriteRow(t, b, [hash |-> req[t].hash, count |-> 1, name |-> req[t].at.name,
                                  infected |-> FALSE])
               /\ Goto(t, "find_file", [req[t] EXCEPT !.id = b])
    /\ UNCHANGED objects

Refind(t) ==
    /\ At(t, "refind")
    /\ \/ \E b \in Holding(req[t].hash) :
            /\ Goto(t, "raise", [req[t] EXCEPT !.id = b, !.count = rows[b].count + 1])
            /\ ReadOnly
       \/ Holding(req[t].hash) = {} /\ GiveUp(t)

\* The count read before, plus one, is written.
Raise(t) ==
    /\ At(t, "raise")
    /\ \/ /\ Rows(t)[req[t].id] # NoRow
          /\ WriteRow(t, req[t].id, [Rows(t)[req[t].id] EXCEPT !.count = req[t].count])
          /\ IF req[t].op = "bulk_copy" THEN Released(t) ELSE Goto(t, "find_file", req[t])
          /\ UNCHANGED objects
       \/ Rows(t)[req[t].id] = NoRow /\ GiveUp(t)

\* Then write the file: merge into the live one at the same place, or insert.
FindFile(t) ==
    /\ At(t, "find_file")
    /\ \/ \E i \in LiveAt(req[t].at) :
            Goto(t, "update_file", [req[t] EXCEPT !.target = i, !.old = files[i].blob])
       \/ LiveAt(req[t].at) = {} /\ Goto(t, "insert_file", req[t])
    /\ ReadOnly

\* Mutant: the content that the merged file had is not released.
UpdateFileKeepingOld(t) ==
    LET i == req[t].target
    IN  /\ At(t, "update_file")
        /\ \/ /\ files[i] # NoFile /\ MayRefer(t, req[t].id)
              /\ WriteFile(t, i, [files[i] EXCEPT !.blob = req[t].id, !.expires = req[t].expires])
              /\ Finish(t)
              /\ UNCHANGED objects
           \/ ~(files[i] # NoFile /\ MayRefer(t, req[t].id)) /\ GiveUp(t)

UpdateFile(t) ==
    LET i == req[t].target
    IN  /\ At(t, "update_file")
        /\ \/ /\ files[i] # NoFile /\ MayRefer(t, req[t].id)
              /\ WriteFile(t, i, [files[i] EXCEPT !.blob = req[t].id, !.expires = req[t].expires])
              /\ ReleaseOld(t)
              /\ UNCHANGED objects
           \/ ~(files[i] # NoFile /\ MayRefer(t, req[t].id)) /\ GiveUp(t)

InsertFile(t) ==
    /\ At(t, "insert_file")
    /\ \/ /\ MayRefer(t, req[t].id)
          /\ \E i \in Items :
               /\ FreshItem(i)
               /\ WriteFile(t, i, [at |-> req[t].at, blob |-> req[t].id, live |-> TRUE,
                                   expires |-> req[t].expires])
          /\ Finish(t)
          /\ UNCHANGED objects
       \/ ~MayRefer(t, req[t].id) /\ GiveUp(t)

-----------------------------------------------------------------------------
\* decrement_ref_count.
ReadCount(t) ==
    /\ At(t, "read_count")
    /\ \/ /\ Rows(t)[req[t].id] # NoRow
          /\ Goto(t, "lower", [req[t] EXCEPT !.count = Rows(t)[req[t].id].count - 1])
          /\ ReadOnly
       \/ Rows(t)[req[t].id] = NoRow /\ ReleaseFails(t)

\* Mutant: the content goes when one reference is left.
LowerEarly(t) ==
    LET row == Rows(t)[req[t].id]
    IN  /\ At(t, "lower")
        /\ \/ /\ row # NoRow
              /\ WriteRow(t, req[t].id, [row EXCEPT !.count = req[t].count])
              /\ IF req[t].count <= 1
                 THEN Goto(t, "delete_object", [req[t] EXCEPT !.key = KeyOf(row)])
                 ELSE Released(t)
              /\ UNCHANGED objects
           \/ row = NoRow /\ ReleaseFails(t)

Lower(t) ==
    LET row == Rows(t)[req[t].id]
    IN  /\ At(t, "lower")
        /\ \/ /\ row # NoRow
              /\ WriteRow(t, req[t].id, [row EXCEPT !.count = req[t].count])
              /\ IF req[t].count <= 0
                 THEN Goto(t, "delete_object", [req[t] EXCEPT !.key = KeyOf(row)])
                 ELSE Released(t)
              /\ UNCHANGED objects
           \/ row = NoRow /\ ReleaseFails(t)

DeleteObject(t) ==
    /\ At(t, "delete_object")
    /\ objects' = objects \ {req[t].key}
    /\ Goto(t, "delete_row", req[t])
    /\ UNCHANGED <<files, rows, draft>>

\* The foreign key sets what still refers to the row to NULL.
DeleteRow(t) ==
    LET b == req[t].id
        unlinked == {i \in Items : Files(t)[i] # NoFile /\ Files(t)[i].blob = b}
    IN  /\ At(t, "delete_row")
        /\ Write(t, [i \in unlinked |-> [Files(t)[i] EXCEPT !.blob = NoId]], Row(b, NoRow))
        /\ Released(t)
        /\ UNCHANGED objects

-----------------------------------------------------------------------------
\* The loops over several items.  A deleted item is left out by bulk_delete, an
\* item that is gone stops the others.
NextItem(t) ==
    /\ At(t, "next")
    /\ \E i \in DOMAIN req[t].todo :
         LET op == req[t].op
             seen == Files(t)[i]
             r == [req[t] EXCEPT !.item = i, !.todo = Restrict(@, DOMAIN @ \ {i})]
         IN  \/ /\ op \in {"delete_item", "expire"}
                /\ Goto(t, "soft_delete", [r EXCEPT !.id = req[t].todo[i]])
                /\ ReadOnly
             \/ /\ op = "bulk_delete"
                /\ IF Live(Files(t), i) THEN Goto(t, "soft_delete", [r EXCEPT !.id = seen.blob])
                   ELSE Goto(t, "next", [r EXCEPT !.item = NoItem])
                /\ ReadOnly
             \/ /\ op \in {"bulk_move", "bulk_copy"} /\ seen # NoFile
                /\ IF op = "bulk_move" THEN Goto(t, "move_file", r)
                   ELSE Goto(t, "insert_copy", [r EXCEPT !.id = seen.blob])
                /\ ReadOnly
             \/ op \in {"bulk_move", "bulk_copy"} /\ seen = NoFile /\ GiveUp(t)

\* Mutant: the transaction is left open.
CommitKeepingLocks(t) ==
    /\ At(t, "next") /\ req[t].todo = <<>>
    /\ files' = Files(t) /\ rows' = Rows(t)
    /\ UNCHANGED draft
    /\ Finish(t)
    /\ UNCHANGED objects

\* The loop is over: a transaction commits, or the worker's batch is done.
Commit(t) ==
    /\ At(t, "next") /\ req[t].todo = <<>>
    /\ files' = Files(t) /\ rows' = Rows(t)
    /\ draft' = [draft EXCEPT ![t] = NoDraft]
    /\ Finish(t)
    /\ UNCHANGED objects

\* soft_delete_user_file, up to the release of the content that the caller read.
SoftDelete(t) ==
    LET row == Files(t)[req[t].item]
    IN  /\ At(t, "soft_delete")
        /\ \/ /\ row # NoFile
              /\ WriteFile(t, req[t].item, [row EXCEPT !.live = FALSE])
              /\ IF req[t].id = NoId THEN Released(t) ELSE Goto(t, "read_count", req[t])
              /\ UNCHANGED objects
           \/ row = NoFile /\ ReleaseFails(t)

\* copy_recursive: the new file first, under another name, then the count.
InsertCopy(t) ==
    LET source == Files(t)[req[t].item]
    IN  /\ At(t, "insert_copy")
        /\ \/ /\ MayRefer(t, req[t].id)
              /\ \E i \in Items, n \in Names :
                   /\ FreshItem(i)
                   /\ WriteFile(t, i, [at |-> [req[t].at EXCEPT !.name = n], blob |-> req[t].id,
                                       live |-> TRUE, expires |-> FALSE])
              /\ IF req[t].id = NoId THEN Released(t) ELSE Goto(t, "copy_count", req[t])
              /\ UNCHANGED objects
           \/ ~MayRefer(t, req[t].id) /\ GiveUp(t)

CopyCount(t) ==
    /\ At(t, "copy_count")
    /\ Goto(t, "raise", [req[t] EXCEPT !.count = Rows(t)[req[t].id].count + 1])
    /\ ReadOnly

MoveFile(t) ==
    LET row == Files(t)[req[t].item]
    IN  /\ At(t, "move_file")
        /\ \/ /\ row # NoFile
              /\ WriteFile(t, req[t].item, [row EXCEPT !.at.folder = req[t].at.folder])
              /\ Released(t)
              /\ UNCHANGED objects
           \/ row = NoFile /\ GiveUp(t)

-----------------------------------------------------------------------------
\* rename_item of a file.
FindTarget(t) ==
    LET others == LiveAt(req[t].at) \ {req[t].item}
    IN  /\ At(t, "find_target")
        /\ \/ \E j \in others : Goto(t, "merge", [req[t] EXCEPT !.target = j, !.old = files[j].blob])
           \/ others = {} /\ Goto(t, "rename_file", req[t])
        /\ ReadOnly

MergeInto(t) ==
    LET j == req[t].target
    IN  /\ At(t, "merge")
        /\ \/ /\ files[j] # NoFile /\ MayRefer(t, req[t].id)
              /\ WriteFile(t, j, [files[j] EXCEPT !.blob = req[t].id])
              /\ Goto(t, "retire", req[t])
              /\ UNCHANGED objects
           \/ ~(files[j] # NoFile /\ MayRefer(t, req[t].id)) /\ GiveUp(t)

Retire(t) ==
    LET i == req[t].item
    IN  /\ At(t, "retire")
        /\ \/ /\ files[i] # NoFile
              /\ WriteFile(t, i, [files[i] EXCEPT !.live = FALSE])
              /\ ReleaseOld(t)
              /\ UNCHANGED objects
           \/ files[i] = NoFile /\ GiveUp(t)

RenameFile(t) ==
    LET i == req[t].item
    IN  /\ At(t, "rename_file")
        /\ \/ /\ files[i] # NoFile
              /\ WriteFile(t, i, [files[i] EXCEPT !.at = req[t].at])
              /\ Finish(t)
              /\ UNCHANGED objects
           \/ files[i] = NoFile /\ GiveUp(t)

-----------------------------------------------------------------------------
\* A scan writes its result (ScanPipeline has the scans); no other column.
Report(t) ==
    LET b == req[t].id
    IN  /\ At(t, "report")
        /\ IF rows[b] = NoRow THEN UNCHANGED <<files, rows, draft>>
           ELSE WriteRow(t, b, [rows[b] EXCEPT !.infected = TRUE])
        /\ Finish(t)
        /\ UNCHANGED objects

\* delete_storage_file.
PurgeObject(t) ==
    /\ At(t, "purge_object")
    /\ objects' = objects \ {req[t].key}
    /\ Goto(t, "purge_files", req[t])
    /\ UNCHANGED <<files, rows, draft>>

PurgeFiles(t) ==
    /\ At(t, "purge_files")
    /\ files' = [i \in Items |-> IF files[i] # NoFile /\ files[i].blob = req[t].id
                                 THEN NoFile ELSE files[i]]
    /\ Goto(t, "purge_row", req[t])
    /\ UNCHANGED <<rows, objects, draft>>

PurgeRow(t) ==
    LET unlinked == {i \in Items : files[i] # NoFile /\ files[i].blob = req[t].id}
    IN  /\ At(t, "purge_row")
        /\ Write(t, [i \in unlinked |-> [files[i] EXCEPT !.blob = NoId]], Row(req[t].id, NoRow))
        /\ Finish(t)
        /\ UNCHANGED objects

-----------------------------------------------------------------------------
\* The database ends one of the transactions that wait for each other.
AbortDeadlocked(t) ==
    /\ draft[t].open /\ Waits(t)
    /\ \E C \in Cycles(RowWaits) : t \in C
    /\ GiveUp(t)

\* A statement fails, the client goes away, or the process dies.
Fail(t) ==
    /\ ~Idle(t) /\ spent.faults < MaxFaults
    /\ step' = [step EXCEPT ![t] = "idle"]
    /\ req' = [req EXCEPT ![t] = NoReq]
    /\ draft' = [draft EXCEPT ![t] = NoDraft]
    /\ spent' = [spent EXCEPT !.faults = @ + 1]
    /\ disturbed' = disturbed \cup req[t].touched
    /\ UNCHANGED <<files, rows, objects, settled>>

-----------------------------------------------------------------------------
Init ==
    /\ files = [i \in Items |-> NoFile]
    /\ rows = [b \in Ids |-> NoRow]
    /\ objects = {}
    /\ draft = [t \in Tasks |-> NoDraft]
    /\ step = [t \in Tasks |-> "idle"]
    /\ req = [t \in Tasks |-> NoReq]
    /\ spent = [requests |-> 0, faults |-> 0]
    /\ settled = [files |-> files, rows |-> rows, objects |-> objects]
    /\ disturbed = {}

Arrive(t) ==
    \/ \E p \in Places, h \in Hashes, e \in Expiries : BeginUpload(t, p, h, e)
    \/ \E p \in Places, b \in Ids, e \in Expiries : BeginLink(t, p, b, e)
    \/ \E i \in Items : BeginDeleteItem(t, i)
    \/ \E u \in Users : \E D \in SUBSET OwnedBy(u) : BeginBulk(t, "bulk_delete", u, D, NoPlace)
    \/ \E p \in Places : \E D \in SUBSET OwnedBy(p.user), op \in {"bulk_move", "bulk_copy"} :
         BeginBulk(t, op, p.user, D, p)
    \/ BeginExpire(t)
    \/ \E i \in Items, p \in Places : BeginRename(t, i, p)
    \/ \E b \in Ids : BeginReport(t, b)
    \/ \E b \in Ids : BeginPurge(t, b)

Work(t) ==
    \/ FindContent(t) \/ FindLinked(t) \/ StoreObject(t) \/ InsertRow(t) \/ Refind(t) \/ Raise(t)
    \/ FindFile(t) \/ UpdateFile(t) \/ InsertFile(t)
    \/ ReadCount(t) \/ Lower(t) \/ DeleteObject(t) \/ DeleteRow(t)
    \/ NextItem(t) \/ Commit(t) \/ SoftDelete(t) \/ InsertCopy(t) \/ CopyCount(t) \/ MoveFile(t)
    \/ FindTarget(t) \/ MergeInto(t) \/ Retire(t) \/ RenameFile(t)
    \/ Report(t) \/ PurgeObject(t) \/ PurgeFiles(t) \/ PurgeRow(t)

Next == \E t \in Tasks : Arrive(t) \/ Work(t) \/ AbortDeadlocked(t) \/ Fail(t)

Spec == Init /\ [][Next]_vars

-----------------------------------------------------------------------------
\* A storage row counts at least its live references, its bytes are there.
Sound(b) ==
    /\ rows[b].count >= Cardinality(References(files, b))
    /\ KeyOf(rows[b]) \in objects

\* What overlapping or failing requests do to the counts and the bucket is
\* confined to the contents they met on: one request alone leaves every content
\* sound, whatever the others do elsewhere.
InterferenceConfined ==
    \A b \in Ids : rows[b] # NoRow =>
        \/ rows[b].hash \in disturbed
        \/ \E t \in Tasks : rows[b].hash \in req[t].touched
        \/ Sound(b)

\* The tables and the bucket as StorageLifecycle has them, when idle or before
\* the request in progress.
Shown == IF \A t \in Tasks : Idle(t)
         THEN [files |-> files, rows |-> rows, objects |-> objects] ELSE settled

ShownRow(h) ==
    LET ids == {b \in Ids : Shown.rows[b] # NoRow /\ Shown.rows[b].hash = h}
    IN  IF ids = {} THEN NoRow
        ELSE LET row == Shown.rows[CHOOSE b \in ids : TRUE]
             IN  [count |-> row.count, name |-> row.name, infected |-> row.infected]

ShownFile(i) ==
    LET file == Shown.files[i]
    IN  IF file = NoFile \/ file.blob = NoId
        THEN IF file = NoFile THEN NoFile ELSE [file EXCEPT !.blob = NoHash]
        ELSE [file EXCEPT !.blob = Shown.rows[file.blob].hash]

Lifecycle == INSTANCE StorageLifecycle WITH
                files <- [i \in Items |-> ShownFile(i)],
                rows <- [h \in Hashes |-> ShownRow(h)],
                objects <- Shown.objects

\* Requests that do not overlap are the whole requests of StorageLifecycle.
RefinesLifecycle == Lifecycle!Spec

\* ARCHITECTURE.md, rule 5: a request that is about to delete an object from the
\* bucket finds no live file that refers to it (infected contents apart).
SharedStorageKept ==
    \A t \in Tasks : step[t] = "delete_object" =>
        ~\E i \in Items : /\ Live(Files(t), i) /\ Files(t)[i].blob # NoId
                          /\ KeyOf(Rows(t)[Files(t)[i].blob]) = req[t].key

\* Shared contents outlast their references, and the tables are well formed.
StorageKept == TypeOK /\ SharedStorageKept
=============================================================================
