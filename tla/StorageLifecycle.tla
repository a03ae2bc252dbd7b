-------------------------- MODULE StorageLifecycle --------------------------
(***************************************************************************)
(* Deduplicated storage, one request at a time.                            *)
(*                                                                         *)
(* A file of a user (a row of user_files) refers to a stored content (a    *)
(* row of storage_files), which counts its references and names the object *)
(* in the S3 bucket that holds the bytes.  Each action is one whole        *)
(* request or one unit of the background worker, from its first statement  *)
(* to its last, without failures and with nothing else running: what       *)
(* process_upload, link_existing_file, delete_item, bulk_delete,           *)
(* bulk_move, bulk_copy, rename_item and perform_cleanup amount to.        *)
(* StorageTasks.tla has their statements one by one, and is shown to       *)
(* implement this module when requests do not overlap.                     *)
(*                                                                         *)
(* A content is identified with its hash: storage_files.hash is UNIQUE,    *)
(* and the foreign key of user_files is ON DELETE SET NULL, so no row id   *)
(* outlives its row.                                                       *)
(***************************************************************************)
EXTENDS Integers, FiniteSets

CONSTANTS
    Users, Folders, Names,
    Hashes,           \* contents
    Items,            \* user_files ids
    NoHash,           \* a NULL storage_file_id
    NoFile, NoRow,    \* an id with no row
    MaxRef            \* bound on ref_count, for model checking

ASSUME NullAssumption == NoHash \notin Hashes
ASSUME ItemsAssumption == IsFiniteSet(Items)
ASSUME MaxRefAssumption == MaxRef \in Nat \ {0}

\* Where a file is: owner, parent folder and file name.
Places == [user : Users, folder : Folders, name : Names]

FileRows == [at : Places, blob : Hashes \cup {NoHash}, live : BOOLEAN, expires : BOOLEAN]
StorageRows == [count : 1 .. MaxRef, name : Names, infected : BOOLEAN]

ASSUME NoRowAssumption == NoFile \notin FileRows /\ NoRow \notin StorageRows

VARIABLES
    files,     \* user_files without the folders; live means deleted_at IS NULL
    rows,      \* storage_files; the S3 key is <<hash, name of the first upload>>
    objects    \* the keys that exist in the bucket, staging area excluded

vars == <<files, rows, objects>>

TypeOK ==
    /\ files \in [Items -> FileRows \cup {NoFile}]
    /\ rows \in [Hashes -> StorageRows \cup {NoRow}]
    /\ objects \subseteq Hashes \X Names

Init ==
    /\ files = [i \in Items |-> NoFile]
    /\ rows = [h \in Hashes |-> NoRow]
    /\ objects = {}

-----------------------------------------------------------------------------
Exists(i) == files[i] # NoFile
Live(i) == Exists(i) /\ files[i].live
LiveAt(p) == {i \in Items : Live(i) /\ files[i].at = p}
OwnedBy(u) == {i \in Items : Exists(i) /\ files[i].at.user = u}

\* The live files of the table fs that refer to content h.
References(fs, h) == {i \in Items : fs[i] # NoFile /\ fs[i].live /\ fs[i].blob = h}

\* How many of the items in D refer to each content.
Count(D) == [h \in Hashes |-> Cardinality({i \in D : files[i].blob = h})]

Key(h) == <<h, rows[h].name>>

\* Mutant: the count is decremented, and the content is kept although nothing refers to
\* it any more.
SettleKeepingLast(fs, rs, os, loss) ==
    /\ rows' = [h \in Hashes |->
                  IF rs[h] = NoRow THEN NoRow ELSE [rs[h] EXCEPT !.count = @ - loss[h]]]
    /\ objects' = os
    /\ files' = fs

\* Mutant: a content goes when one reference is left (new_count <= 1).
SettleEarly(fs, rs, os, loss) ==
    LET dead == {h \in Hashes : rs[h] # NoRow /\ loss[h] > 0 /\ rs[h].count - loss[h] <= 1}
    IN  /\ rows' = [h \in Hashes |->
                      IF rs[h] = NoRow \/ h \in dead THEN NoRow
                      ELSE [rs[h] EXCEPT !.count = @ - loss[h]]]
        /\ objects' = os \ {<<h, rs[h].name>> : h \in dead}
        /\ files' = [i \in Items |->
                       IF fs[i] # NoFile /\ fs[i].blob \in dead
                       THEN [fs[i] EXCEPT !.blob = NoHash] ELSE fs[i]]

\* Mutant: the object goes when one reference is left, the row with the last one.
SettleObjectEarly(fs, rs, os, loss) ==
    LET low(n) == {h \in Hashes : rs[h] # NoRow /\ loss[h] > 0 /\ rs[h].count - loss[h] <= n}
    IN  /\ rows' = [h \in Hashes |->
                      IF rs[h] = NoRow \/ h \in low(0) THEN NoRow
                      ELSE [rs[h] EXCEPT !.count = @ - loss[h]]]
        /\ objects' = os \ {<<h, rs[h].name>> : h \in low(1)}
        /\ files' = [i \in Items |->
                       IF fs[i] # NoFile /\ fs[i].blob \in low(0)
                       THEN [fs[i] EXCEPT !.blob = NoHash] ELSE fs[i]]

\* decrement_ref_count, loss[h] times for each content h, after a request has
\* written the tables fs and rs and the bucket os.  A content whose count
\* reaches zero leaves the bucket and the table, and the foreign key sets what
\* still refers to it (soft-deleted files) to NULL.
Settle(fs, rs, os, loss) ==
    LET dead == {h \in Hashes : rs[h] # NoRow /\ loss[h] > 0 /\ rs[h].count - loss[h] <= 0}
    IN  /\ rows' = [h \in Hashes |->
                      IF rs[h] = NoRow \/ h \in dead THEN NoRow
                      ELSE [rs[h] EXCEPT !.count = @ - loss[h]]]
        /\ objects' = os \ {<<h, rs[h].name>> : h \in dead}
        /\ files' = [i \in Items |->
                       IF fs[i] # NoFile /\ fs[i].blob \in dead
                       THEN [fs[i] EXCEPT !.blob = NoHash] ELSE fs[i]]

NoLoss == Count({})

\* Mutant: a deduplication hit is not counted.
IncrementedNot(h) == rows

\* ref_count + 1 on the row of a content that is stored already.
Incremented(h) == [rows EXCEPT ![h].count = @ + 1]

\* The last part of process_upload and link_existing_file: a live file at the
\* same place is made to refer to the new content, and its old content loses a
\* reference if it is another one; otherwise a file is inserted.
Attach(p, h, e, rs, os) ==
    \/ \E i \in LiveAt(p) :
         Settle([files EXCEPT ![i] = [@ EXCEPT !.blob = h, !.expires = e]], rs, os,
                Count({j \in {i} : files[j].blob # h}))
    \/ /\ LiveAt(p) = {}
       /\ \E i \in Items :
            /\ ~Exists(i)
            /\ Settle([files EXCEPT ![i] = [at |-> p, blob |-> h, live |-> TRUE, expires |-> e]],
                      rs, os, NoLoss)

-----------------------------------------------------------------------------
\* process_upload of a content that is stored already.
UploadKnown(p, h, e) ==
    /\ rows[h] # NoRow
    /\ rows[h].count < MaxRef
    /\ Attach(p, h, e, Incremented(h), objects)

\* process_upload of a new content: the staged object is moved to its permanent
\* key, then the row is inserted.
UploadNew(p, h, e) ==
    /\ rows[h] = NoRow
    /\ Attach(p, h, e,
              [rows EXCEPT ![h] = [count |-> 1, name |-> p.name, infected |-> FALSE]],
              objects \cup {<<h, p.name>>})

\* link_existing_file: the client knows the content by its storage id.
Link(p, h, e) == UploadKnown(p, h, e)

\* delete_item and bulk_delete: the live files D of user u, the files below the
\* deleted folders among them.
Delete(u, D) ==
    /\ D # {} /\ D \subseteq {i \in OwnedBy(u) : files[i].live}
    /\ Settle([i \in Items |-> IF i \in D THEN [files[i] EXCEPT !.live = FALSE] ELSE files[i]],
              rows, objects, Count(D))

\* perform_cleanup, step 1: files D whose expiry has passed.
Expire(D) ==
    /\ D # {} /\ \A i \in D : Live(i) /\ files[i].expires
    /\ Settle([i \in Items |-> IF i \in D THEN [files[i] EXCEPT !.live = FALSE] ELSE files[i]],
              rows, objects, Count(D))

\* rename_item without a file at the target.
Rename(i, p) ==
    /\ Live(i) /\ p.user = files[i].at.user
    /\ LiveAt(p) \ {i} = {}
    /\ files' = [files EXCEPT ![i] = [@ EXCEPT !.at = p]]
    /\ UNCHANGED <<rows, objects>>

\* rename_item onto another file j: j takes the content of i, i is soft-deleted,
\* and the content that j had loses a reference if it is another one.
RenameOnto(i, j) ==
    /\ Live(i) /\ Live(j) /\ i # j
    /\ files[i].at.user = files[j].at.user
    /\ Settle([files EXCEPT ![j] = [@ EXCEPT !.blob = files[i].blob],
                            ![i] = [@ EXCEPT !.live = FALSE]],
              rows, objects, Count({k \in {j} : files[k].blob # files[i].blob}))

\* bulk_move: any files of the user, deleted or not; nothing is merged.
Move(u, M, f) ==
    /\ M # {} /\ M \subseteq OwnedBy(u)
    /\ files' = [i \in Items |->
                   IF i \in M THEN [files[i] EXCEPT !.at = [@ EXCEPT !.folder = f]] ELSE files[i]]
    /\ UNCHANGED <<rows, objects>>

\* bulk_copy: file src[n] is copied to the new item n at place at[n].  The copied
\* items may be deleted ones, whose content may be gone; a copy never expires.
Copy(u, N, src, at) ==
    /\ N # {} /\ \A n \in N : ~Exists(n) /\ src[n] \in OwnedBy(u) /\ at[n].user = u
    /\ LET gain == [h \in Hashes |-> Cardinality({n \in N : files[src[n]].blob = h})]
       IN  /\ \A h \in Hashes : rows[h] # NoRow => rows[h].count + gain[h] <= MaxRef
           /\ rows' = [h \in Hashes |->
                         IF rows[h] = NoRow THEN NoRow
                         ELSE [rows[h] EXCEPT !.count = @ + gain[h]]]
    /\ files' = [i \in Items |->
                   IF i \in N
                   THEN [at |-> at[i], blob |-> files[src[i]].blob, live |-> TRUE, expires |-> FALSE]
                   ELSE files[i]]
    /\ UNCHANGED objects

\* A scan finds a threat (ScanPipeline has the scans themselves).
FindThreat(h) ==
    /\ rows[h] # NoRow /\ ~rows[h].infected
    /\ rows' = [rows EXCEPT ![h] = [@ EXCEPT !.infected = TRUE]]
    /\ UNCHANGED <<files, objects>>

\* Mutant: the rows of an infected content go, its object stays.
PurgeInfectedRows(h) ==
    /\ rows[h] # NoRow /\ rows[h].infected
    /\ files' = [i \in Items |-> IF Exists(i) /\ files[i].blob = h THEN NoFile ELSE files[i]]
    /\ rows' = [rows EXCEPT ![h] = NoRow]
    /\ UNCHANGED objects

\* perform_cleanup, step 2, and delete_storage_file: the object, every file that
\* refers to it, deleted or not, and the row.
PurgeInfected(h) ==
    /\ rows[h] # NoRow /\ rows[h].infected
    /\ objects' = objects \ {Key(h)}
    /\ files' = [i \in Items |-> IF Exists(i) /\ files[i].blob = h THEN NoFile ELSE files[i]]
    /\ rows' = [rows EXCEPT ![h] = NoRow]

Next ==
    \/ \E p \in Places, h \in Hashes, e \in BOOLEAN :
         UploadKnown(p, h, e) \/ UploadNew(p, h, e) \/ Link(p, h, e)
    \/ \E u \in Users : \E D \in SUBSET Items : Delete(u, D)
    \/ \E D \in SUBSET Items : Expire(D)
    \/ \E i \in Items, p \in Places : Rename(i, p)
    \/ \E i, j \in Items : RenameOnto(i, j)
    \/ \E u \in Users, f \in Folders : \E M \in SUBSET Items : Move(u, M, f)
    \/ \E u \in Users : \E N \in SUBSET Items :
         \E src \in [N -> Items], at \in [N -> Places] : Copy(u, N, src, at)
    \/ \E h \in Hashes : FindThreat(h) \/ PurgeInfected(h)

Spec == Init /\ [][Next]_vars

-----------------------------------------------------------------------------
\* ARCHITECTURE.md, rule 5: a content is counted at least as often as live files
\* refer to it, so its last decrement finds it unused.
RefCountCovers ==
    \A h \in Hashes : rows[h] # NoRow => rows[h].count >= Cardinality(References(files, h))

\* The bytes behind every live file that has a content are in the bucket under
\* the key of its row: a deduplicated content is not purged under another user's
\* file.
LiveFileReadable ==
    \A i \in Items : Live(i) /\ files[i].blob # NoHash =>
        rows[files[i].blob] # NoRow /\ Key(files[i].blob) \in objects

\* The foreign key's ON DELETE SET NULL takes no content from a live file: one
\* loses its content only when a file without any is renamed onto it.
ContentKept ==
    [][\A i \in Items : Live(i) /\ Live(i)' /\ files[i].blob # NoHash /\ files'[i].blob = NoHash =>
           \E j \in Items : Live(j) /\ files[j].blob = NoHash /\ ~Live(j)']_vars

\* Nothing stays in the bucket without a row that would lead to its removal.
NoOrphanObject ==
    \A k \in objects : rows[k[1]] # NoRow /\ Key(k[1]) = k
=============================================================================
