------------------------ MODULE StorageRefinementProofs -----------------------
(***************************************************************************)
(* Requests that do not overlap, and of which none fails, are the whole    *)
(* requests of StorageLifecycle, for any contents, files and bounds.       *)
(*                                                                         *)
(* Tables are records of files, rows and objects: settled are those that   *)
(* the request in progress has found, Now(t) those that it sees.  For each *)
(* operation a predicate says what lies between the two after each of its  *)
(* statements; the last statement then makes the step of StorageLifecycle, *)
(* and every other one shows nothing.                                      *)
(***************************************************************************)
EXTENDS StorageTasksProofs

Now(t) == [files |-> Files(t), rows |-> Rows(t), objects |-> objects]

TypedTables ==
    [files : [Items -> FileRows \cup {NoFile}], rows : [Ids -> StorageRows \cup {NoRow}],
     objects : SUBSET Keys]

WellFormed(T) ==
    /\ T \in TypedTables
    /\ \A b, c \in Ids :
         T.rows[b] # NoRow /\ T.rows[c] # NoRow /\ T.rows[b].hash = T.rows[c].hash => b = c
    /\ \A i \in Items : T.files[i] # NoFile /\ T.files[i].blob # NoId => T.rows[T.files[i].blob] # NoRow

\* A content is counted at least as often as files refer to it.
Covered(T) ==
    \A b \in Ids : T.rows[b] # NoRow => T.rows[b].count >= Cardinality(References(T.files, b))

LiveIn(T, p) == {i \in Items : Live(T.files, i) /\ T.files[i].at = p}
Stored(T, h) == \E b \in Ids : T.rows[b] # NoRow /\ T.rows[b].hash = h

-----------------------------------------------------------------------------
\* The items D lose what they referred to in S, once W is written.
Lost(S, D, b) == {i \in D : S.files[i].blob = b}
Left(S, W, D, b) == W.rows[b].count - Cardinality(Lost(S, D, b))
Dead(S, W, D) == {b \in Ids : W.rows[b] # NoRow /\ Lost(S, D, b) # {} /\ Left(S, W, D, b) <= 0}
WithCount(row, n) == [row EXCEPT !.count = n]
WithBlob(file, b) == [file EXCEPT !.blob = b]
Gone(file) == [file EXCEPT !.live = FALSE]
Unlinked(file, B) == IF file # NoFile /\ file.blob \in B THEN WithBlob(file, NoId) ELSE file

AfterRelease(S, W, D) ==
    [files |-> [i \in Items |-> Unlinked(W.files[i], Dead(S, W, D))],
     rows |-> [b \in Ids |-> IF W.rows[b] = NoRow \/ b \in Dead(S, W, D) THEN NoRow
                             ELSE WithCount(W.rows[b], Left(S, W, D, b))],
     objects |-> W.objects \ {KeyOf(W.rows[b]) : b \in Dead(S, W, D)}]

\* One reference to b is released.
Unref(P, b) ==
    IF P.rows[b].count - 1 <= 0
    THEN [files |-> [i \in Items |-> Unlinked(P.files[i], {b})],
          rows |-> [P.rows EXCEPT ![b] = NoRow],
          objects |-> P.objects \ {KeyOf(P.rows[b])}]
    ELSE [files |-> P.files, rows |-> [P.rows EXCEPT ![b] = WithCount(@, @.count - 1)],
          objects |-> P.objects]

ReleaseSteps == {"read_count", "lower", "delete_object", "delete_row"}

\* Half-way in decrement_ref_count of r.id, which has begun with the tables P.
Releasing(s, r, P, T) ==
    /\ s \in ReleaseSteps
    /\ r.id \in Ids /\ P.rows[r.id] # NoRow
    /\ T.files = P.files
    /\ s \in {"read_count", "lower"} => T.rows = P.rows
    /\ s = "lower" => r.count = P.rows[r.id].count - 1
    /\ s \in {"delete_object", "delete_row"} =>
         /\ P.rows[r.id].count - 1 <= 0
         /\ T.rows = [P.rows EXCEPT ![r.id] = WithCount(@, @.count - 1)]
         /\ r.key = KeyOf(P.rows[r.id])
    /\ T.objects = IF s = "delete_row" THEN P.objects \ {KeyOf(P.rows[r.id])} ELSE P.objects

-----------------------------------------------------------------------------
\* The tables once a content is stored, or counted once more, for an upload to p.
Gains(S, p, c) ==
    IF S.rows[c] # NoRow
    THEN {[files |-> S.files, rows |-> [S.rows EXCEPT ![c] = WithCount(S.rows[c], S.rows[c].count + 1)],
           objects |-> S.objects]}
    ELSE {[files |-> S.files,
           rows |-> [S.rows EXCEPT ![c] = [hash |-> h, count |-> 1, name |-> p.name, infected |-> FALSE]],
           objects |-> S.objects \cup {<<h, p.name>>}] : h \in {g \in Hashes : ~Stored(S, g)}}

\* ... and file i refers to it.
Uploaded(file, c, e) == [file EXCEPT !.blob = c, !.expires = e]
Attached(W, i, c, e) ==
    [files |-> [W.files EXCEPT ![i] = Uploaded(W.files[i], c, e)], rows |-> W.rows, objects |-> W.objects]

UploadFits(s, r, S, T) ==
    /\ r.op \in {"upload", "link"}
    /\ s \in {"find", "find_linked", "store", "insert_row", "raise", "find_file", "update_file",
              "insert_file"} \cup ReleaseSteps
    /\ \A b \in Ids : S.rows[b] # NoRow => S.rows[b].count + 1 <= MaxRef
    /\ s \in {"find", "find_linked", "store", "raise"} => T = S
    /\ s = "find_linked" => S.rows[r.id] # NoRow
    /\ s \in {"store", "insert_row"} => ~Stored(S, r.hash)
    /\ s = "insert_row" =>
         T = [files |-> S.files, rows |-> S.rows, objects |-> S.objects \cup {<<r.hash, r.at.name>>}]
    /\ s = "raise" => S.rows[r.id] # NoRow /\ r.count = S.rows[r.id].count + 1
    /\ s \in {"find_file", "update_file", "insert_file"} => T \in Gains(S, r.at, r.id)
    /\ s = "update_file" => r.target \in LiveIn(S, r.at) /\ r.old = S.files[r.target].blob
    /\ s = "insert_file" => LiveIn(S, r.at) = {}
    /\ s \in ReleaseSteps =>
         \E c \in Ids : \E W \in Gains(S, r.at, c) :
            /\ r.target \in LiveIn(S, r.at) /\ S.files[r.target].blob = r.id /\ r.id # c
            /\ Releasing(s, r, Attached(W, r.target, c, r.expires), T)

-----------------------------------------------------------------------------
\* The items D are soft-deleted, and their contents are still to be released.
Retired(S, D) ==
    [S EXCEPT !.files = [i \in Items |-> IF i \in D THEN Gone(S.files[i])
                                         ELSE S.files[i]]]

Owned(S, X, u) == \A i \in X : S.files[i] # NoFile /\ S.files[i].at.user = u

\* The items X that a request is to delete.
Doomed(op, S, X) ==
    IF op = "expire" THEN \A i \in X : Live(S.files, i) /\ S.files[i].expires
    ELSE \E u \in Users : Owned(S, X, u)

\* The items in hand and still to do.
Pending(s, r) == DOMAIN r.todo \cup (IF s = "next" THEN {} ELSE {r.item})

\* D are the items that are done.
DeletedFits(s, r, S, T, D) ==
    /\ \A i \in D : Live(S.files, i)
    /\ D \cap Pending(s, r) = {}
    /\ Doomed(r.op, S, D \cup Pending(s, r))
    /\ r.op # "bulk_delete" =>
         \A i \in DOMAIN r.todo : Live(S.files, i) /\ r.todo[i] = S.files[i].blob
    /\ s \in {"next", "soft_delete"} => T = AfterRelease(S, Retired(S, D), D)
    /\ s # "next" => r.item \in Items \ DOMAIN r.todo /\ Live(S.files, r.item) /\ r.id = S.files[r.item].blob
    /\ s \in ReleaseSteps => Releasing(s, r, AfterRelease(S, Retired(S, D \cup {r.item}), D), T)

DeleteFits(s, r, S, T) ==
    /\ r.op \in {"delete_item", "expire", "bulk_delete"}
    /\ s \in {"next", "soft_delete"} \cup ReleaseSteps
    /\ \E D \in SUBSET Items : DeletedFits(s, r, S, T, D)

-----------------------------------------------------------------------------
\* The files M are moved to folder f.
MovedTo(S, M, f) ==
    [S EXCEPT !.files = [i \in Items |->
                           IF i \in M THEN [S.files[i] EXCEPT !.at = [@ EXCEPT !.folder = f]]
                           ELSE S.files[i]]]

MoveFits(s, r, S, T) ==
    /\ r.op = "bulk_move" /\ s \in {"next", "move_file"}
    /\ \E M \in SUBSET Items, u \in Users :
         Owned(S, M \cup Pending(s, r), u) /\ T = MovedTo(S, M, r.at.folder)

\* The references that the new files N add to b, without the one that is to be counted yet.
Uncounted(s, r, b) == IF s \in {"copy_count", "raise"} /\ r.id = b THEN 1 ELSE 0
Gain(s, r, T, N, b) == Cardinality({n \in N : T.files[n].blob = b}) - Uncounted(s, r, b)

CopiedRows(s, r, S, T, N) ==
    [b \in Ids |-> IF S.rows[b] = NoRow THEN NoRow
                   ELSE WithCount(S.rows[b], S.rows[b].count + Gain(s, r, T, N, b))]

\* N are copies of files of u.
CopiedFits(s, r, S, T, N, u) ==
    /\ r.at.user = u
    /\ Owned(S, DOMAIN r.todo, u)
    /\ \A n \in N :
         /\ S.files[n] = NoFile
         /\ T.files[n] # NoFile /\ T.files[n].live /\ ~T.files[n].expires /\ T.files[n].at.user = u
         /\ \E m \in Items : Owned(S, {m}, u) /\ S.files[m].blob = T.files[n].blob
    /\ \A i \in Items \ N : T.files[i] = S.files[i]
    /\ T.rows = CopiedRows(s, r, S, T, N)
    /\ T.objects = S.objects
    /\ s = "insert_copy" => r.item \in Items /\ Owned(S, {r.item}, u) /\ r.id = S.files[r.item].blob
    /\ s \in {"copy_count", "raise"} => r.id \in Ids /\ S.rows[r.id] # NoRow
    /\ s = "raise" => r.count = T.rows[r.id].count + 1
    /\ \A b \in Ids : S.rows[b] # NoRow =>
         S.rows[b].count + Cardinality(N) + Cardinality(DOMAIN r.todo)
           + (IF s = "insert_copy" THEN 1 ELSE 0) <= MaxRef

CopyFits(s, r, S, T) ==
    /\ r.op = "bulk_copy" /\ s \in {"next", "insert_copy", "copy_count", "raise"}
    /\ \E N \in SUBSET Items, u \in Users : CopiedFits(s, r, S, T, N, u)

-----------------------------------------------------------------------------
\* File j takes the content of file i, which is soft-deleted.
Merged(S, i, j) ==
    [files |-> [S.files EXCEPT ![j] = WithBlob(S.files[j], S.files[i].blob), ![i] = Gone(S.files[i])],
     rows |-> S.rows, objects |-> S.objects]

RenameFits(s, r, S, T) ==
    /\ r.op = "rename" /\ s \in {"find_target", "merge", "retire", "rename_file"} \cup ReleaseSteps
    /\ r.item \in Items /\ Live(S.files, r.item) /\ r.at.user = S.files[r.item].at.user
    /\ s \notin ReleaseSteps => r.id = S.files[r.item].blob
    /\ s \in {"find_target", "merge", "rename_file"} => T = S
    /\ s = "rename_file" => LiveIn(S, r.at) \ {r.item} = {}
    /\ s \in {"merge", "retire"} \cup ReleaseSteps => r.target \in LiveIn(S, r.at) \ {r.item}
    /\ s \in {"merge", "retire"} => r.old = S.files[r.target].blob
    /\ s = "retire" =>
         T = [files |-> [S.files EXCEPT ![r.target] = WithBlob(S.files[r.target], r.id)],
              rows |-> S.rows, objects |-> S.objects]
    /\ s \in ReleaseSteps =>
         /\ r.id = S.files[r.target].blob /\ r.id # S.files[r.item].blob
         /\ Releasing(s, r, Merged(S, r.item, r.target), T)

ScanFits(s, r, S, T) ==
    /\ r.op = "scan" /\ s = "report" /\ T = S
    /\ r.id \in Ids /\ S.rows[r.id] # NoRow /\ ~S.rows[r.id].infected

PurgeFits(s, r, S, T) ==
    /\ r.op = "purge" /\ s \in {"purge_object", "purge_files", "purge_row"}
    /\ r.id \in Ids /\ S.rows[r.id] # NoRow /\ S.rows[r.id].infected
    /\ r.key = KeyOf(S.rows[r.id])
    /\ T.rows = S.rows
    /\ T.objects = IF s = "purge_object" THEN S.objects ELSE S.objects \ {r.key}
    /\ T.files = IF s = "purge_row"
                 THEN [i \in Items |-> IF S.files[i] # NoFile /\ S.files[i].blob = r.id
                                       THEN NoFile ELSE S.files[i]]
                 ELSE S.files

\* A request in progress has done this of it.
Halfway(s, r, S, T) ==
    \/ UploadFits(s, r, S, T) \/ DeleteFits(s, r, S, T) \/ MoveFits(s, r, S, T) \/ CopyFits(s, r, S, T)
    \/ RenameFits(s, r, S, T) \/ ScanFits(s, r, S, T) \/ PurgeFits(s, r, S, T)

Progress(t) ==
    ~Idle(t) =>
        /\ WellFormed(settled) /\ Covered(settled)
        /\ draft[t].open => files = settled.files /\ rows = settled.rows
        /\ Halfway(step[t], req[t], settled, Now(t))

\* The invariant of requests that do not overlap.
SoleInv == IInv /\ \A t \in Tasks : Progress(t)

-----------------------------------------------------------------------------
\* Tables with the same columns are the same.
LEMMA SameTables ==
    ASSUME NEW F, NEW R, NEW O, NEW T, NEW U, T \in [files : F, rows : R, objects : O],
           U \in [files : F, rows : R, objects : O],
           T.files = U.files, T.rows = U.rows, T.objects = U.objects
    PROVE  T = U
  OBVIOUS

\* What the columns of tables are.
LEMMA TableFacts ==
    ASSUME NEW T \in TypedTables
    PROVE  /\ T.files \in [Items -> FileRows \cup {NoFile}] /\ T.rows \in [Ids -> StorageRows \cup {NoRow}]
           /\ T.objects \in SUBSET Keys
           /\ T = [files |-> T.files, rows |-> T.rows, objects |-> T.objects]
           /\ \A i \in Items : T.files[i] # NoFile =>
                /\ T.files[i] \in FileRows /\ T.files[i].blob \in Ids \cup {NoId}
                /\ T.files[i].at \in Places /\ T.files[i].live \in BOOLEAN /\ T.files[i].expires \in BOOLEAN
           /\ \A b \in Ids : T.rows[b] # NoRow =>
                /\ T.rows[b] \in StorageRows /\ T.rows[b].count \in Int /\ T.rows[b].hash \in Hashes
                /\ T.rows[b].name \in Names /\ T.rows[b].infected \in BOOLEAN
  <1>1. T = [files |-> T.files, rows |-> T.rows, objects |-> T.objects]
    BY DEF TypedTables
  <1>2. /\ T.files \in [Items -> FileRows \cup {NoFile}] /\ T.rows \in [Ids -> StorageRows \cup {NoRow}]
        /\ T.objects \in SUBSET Keys
    BY DEF TypedTables
  <1>3. ASSUME NEW i \in Items, T.files[i] # NoFile
        PROVE  /\ T.files[i] \in FileRows /\ T.files[i].blob \in Ids \cup {NoId}
               /\ T.files[i].at \in Places /\ T.files[i].live \in BOOLEAN /\ T.files[i].expires \in BOOLEAN
    <2>1. T.files[i] \in FileRows
      BY <1>2, <1>3
    <2> QED
      BY <2>1 DEF FileRows
  <1>4. ASSUME NEW b \in Ids, T.rows[b] # NoRow
        PROVE  /\ T.rows[b] \in StorageRows /\ T.rows[b].count \in Int /\ T.rows[b].hash \in Hashes
               /\ T.rows[b].name \in Names /\ T.rows[b].infected \in BOOLEAN
    <2>1. T.rows[b] \in StorageRows
      BY <1>2, <1>4
    <2> QED
      BY <2>1 DEF StorageRows
  <1> QED
    BY <1>1, <1>2, <1>3, <1>4

\* A storage row that is counted anew.
LEMMA RowCounted ==
    ASSUME NEW row \in StorageRows, NEW n \in Int
    PROVE  /\ WithCount(row, n) \in StorageRows /\ WithCount(row, n).count = n
           /\ WithCount(row, n).hash = row.hash /\ WithCount(row, n).name = row.name
           /\ WithCount(row, n).infected = row.infected
           /\ KeyOf(WithCount(row, n)) = KeyOf(row)
           /\ WithCount(row, n) # NoRow
           /\ \A m \in Int : WithCount(WithCount(row, n), m) = WithCount(row, m)
           /\ WithCount(row, row.count) = row
  <1>1. WithCount(row, n) \in StorageRows
    BY DEF StorageRows, WithCount
  <1> QED
    BY <1>1, NullAssumption DEF StorageRows, KeyOf, WithCount

\* A file with another content, and one that is deleted.
LEMMA FileRelinked ==
    ASSUME NEW file \in FileRows, NEW b \in Ids \cup {NoId}
    PROVE  /\ WithBlob(file, b) \in FileRows /\ WithBlob(file, b) # NoFile
           /\ WithBlob(file, b).blob = b /\ WithBlob(file, b).at = file.at
           /\ WithBlob(file, b).live = file.live /\ WithBlob(file, b).expires = file.expires
  <1>1. WithBlob(file, b) \in FileRows
    BY DEF FileRows, WithBlob
  <1> QED
    BY <1>1, NullAssumption DEF FileRows, WithBlob

\* A soft-deleted file keeps the rest.
LEMMA FileGone ==
    ASSUME NEW file \in FileRows
    PROVE  /\ Gone(file) \in FileRows /\ Gone(file) # NoFile
           /\ Gone(file).blob = file.blob /\ Gone(file).at = file.at
           /\ Gone(file).live = FALSE /\ Gone(file).expires = file.expires
           /\ WithBlob(Gone(file), NoId) = Gone(WithBlob(file, NoId))
  <1>1. Gone(file) \in FileRows
    BY DEF FileRows, Gone
  <1> QED
    BY <1>1, NullAssumption DEF FileRows, WithBlob, Gone

\* A file that refers to something else, if it does to one of B.
LEMMA UnlinkedFacts ==
    ASSUME NEW B, NEW file \in FileRows \cup {NoFile}
    PROVE  /\ Unlinked(file, B) \in FileRows \cup {NoFile}
           /\ file = NoFile <=> Unlinked(file, B) = NoFile
           /\ file # NoFile =>
                /\ Unlinked(file, B).at = file.at /\ Unlinked(file, B).live = file.live
                /\ Unlinked(file, B).expires = file.expires
                /\ file.blob \in B => Unlinked(file, B).blob = NoId
                /\ Unlinked(Gone(file), B) = Gone(Unlinked(file, B))
           /\ file = NoFile \/ file.blob \notin B => Unlinked(file, B) = file
           /\ file # NoFile /\ file.blob \in B => Unlinked(file, B) = WithBlob(file, NoId)
  <1>1. CASE file = NoFile
    BY <1>1 DEF Unlinked
  <1>2. CASE file \in FileRows /\ file # NoFile
    <2>1. CASE file.blob \in B
      <3>1. Unlinked(file, B) = WithBlob(file, NoId) /\ Unlinked(Gone(file), B) = WithBlob(Gone(file), NoId)
        BY <1>2, <2>1, FileGone DEF Unlinked
      <3> QED
        <4>1. /\ WithBlob(file, NoId) \in FileRows /\ WithBlob(file, NoId) # NoFile
              /\ WithBlob(file, NoId).blob = NoId /\ WithBlob(file, NoId).at = file.at
              /\ WithBlob(file, NoId).live = file.live /\ WithBlob(file, NoId).expires = file.expires
          <5>1. NoId \in Ids \cup {NoId} /\ file \in FileRows
            BY <1>2
          <5> QED
            BY <5>1, FileRelinked
        <4>2. WithBlob(Gone(file), NoId) = Gone(WithBlob(file, NoId))
          BY <1>2, FileGone
        <4> QED
          BY <1>2, <2>1, <3>1, <4>1, <4>2
    <2>2. CASE file.blob \notin B
      <3>1. Unlinked(file, B) = file /\ Unlinked(Gone(file), B) = Gone(file)
        BY <1>2, <2>2, FileGone DEF Unlinked
      <3> QED
        BY <1>2, <2>2, <3>1
    <2> QED
      BY <2>1, <2>2
  <1> QED
    BY <1>1, <1>2

\* How many items lose a reference to b.
LEMMA LostFacts ==
    ASSUME NEW S, NEW D \in SUBSET Items, NEW b
    PROVE  /\ Lost(S, D, b) \in SUBSET D /\ IsFiniteSet(Lost(S, D, b))
           /\ Cardinality(Lost(S, D, b)) \in Nat
           /\ Lost(S, D, b) = {} => Cardinality(Lost(S, D, b)) = 0
           /\ Lost(S, D, b) # {} => Cardinality(Lost(S, D, b)) >= 1
  <1>1. Lost(S, D, b) \in SUBSET D
    BY DEF Lost
  <1>2. IsFiniteSet(Lost(S, D, b))
    BY <1>1, ItemsAssumption, FS_Subset
  <1>3. Cardinality(Lost(S, D, b)) \in Nat
    BY <1>2, FS_CardinalityType
  <1>4. Cardinality(Lost(S, D, b)) = 0 <=> Lost(S, D, b) = {}
    BY <1>2, FS_EmptySet
  <1> QED
    BY <1>1, <1>2, <1>3, <1>4

\* One item more.
LEMMA LostMore ==
    ASSUME NEW S, NEW D \in SUBSET Items, NEW i \in Items \ D, NEW b
    PROVE  IF S.files[i].blob = b
           THEN /\ Lost(S, D \cup {i}, b) # {}
                /\ Cardinality(Lost(S, D \cup {i}, b)) = Cardinality(Lost(S, D, b)) + 1
           ELSE Lost(S, D \cup {i}, b) = Lost(S, D, b)
  <1>1. IsFiniteSet(Lost(S, D, b)) /\ Lost(S, D, b) \in SUBSET D
    BY LostFacts
  <1>2. CASE S.files[i].blob = b
    <2>1. Lost(S, D \cup {i}, b) = Lost(S, D, b) \cup {i} /\ i \notin Lost(S, D, b)
      BY <1>2 DEF Lost
    <2>2. Cardinality(Lost(S, D, b) \cup {i}) = Cardinality(Lost(S, D, b)) + 1
      BY <1>1, <2>1, FS_AddElement
    <2> QED
      BY <1>2, <2>1, <2>2
  <1>3. CASE S.files[i].blob # b
    BY <1>3 DEF Lost
  <1> QED
    BY <1>2, <1>3

\* What a row and a file are after some releases.
RowsReleased(S, W, D) ==
    /\ \A b \in Ids : W.rows[b] = NoRow \/ b \in Dead(S, W, D) => AfterRelease(S, W, D).rows[b] = NoRow
    /\ \A b \in Ids : W.rows[b] # NoRow /\ b \notin Dead(S, W, D) =>
         /\ AfterRelease(S, W, D).rows[b] = WithCount(W.rows[b], Left(S, W, D, b))
         /\ AfterRelease(S, W, D).rows[b] # NoRow /\ AfterRelease(S, W, D).rows[b] \in StorageRows
    /\ \A b \in Ids : W.rows[b] # NoRow => Left(S, W, D, b) \in Int /\ W.rows[b] \in StorageRows
    /\ AfterRelease(S, W, D).rows \in [Ids -> StorageRows \cup {NoRow}]

FilesReleased(S, W, D) ==
    /\ AfterRelease(S, W, D) \in TypedTables
    /\ Dead(S, W, D) \in SUBSET Ids
    /\ \A i \in Items : AfterRelease(S, W, D).files[i] = Unlinked(W.files[i], Dead(S, W, D))

\* The rows after the releases.
LEMMA AfterRows ==
    ASSUME NEW S, NEW W \in TypedTables, NEW D \in SUBSET Items
    PROVE  RowsReleased(S, W, D)
  <1>2. \A b \in Ids : AfterRelease(S, W, D).rows[b] =
           IF W.rows[b] = NoRow \/ b \in Dead(S, W, D) THEN NoRow
           ELSE WithCount(W.rows[b], Left(S, W, D, b))
    BY DEF AfterRelease
  <1>5. ASSUME NEW b \in Ids, W.rows[b] # NoRow
        PROVE  Left(S, W, D, b) \in Int /\ W.rows[b] \in StorageRows
    BY <1>5, TableFacts, LostFacts DEF Left
  <1>6. ASSUME NEW b \in Ids, W.rows[b] # NoRow, b \notin Dead(S, W, D)
        PROVE  /\ AfterRelease(S, W, D).rows[b] = WithCount(W.rows[b], Left(S, W, D, b))
               /\ AfterRelease(S, W, D).rows[b] # NoRow
               /\ AfterRelease(S, W, D).rows[b] \in StorageRows
    BY <1>2, <1>5, <1>6, RowCounted
  <1>7. AfterRelease(S, W, D).rows \in [Ids -> StorageRows \cup {NoRow}]
    <2>1. [b \in Ids |-> IF W.rows[b] = NoRow \/ b \in Dead(S, W, D) THEN NoRow
                         ELSE WithCount(W.rows[b], Left(S, W, D, b))] \in [Ids -> StorageRows \cup {NoRow}]
      BY <1>2, <1>6
    <2> QED
      BY <2>1 DEF AfterRelease
  <1> QED
    BY <1>2, <1>5, <1>6, <1>7 DEF RowsReleased

\* The files after the releases.
LEMMA AfterFiles ==
    ASSUME NEW S, NEW W \in TypedTables, NEW D \in SUBSET Items
    PROVE  FilesReleased(S, W, D)
  <1>1. \A i \in Items : AfterRelease(S, W, D).files[i] = Unlinked(W.files[i], Dead(S, W, D))
    BY DEF AfterRelease
  <1>2. Dead(S, W, D) \in SUBSET Ids
    BY DEF Dead
  <1>3. ASSUME NEW i \in Items
        PROVE  Unlinked(W.files[i], Dead(S, W, D)) \in FileRows \cup {NoFile}
    <2>1. W.files[i] \in FileRows \cup {NoFile}
      BY TableFacts
    <2> QED
      BY <2>1, UnlinkedFacts
  <1>4. [i \in Items |-> Unlinked(W.files[i], Dead(S, W, D))] \in [Items -> FileRows \cup {NoFile}]
    BY <1>3
  <1>5. W.objects \ {KeyOf(W.rows[b]) : b \in Dead(S, W, D)} \in SUBSET Keys
    BY TableFacts
  <1>6. AfterRelease(S, W, D).rows \in [Ids -> StorageRows \cup {NoRow}]
    BY AfterRows DEF RowsReleased
  <1>7. AfterRelease(S, W, D) \in TypedTables
    BY <1>4, <1>5, <1>6 DEF AfterRelease, TypedTables
  <1> QED
    BY <1>1, <1>2, <1>7 DEF FilesReleased

\* Nothing is released.
LEMMA AfterNone ==
    ASSUME NEW S, NEW W \in TypedTables
    PROVE  AfterRelease(S, W, {}) = W
  <1>1. \A b : Lost(S, {}, b) = {}
    BY DEF Lost
  <1>2. Dead(S, W, {}) = {}
    BY <1>1 DEF Dead
  <1>0. RowsReleased(S, W, {}) /\ FilesReleased(S, W, {})
    BY AfterRows, AfterFiles
  <1>3. ASSUME NEW i \in Items PROVE AfterRelease(S, W, {}).files[i] = W.files[i]
    <2>1. W.files[i] \in FileRows \cup {NoFile}
      BY TableFacts
    <2> QED
      BY <2>1, <1>0, <1>2, UnlinkedFacts DEF FilesReleased
  <1>4. ASSUME NEW b \in Ids
        PROVE  AfterRelease(S, W, {}).rows[b] = W.rows[b]
    <2>1. CASE W.rows[b] = NoRow
      BY <2>1, <1>0 DEF RowsReleased, FilesReleased
    <2>2. CASE W.rows[b] # NoRow
      <3>1. W.rows[b] \in StorageRows /\ W.rows[b].count \in Int
        BY <2>2, TableFacts
      <3>2. Left(S, W, {}, b) = W.rows[b].count
        BY <3>1, <1>1, LostFacts DEF Left
      <3>3. AfterRelease(S, W, {}).rows[b] = WithCount(W.rows[b], W.rows[b].count)
        BY <2>2, <1>2, <3>2, <1>0 DEF RowsReleased, FilesReleased
      <3> QED
        BY <3>1, <3>3, RowCounted
    <2> QED
      BY <2>1, <2>2
  <1>5. AfterRelease(S, W, {}).objects = W.objects
    BY <1>2 DEF AfterRelease
  <1>6. AfterRelease(S, W, {}) \in TypedTables
    BY <1>0 DEF RowsReleased, FilesReleased
  <1>7. AfterRelease(S, W, {}).files = W.files /\ AfterRelease(S, W, {}).rows = W.rows
    BY <1>3, <1>4, <1>6, TableFacts
  <1> QED
    BY <1>5, <1>6, <1>7, SameTables DEF TypedTables

\* Whatever loses the same is the same.
LEMMA AfterSame ==
    ASSUME NEW S, NEW W, NEW D, NEW E, \A b \in Ids : Lost(S, D, b) = Lost(S, E, b)
    PROVE  AfterRelease(S, W, D) = AfterRelease(S, W, E)
  <1>1. \A b \in Ids : Left(S, W, D, b) = Left(S, W, E, b)
    BY DEF Left
  <1>2. Dead(S, W, D) = Dead(S, W, E)
    BY <1>1 DEF Dead
  <1> QED
    BY <1>1, <1>2 DEF AfterRelease

\* An item that refers to nothing releases nothing.
LEMMA ReleaseNothing ==
    ASSUME NEW S, NEW W, NEW D \in SUBSET Items, NEW i \in Items \ D, S.files[i].blob = NoId
    PROVE  AfterRelease(S, W, D \cup {i}) = AfterRelease(S, W, D)
  <1>1. \A b \in Ids : Lost(S, D \cup {i}, b) = Lost(S, D, b)
    BY NullAssumption, LostMore
  <1> QED
    BY <1>1, AfterSame

\* One release more.
LEMMA ReleaseOne ==
    ASSUME NEW S, NEW W \in TypedTables, NEW D \in SUBSET Items, NEW i \in Items \ D, NEW b \in Ids,
           S.files[i].blob = b, AfterRelease(S, W, D).rows[b] # NoRow
    PROVE  Unref(AfterRelease(S, W, D), b) = AfterRelease(S, W, D \cup {i})
  <1> DEFINE P == AfterRelease(S, W, D)
             Q == AfterRelease(S, W, D \cup {i})
  <1>0. /\ RowsReleased(S, W, D) /\ FilesReleased(S, W, D)
        /\ RowsReleased(S, W, D \cup {i}) /\ FilesReleased(S, W, D \cup {i})
    BY AfterRows, AfterFiles
  <1>1. P \in TypedTables /\ Q \in TypedTables /\ D \cup {i} \in SUBSET Items
    BY <1>0 DEF FilesReleased
  <1>2. W.rows[b] # NoRow /\ b \notin Dead(S, W, D)
    BY <1>0 DEF RowsReleased, FilesReleased
  <1>3. \A c \in Ids \ {b} : Lost(S, D \cup {i}, c) = Lost(S, D, c)
    BY LostMore
  <1>4. \A c \in Ids \ {b} : Left(S, W, D \cup {i}, c) = Left(S, W, D, c)
    BY <1>3 DEF Left
  <1>5. /\ W.rows[b].count \in Int /\ W.rows[b] \in StorageRows
        /\ Cardinality(Lost(S, D, b)) \in Nat
        /\ Left(S, W, D, b) \in Int /\ Left(S, W, D \cup {i}, b) \in Int
    BY <1>1, <1>2, <1>0, TableFacts, LostFacts DEF RowsReleased, FilesReleased
  <1>6. /\ Lost(S, D \cup {i}, b) # {}
        /\ Left(S, W, D \cup {i}, b) = Left(S, W, D, b) - 1
    BY <1>5, LostMore DEF Left
  <1>7. /\ P.rows[b] = WithCount(W.rows[b], Left(S, W, D, b))
        /\ P.rows[b].count = Left(S, W, D, b) /\ KeyOf(P.rows[b]) = KeyOf(W.rows[b])
    BY <1>2, <1>5, <1>0, RowCounted DEF RowsReleased, FilesReleased
  <1>8. \A c \in Ids \ {b} : c \in Dead(S, W, D \cup {i}) <=> c \in Dead(S, W, D)
    BY <1>3, <1>4 DEF Dead
  <1>9. ASSUME NEW c \in Ids \ {b} PROVE Q.rows[c] = P.rows[c]
    <2>1. CASE W.rows[c] = NoRow \/ c \in Dead(S, W, D)
      BY <2>1, <1>1, <1>8, <1>0 DEF RowsReleased, FilesReleased
    <2>2. CASE W.rows[c] # NoRow /\ c \notin Dead(S, W, D)
      <3>1. P.rows[c] = WithCount(W.rows[c], Left(S, W, D, c))
        BY <2>2, <1>0 DEF RowsReleased, FilesReleased
      <3>2. Q.rows[c] = WithCount(W.rows[c], Left(S, W, D \cup {i}, c))
        BY <2>2, <1>1, <1>8, <1>0 DEF RowsReleased, FilesReleased
      <3> QED
        BY <3>1, <3>2, <1>4
    <2> QED
      BY <2>1, <2>2
  <1>10. /\ P.files \in [Items -> FileRows \cup {NoFile}] /\ P.rows \in [Ids -> StorageRows \cup {NoRow}]
         /\ Q.files \in [Items -> FileRows \cup {NoFile}] /\ Q.rows \in [Ids -> StorageRows \cup {NoRow}]
         /\ P = [files |-> P.files, rows |-> P.rows, objects |-> P.objects]
         /\ Q = [files |-> Q.files, rows |-> Q.rows, objects |-> Q.objects]
    BY <1>1, TableFacts
  <1>11. /\ \A j \in Items : P.files[j] = Unlinked(W.files[j], Dead(S, W, D))
         /\ \A j \in Items : Q.files[j] = Unlinked(W.files[j], Dead(S, W, D \cup {i}))
         /\ P.objects = W.objects \ {KeyOf(W.rows[c]) : c \in Dead(S, W, D)}
         /\ Q.objects = W.objects \ {KeyOf(W.rows[c]) : c \in Dead(S, W, D \cup {i})}
         /\ Dead(S, W, D) \in SUBSET Ids /\ Dead(S, W, D \cup {i}) \in SUBSET Ids
    <2>1. /\ P.objects = W.objects \ {KeyOf(W.rows[c]) : c \in Dead(S, W, D)}
          /\ Q.objects = W.objects \ {KeyOf(W.rows[c]) : c \in Dead(S, W, D \cup {i})}
      BY DEF AfterRelease
    <2>2. /\ \A j \in Items : P.files[j] = Unlinked(W.files[j], Dead(S, W, D))
          /\ Dead(S, W, D) \in SUBSET Ids
      BY <1>0 DEF RowsReleased, FilesReleased
    <2>3. /\ \A j \in Items : Q.files[j] = Unlinked(W.files[j], Dead(S, W, D \cup {i}))
          /\ Dead(S, W, D \cup {i}) \in SUBSET Ids
      BY <1>0 DEF RowsReleased, FilesReleased
    <2> QED
      BY <2>1, <2>2, <2>3
  <1> HIDE DEF P, Q
  <1>12. CASE P.rows[b].count - 1 <= 0
    <2>1. Dead(S, W, D \cup {i}) = Dead(S, W, D) \cup {b}
      <3>1. b \in Dead(S, W, D \cup {i})
        BY <1>2, <1>6, <1>7, <1>12 DEF Dead
      <3> QED
        BY <1>8, <1>11, <3>1
    <2>2. Q.rows[b] = NoRow
      BY <1>1, <2>1, <1>0 DEF Q, RowsReleased, FilesReleased
    <2>3. Q.rows = [P.rows EXCEPT ![b] = NoRow]
      BY <1>9, <1>10, <2>2
    <2>4. ASSUME NEW j \in Items PROVE Q.files[j] = Unlinked(P.files[j], {b})
      <3>1. W.files[j] \in FileRows \cup {NoFile}
        BY TableFacts
      <3>2. CASE W.files[j] = NoFile
        <4>1. P.files[j] = NoFile /\ Q.files[j] = NoFile
          BY <1>11, <3>1, <3>2, UnlinkedFacts
        <4> QED
          BY <4>1 DEF Unlinked
      <3>3. CASE W.files[j] # NoFile /\ W.files[j].blob \in Dead(S, W, D)
        <4>1. P.files[j] = Q.files[j]
          <5>1. W.files[j].blob \in Dead(S, W, D \cup {i})
            BY <3>3, <2>1
          <5>2. P.files[j] = WithBlob(W.files[j], NoId) /\ Q.files[j] = WithBlob(W.files[j], NoId)
            BY <1>11, <3>3, <5>1 DEF Unlinked
          <5> QED
            BY <5>2
        <4>2. P.files[j] # NoFile /\ P.files[j].blob = NoId /\ P.files[j] \in FileRows
          BY <1>11, <3>1, <3>3, UnlinkedFacts
        <4>3. NoId # b
          BY NullAssumption
        <4> QED
          BY <4>1, <4>2, <4>3 DEF Unlinked
      <3>4. CASE W.files[j] # NoFile /\ W.files[j].blob \notin Dead(S, W, D)
        <4>1. P.files[j] = W.files[j]
          BY <1>11, <3>1, <3>4, UnlinkedFacts
        <4> QED
          BY <1>11, <3>4, <4>1, <2>1 DEF Unlinked
      <3> QED
        BY <3>2, <3>3, <3>4
    <2>5. Q.files = [j \in Items |-> Unlinked(P.files[j], {b})]
      BY <1>10, <2>4
    <2>6. Q.objects = P.objects \ {KeyOf(P.rows[b])}
      BY <1>7, <1>11, <2>1
    <2> QED
      BY <1>10, <1>12, <2>3, <2>5, <2>6 DEF Unref, P, Q
  <1>13. CASE ~(P.rows[b].count - 1 <= 0)
    <2>1. Dead(S, W, D \cup {i}) = Dead(S, W, D)
      <3>1. b \notin Dead(S, W, D \cup {i})
        BY <1>2, <1>6, <1>7, <1>13 DEF Dead
      <3> QED
        <4>1. \A c \in Ids : c \in Dead(S, W, D \cup {i}) <=> c \in Dead(S, W, D)
          BY <1>8, <1>2, <3>1
        <4>2. Dead(S, W, D) \in SUBSET Ids /\ Dead(S, W, D \cup {i}) \in SUBSET Ids
          BY <1>11
        <4> QED
          BY <4>1, <4>2
    <2>2. Q.rows[b] = WithCount(W.rows[b], Left(S, W, D, b) - 1)
      BY <1>1, <1>2, <1>6, <2>1, <1>0 DEF Q, RowsReleased, FilesReleased
    <2>3. Q.rows[b] = WithCount(P.rows[b], P.rows[b].count - 1)
      BY <2>2, <1>5, <1>7, RowCounted
    <2>4. Q.rows = [P.rows EXCEPT ![b] = WithCount(@, @.count - 1)]
      BY <1>9, <1>10, <2>3
    <2>5. Q.files = P.files /\ Q.objects = P.objects
      <3>1. \A j \in Items : Q.files[j] = P.files[j]
        BY <1>11, <2>1
      <3>2. Q.objects = P.objects
        BY <1>11, <2>1
      <3> QED
        BY <1>10, <3>1, <3>2
    <2> QED
      BY <1>10, <1>13, <2>4, <2>5 DEF Unref, P, Q
  <1> QED
    BY <1>12, <1>13

\* The tables with the items D soft-deleted.
LEMMA RetiredFacts ==
    ASSUME NEW S \in TypedTables, NEW D \in SUBSET Items, \A i \in D : S.files[i] # NoFile
    PROVE  /\ Retired(S, D) \in TypedTables
           /\ Retired(S, D).rows = S.rows /\ Retired(S, D).objects = S.objects
           /\ \A i \in Items \ D : Retired(S, D).files[i] = S.files[i]
           /\ \A i \in D : Retired(S, D).files[i] = Gone(S.files[i])
           /\ \A i \in Items : Retired(S, D).files[i] # NoFile <=> S.files[i] # NoFile
           /\ \A i \in Items : S.files[i] # NoFile =>
                Retired(S, D).files[i].at = S.files[i].at /\ Retired(S, D).files[i].blob = S.files[i].blob
  <1>1. /\ S.files \in [Items -> FileRows \cup {NoFile}] /\ S.rows \in [Ids -> StorageRows \cup {NoRow}]
        /\ S.objects \in SUBSET Keys /\ S = [files |-> S.files, rows |-> S.rows, objects |-> S.objects]
    BY TableFacts
  <1> DEFINE F == [i \in Items |-> IF i \in D THEN Gone(S.files[i]) ELSE S.files[i]]
  <1>2. ASSUME NEW i \in D
        PROVE  /\ Gone(S.files[i]) \in FileRows /\ Gone(S.files[i]) # NoFile
               /\ Gone(S.files[i]).at = S.files[i].at /\ Gone(S.files[i]).blob = S.files[i].blob
    <2>1. S.files[i] \in FileRows
      BY TableFacts
    <2> QED
      BY <2>1, FileGone
  <1>3. F \in [Items -> FileRows \cup {NoFile}]
    BY <1>1, <1>2
  <1>4. Retired(S, D) = [files |-> F, rows |-> S.rows, objects |-> S.objects]
    BY <1>1 DEF Retired
  <1>5. Retired(S, D) \in TypedTables /\ Retired(S, D).files = F
    BY <1>1, <1>3, <1>4 DEF TypedTables
  <1>6. /\ \A i \in Items \ D : F[i] = S.files[i]
        /\ \A i \in D : F[i] = Gone(S.files[i])
    OBVIOUS
  <1> QED
    BY <1>2, <1>4, <1>5, <1>6

\* One item more is soft-deleted, after others have been released.
LEMMA RetireMore ==
    ASSUME NEW S \in TypedTables, NEW D \in SUBSET Items, \A j \in D : S.files[j] # NoFile,
           NEW i \in Items \ D, S.files[i] # NoFile,
           NEW T \in TypedTables, T.rows = AfterRelease(S, Retired(S, D), D).rows,
           T.objects = AfterRelease(S, Retired(S, D), D).objects,
           T.files[i] = Gone(AfterRelease(S, Retired(S, D), D).files[i]),
           \A j \in Items \ {i} : T.files[j] = AfterRelease(S, Retired(S, D), D).files[j]
    PROVE  T = AfterRelease(S, Retired(S, D \cup {i}), D)
  <1> DEFINE W == Retired(S, D)
             V == Retired(S, D \cup {i})
  <1>1. /\ W \in TypedTables /\ V \in TypedTables
        /\ W.rows = S.rows /\ V.rows = S.rows /\ W.objects = S.objects /\ V.objects = S.objects
        /\ \A j \in Items \ {i} : V.files[j] = W.files[j]
        /\ W.files[i] = S.files[i] /\ V.files[i] = Gone(S.files[i])
    <2>1. D \cup {i} \in SUBSET Items /\ \A j \in D \cup {i} : S.files[j] # NoFile
      OBVIOUS
    <2>2. /\ W \in TypedTables /\ W.rows = S.rows /\ W.objects = S.objects
          /\ \A j \in Items \ D : W.files[j] = S.files[j]
          /\ \A j \in D : W.files[j] = Gone(S.files[j])
      BY RetiredFacts
    <2>3. /\ V \in TypedTables /\ V.rows = S.rows /\ V.objects = S.objects
          /\ \A j \in Items \ (D \cup {i}) : V.files[j] = S.files[j]
          /\ \A j \in D \cup {i} : V.files[j] = Gone(S.files[j])
      BY <2>1, RetiredFacts
    <2> HIDE DEF W, V
    <2>4. ASSUME NEW j \in Items \ {i} PROVE V.files[j] = W.files[j]
      BY <2>2, <2>3
    <2> QED
      BY <2>2, <2>3, <2>4
  <1> HIDE DEF W, V
  <1>2. Dead(S, V, D) = Dead(S, W, D) /\ \A b : Left(S, V, D, b) = Left(S, W, D, b)
    BY <1>1 DEF Dead, Left
  <1>3. AfterRelease(S, V, D).rows = AfterRelease(S, W, D).rows
    BY <1>1, <1>2 DEF AfterRelease
  <1>4. AfterRelease(S, V, D).objects = AfterRelease(S, W, D).objects
    BY <1>1, <1>2 DEF AfterRelease
  <1>5. /\ \A j \in Items : AfterRelease(S, V, D).files[j] = Unlinked(V.files[j], Dead(S, W, D))
        /\ \A j \in Items : AfterRelease(S, W, D).files[j] = Unlinked(W.files[j], Dead(S, W, D))
        /\ AfterRelease(S, V, D) \in TypedTables
    <2>1. FilesReleased(S, V, D) /\ FilesReleased(S, W, D)
      BY <1>1, AfterFiles
    <2> QED
      BY <2>1, <1>2 DEF FilesReleased
  <1>6. \A j \in Items \ {i} : AfterRelease(S, V, D).files[j] = T.files[j]
    BY <1>1, <1>5 DEF W
  <1>7. AfterRelease(S, V, D).files[i] = T.files[i]
    <2>1. S.files[i] \in FileRows
      BY TableFacts
    <2>2. Unlinked(Gone(S.files[i]), Dead(S, W, D)) = Gone(Unlinked(S.files[i], Dead(S, W, D)))
      BY <2>1, NullAssumption, UnlinkedFacts
    <2>3. T.files[i] = Gone(Unlinked(S.files[i], Dead(S, W, D)))
      BY <1>1, <1>5 DEF W
    <2> QED
      BY <1>1, <1>5, <2>2, <2>3
  <1>8. AfterRelease(S, V, D).files = T.files
    <2>1. AfterRelease(S, V, D).files \in [Items -> FileRows \cup {NoFile}]
          /\ T.files \in [Items -> FileRows \cup {NoFile}]
      BY <1>5, TableFacts
    <2> QED
      BY <1>6, <1>7, <2>1
  <1>9. T.rows = AfterRelease(S, V, D).rows /\ T.objects = AfterRelease(S, V, D).objects
    BY <1>3, <1>4 DEF W
  <1>10. T = AfterRelease(S, V, D)
    BY <1>5, <1>8, <1>9, SameTables DEF TypedTables
  <1> QED
    BY <1>10 DEF V

-----------------------------------------------------------------------------
\* How the refinement shows tables: a content is known by its hash.
Columns(row) == [count |-> row.count, name |-> row.name, infected |-> row.infected]
HashOf(T, b) == IF b = NoId THEN NoHash ELSE T.rows[b].hash

RowShown(T, h) ==
    LET ids == {b \in Ids : T.rows[b] # NoRow /\ T.rows[b].hash = h}
    IN  IF ids = {} THEN NoRow ELSE Columns(T.rows[CHOOSE b \in ids : TRUE])

FileShown(T, i) ==
    IF T.files[i] = NoFile THEN NoFile
    ELSE [T.files[i] EXCEPT !.blob = HashOf(T, T.files[i].blob)]

\* A file of StorageLifecycle with another content.
Relinked(file, h) == [file EXCEPT !.blob = h]
ShownRows == [count : Int, name : Names, infected : BOOLEAN]
ShownFiles == [at : Places, blob : Hashes \cup {NoHash}, live : BOOLEAN, expires : BOOLEAN]

\* The tables of StorageLifecycle are those of T.
Shows(T) == Shown = T

Loss(S, D, h) == Cardinality({i \in D : HashOf(S, S.files[i].blob) = h})
DeadHashes(S, W, D) ==
    {h \in Hashes : RowShown(W, h) # NoRow /\ Loss(S, D, h) > 0 /\ RowShown(W, h).count - Loss(S, D, h) <= 0}

\* W has the contents of S.
Extends(S, W) == \A b \in Ids : S.rows[b] # NoRow => W.rows[b] # NoRow /\ W.rows[b].hash = S.rows[b].hash

-----------------------------------------------------------------------------
\* What the refinement shows is that of the tables that show.
LEMMA ShownFacts ==
    /\ \A i : ShownFile(i) = FileShown(Shown, i)
    /\ \A i : ShownFile(i)' = FileShown(Shown', i)
    /\ \A h : ShownRow(h) = RowShown(Shown, h)
    /\ \A h : ShownRow(h)' = RowShown(Shown', h)
  <1>1. \A i : ShownFile(i) = FileShown(Shown, i)
    BY DEF ShownFile, FileShown, HashOf
  <1>2. \A i : ShownFile(i)' = FileShown(Shown', i)
    BY DEF ShownFile, FileShown, HashOf
  <1>3. \A h : ShownRow(h) = RowShown(Shown, h)
    BY DEF ShownRow, RowShown, Columns
  <1>4. \A h : ShownRow(h)' = RowShown(Shown', h)
    BY DEF ShownRow, RowShown, Columns
  <1> QED
    BY <1>1, <1>2, <1>3, <1>4

\* Well-formed tables have one row for a content.
LEMMA StoredShown ==
    ASSUME NEW T, WellFormed(T), NEW b \in Ids, T.rows[b] # NoRow
    PROVE  /\ RowShown(T, T.rows[b].hash) = Columns(T.rows[b])
           /\ Columns(T.rows[b]) \in ShownRows /\ Columns(T.rows[b]) # NoRow
           /\ T.rows[b].hash \in Hashes
  <1> DEFINE ids == {c \in Ids : T.rows[c] # NoRow /\ T.rows[c].hash = T.rows[b].hash}
  <1>1. ids = {b}
    BY DEF WellFormed
  <1>2. (CHOOSE c \in ids : TRUE) = b
    BY <1>1
  <1>3. RowShown(T, T.rows[b].hash) = Columns(T.rows[b])
    BY <1>1, <1>2 DEF RowShown
  <1>4. /\ T.rows[b].count \in Int /\ T.rows[b].name \in Names /\ T.rows[b].infected \in BOOLEAN
        /\ T.rows[b].hash \in Hashes
    BY TableFacts DEF WellFormed
  <1>5. Columns(T.rows[b]) \in ShownRows
    BY <1>4 DEF Columns, ShownRows
  <1> QED
    BY <1>3, <1>4, <1>5, NullAssumption DEF ShownRows

\* A content that is not stored shows no row.
LEMMA NothingShown ==
    ASSUME NEW T, NEW h, ~Stored(T, h)
    PROVE  RowShown(T, h) = NoRow
  BY DEF Stored, RowShown

\* A row that shows is stored.
LEMMA ShownStored ==
    ASSUME NEW T, WellFormed(T), NEW h, RowShown(T, h) # NoRow
    PROVE  \E b \in Ids : T.rows[b] # NoRow /\ T.rows[b].hash = h /\ RowShown(T, h) = Columns(T.rows[b])
  <1>1. PICK b \in Ids : T.rows[b] # NoRow /\ T.rows[b].hash = h
    BY NothingShown DEF Stored
  <1> QED
    BY <1>1, StoredShown

\* The content of a file is a stored one.
LEMMA HashFacts ==
    ASSUME NEW T, WellFormed(T), NEW i \in Items, T.files[i] # NoFile
    PROVE  /\ HashOf(T, T.files[i].blob) \in Hashes \cup {NoHash}
           /\ HashOf(T, T.files[i].blob) = NoHash <=> T.files[i].blob = NoId
           /\ \A b \in Ids : T.rows[b] # NoRow =>
                (HashOf(T, T.files[i].blob) = T.rows[b].hash <=> T.files[i].blob = b)
  <1>1. T.files[i].blob \in Ids \cup {NoId}
    BY TableFacts DEF WellFormed
  <1>2. \A b \in Ids : T.rows[b] # NoRow => T.rows[b].hash \in Hashes
    BY TableFacts DEF WellFormed
  <1>3. CASE T.files[i].blob = NoId
    BY <1>2, <1>3, NullAssumption DEF HashOf
  <1>4. CASE T.files[i].blob # NoId
    <2>1. T.files[i].blob \in Ids /\ T.rows[T.files[i].blob] # NoRow
      BY <1>1, <1>4 DEF WellFormed
    <2>2. HashOf(T, T.files[i].blob) = T.rows[T.files[i].blob].hash
      BY <1>4 DEF HashOf
    <2>3. \A b \in Ids : T.rows[b] # NoRow /\ T.rows[b].hash = T.rows[T.files[i].blob].hash => b = T.files[i].blob
      BY <2>1 DEF WellFormed
    <2> QED
      BY <1>2, <1>4, <2>1, <2>2, <2>3, NullAssumption
  <1> QED
    BY <1>3, <1>4

\* What is shown of a file.
LEMMA FileFacts ==
    ASSUME NEW T, WellFormed(T), NEW i \in Items
    PROVE  /\ FileShown(T, i) = NoFile <=> T.files[i] = NoFile
           /\ T.files[i] # NoFile =>
                /\ FileShown(T, i) \in ShownFiles
                /\ FileShown(T, i).at = T.files[i].at /\ FileShown(T, i).live = T.files[i].live
                /\ FileShown(T, i).expires = T.files[i].expires
                /\ FileShown(T, i).blob = HashOf(T, T.files[i].blob)
  <1>1. CASE T.files[i] = NoFile
    BY <1>1 DEF FileShown
  <1>2. CASE T.files[i] # NoFile
    <2>1. T.files[i] \in FileRows /\ HashOf(T, T.files[i].blob) \in Hashes \cup {NoHash}
      BY <1>2, TableFacts, HashFacts DEF WellFormed
    <2>2. FileShown(T, i) = [T.files[i] EXCEPT !.blob = HashOf(T, T.files[i].blob)]
      BY <1>2 DEF FileShown
    <2>3. FileShown(T, i) \in ShownFiles
      BY <2>1, <2>2 DEF FileRows, ShownFiles
    <2>4. FileShown(T, i) # NoFile
      BY <2>3, NullAssumption DEF ShownFiles
    <2> QED
      BY <1>2, <2>1, <2>2, <2>3, <2>4 DEF FileRows
  <1> QED
    BY <1>1, <1>2

\* Two files that look the same are shown as the same.
LEMMA SameShown ==
    ASSUME NEW x \in ShownFiles, NEW y \in ShownFiles,
           x.at = y.at, x.blob = y.blob, x.live = y.live, x.expires = y.expires
    PROVE  x = y
  BY DEF ShownFiles

\* Releases leave well-formed tables.
LEMMA AfterWellFormed ==
    ASSUME NEW S, NEW W, WellFormed(W), NEW D \in SUBSET Items
    PROVE  WellFormed(AfterRelease(S, W, D))
  <1> DEFINE U == AfterRelease(S, W, D)
  <1>0. W \in TypedTables
    BY DEF WellFormed
  <1>1. RowsReleased(S, W, D) /\ FilesReleased(S, W, D)
    BY <1>0, AfterRows, AfterFiles
  <1>2. ASSUME NEW b \in Ids, U.rows[b] # NoRow
        PROVE  W.rows[b] # NoRow /\ U.rows[b].hash = W.rows[b].hash
    <2>1. W.rows[b] # NoRow /\ b \notin Dead(S, W, D)
      BY <1>1, <1>2 DEF RowsReleased
    <2>2. U.rows[b] = WithCount(W.rows[b], Left(S, W, D, b)) /\ Left(S, W, D, b) \in Int /\ W.rows[b] \in StorageRows
      BY <1>1, <2>1 DEF RowsReleased
    <2> QED
      BY <2>1, <2>2, RowCounted
  <1>3. ASSUME NEW i \in Items, U.files[i] # NoFile, U.files[i].blob # NoId
        PROVE  U.rows[U.files[i].blob] # NoRow
    <2>1. U.files[i] = Unlinked(W.files[i], Dead(S, W, D)) /\ W.files[i] \in FileRows \cup {NoFile}
      BY <1>0, <1>1, TableFacts DEF FilesReleased
    <2>2. W.files[i] # NoFile /\ W.files[i].blob \notin Dead(S, W, D) /\ U.files[i] = W.files[i]
      BY <2>1, <1>3, UnlinkedFacts
    <2>3. W.rows[W.files[i].blob] # NoRow /\ W.files[i].blob \in Ids
      BY <1>0, <1>3, <2>2, TableFacts DEF WellFormed
    <2> QED
      BY <1>1, <2>2, <2>3 DEF RowsReleased
  <1>4. U \in TypedTables
    BY <1>1 DEF FilesReleased
  <1> HIDE DEF U
  <1>5. \A b, c \in Ids : U.rows[b] # NoRow /\ U.rows[c] # NoRow /\ U.rows[b].hash = U.rows[c].hash => b = c
    BY <1>2 DEF WellFormed
  <1>6. WellFormed(U)
    BY <1>3, <1>4, <1>5 DEF WellFormed
  <1> QED
    BY <1>6 DEF U

\* What a content loses is what its row does.
LEMMA LossFacts ==
    ASSUME NEW S, NEW W, WellFormed(S), WellFormed(W), Extends(S, W), NEW D \in SUBSET Items,
           \A i \in D : S.files[i] # NoFile, NEW b \in Ids, W.rows[b] # NoRow
    PROVE  /\ Loss(S, D, W.rows[b].hash) = Cardinality(Lost(S, D, b))
           /\ b \in Dead(S, W, D) <=> W.rows[b].hash \in DeadHashes(S, W, D)
  <1>1. ASSUME NEW i \in D
        PROVE  HashOf(S, S.files[i].blob) = W.rows[b].hash <=> S.files[i].blob = b
    <2>1. S.files[i] # NoFile /\ S.files[i].blob \in Ids \cup {NoId} /\ W.rows[b].hash \in Hashes
      BY TableFacts DEF WellFormed
    <2>2. CASE S.files[i].blob = NoId
      BY <2>1, <2>2, NullAssumption DEF HashOf
    <2>3. CASE S.files[i].blob # NoId
      <3>1. S.files[i].blob \in Ids /\ S.rows[S.files[i].blob] # NoRow
        BY <2>1, <2>3 DEF WellFormed
      <3>2. W.rows[S.files[i].blob] # NoRow /\ W.rows[S.files[i].blob].hash = HashOf(S, S.files[i].blob)
        BY <3>1, <2>3 DEF Extends, HashOf
      <3> QED
        BY <3>1, <3>2 DEF WellFormed
    <2> QED
      BY <2>2, <2>3
  <1>2. {i \in D : HashOf(S, S.files[i].blob) = W.rows[b].hash} = Lost(S, D, b)
    BY <1>1 DEF Lost
  <1>3. Loss(S, D, W.rows[b].hash) = Cardinality(Lost(S, D, b))
    BY <1>2 DEF Loss
  <1>4. /\ RowShown(W, W.rows[b].hash) = Columns(W.rows[b]) /\ Columns(W.rows[b]) # NoRow
        /\ W.rows[b].hash \in Hashes
    BY StoredShown
  <1>5. Columns(W.rows[b]).count = W.rows[b].count
    BY DEF Columns
  <1>6. /\ Cardinality(Lost(S, D, b)) \in Nat
        /\ Lost(S, D, b) = {} => Cardinality(Lost(S, D, b)) = 0
        /\ Lost(S, D, b) # {} => Cardinality(Lost(S, D, b)) >= 1
    BY LostFacts
  <1> QED
    BY <1>3, <1>4, <1>5, <1>6 DEF Dead, DeadHashes, Left

\* Releases, as they are shown.
LEMMA ShownReleases ==
    ASSUME NEW S, NEW W, WellFormed(S), WellFormed(W), Extends(S, W), NEW D \in SUBSET Items,
           \A i \in D : S.files[i] # NoFile, NEW U, U = AfterRelease(S, W, D)
    PROVE  /\ \A h \in Hashes : RowShown(U, h) =
                IF RowShown(W, h) = NoRow \/ h \in DeadHashes(S, W, D) THEN NoRow
                ELSE WithCount(RowShown(W, h), RowShown(W, h).count - Loss(S, D, h))
           /\ \A i \in Items : FileShown(U, i) =
                IF FileShown(W, i) # NoFile /\ FileShown(W, i).blob \in DeadHashes(S, W, D)
                THEN Relinked(FileShown(W, i), NoHash) ELSE FileShown(W, i)
           /\ U.objects = W.objects \ {<<h, RowShown(W, h).name>> : h \in DeadHashes(S, W, D)}
  <1>0. W \in TypedTables /\ WellFormed(U)
    <2>1. WellFormed(AfterRelease(S, W, D))
      BY AfterWellFormed
    <2> QED
      BY <2>1 DEF WellFormed
  <1>1. RowsReleased(S, W, D) /\ FilesReleased(S, W, D)
    BY <1>0, AfterRows, AfterFiles
  <1>2. \A b \in Ids : W.rows[b] # NoRow =>
          /\ Loss(S, D, W.rows[b].hash) = Cardinality(Lost(S, D, b))
          /\ b \in Dead(S, W, D) <=> W.rows[b].hash \in DeadHashes(S, W, D)
    BY LossFacts
  <1>3. ASSUME NEW h \in Hashes, RowShown(W, h) = NoRow
        PROVE  RowShown(U, h) = NoRow
    <2>1. \A b \in Ids : W.rows[b] # NoRow => W.rows[b].hash # h
      BY <1>3, StoredShown
    <2>2. ASSUME NEW b \in Ids, U.rows[b] # NoRow PROVE U.rows[b].hash # h
      <3>1. /\ W.rows[b] # NoRow /\ b \notin Dead(S, W, D) /\ W.rows[b] \in StorageRows
            /\ Left(S, W, D, b) \in Int /\ U.rows[b] = WithCount(W.rows[b], Left(S, W, D, b))
        BY <2>2, <1>1 DEF RowsReleased
      <3> QED
        BY <2>1, <3>1, RowCounted
    <2> QED
      BY <2>2, NothingShown DEF Stored
  <1>4. ASSUME NEW h \in Hashes, RowShown(W, h) # NoRow
        PROVE  RowShown(U, h) = IF h \in DeadHashes(S, W, D) THEN NoRow
                                ELSE WithCount(RowShown(W, h), RowShown(W, h).count - Loss(S, D, h))
    <2>1. PICK b \in Ids : W.rows[b] # NoRow /\ W.rows[b].hash = h /\ RowShown(W, h) = Columns(W.rows[b])
      BY <1>4, ShownStored
    <2>2. b \in Dead(S, W, D) <=> h \in DeadHashes(S, W, D)
      BY <1>2, <2>1
    <2>3. Loss(S, D, h) = Cardinality(Lost(S, D, b))
      BY <1>2, <2>1
    <2>4. CASE b \in Dead(S, W, D)
      <3>1. U.rows[b] = NoRow
        BY <1>1, <2>4 DEF RowsReleased
      <3>2. ASSUME NEW c \in Ids, U.rows[c] # NoRow PROVE U.rows[c].hash # h
        <4>1. /\ W.rows[c] # NoRow /\ c \notin Dead(S, W, D) /\ W.rows[c] \in StorageRows
              /\ Left(S, W, D, c) \in Int /\ U.rows[c] = WithCount(W.rows[c], Left(S, W, D, c))
          BY <3>2, <1>1 DEF RowsReleased
        <4>2. U.rows[c].hash = W.rows[c].hash
          BY <4>1, RowCounted
        <4> QED
          BY <4>1, <4>2, <2>1, <2>4 DEF WellFormed
      <3> QED
        BY <2>2, <2>4, <3>2, NothingShown DEF Stored
    <2>5. CASE b \notin Dead(S, W, D)
      <3>1. /\ W.rows[b] \in StorageRows /\ U.rows[b] # NoRow
            /\ Left(S, W, D, b) \in Int /\ U.rows[b] = WithCount(W.rows[b], Left(S, W, D, b))
        BY <2>1, <2>5, <1>1 DEF RowsReleased
      <3>2. U.rows[b].hash = h
        BY <2>1, <3>1, RowCounted
      <3>3. RowShown(U, h) = Columns(U.rows[b])
        BY <1>0, <3>1, <3>2, StoredShown
      <3>4. Columns(WithCount(W.rows[b], Left(S, W, D, b))) = WithCount(Columns(W.rows[b]), Left(S, W, D, b))
        BY <3>1 DEF Columns, WithCount, StorageRows
      <3>5. Left(S, W, D, b) = Columns(W.rows[b]).count - Loss(S, D, h)
        BY <2>3 DEF Left, Columns
      <3> QED
        BY <2>1, <2>2, <2>5, <3>1, <3>3, <3>4, <3>5
    <2> QED
      BY <2>4, <2>5
  <1>5. ASSUME NEW i \in Items
        PROVE  FileShown(U, i) =
                 IF FileShown(W, i) # NoFile /\ FileShown(W, i).blob \in DeadHashes(S, W, D)
                 THEN Relinked(FileShown(W, i), NoHash) ELSE FileShown(W, i)
    <2>1. U.files[i] = Unlinked(W.files[i], Dead(S, W, D)) /\ W.files[i] \in FileRows \cup {NoFile}
      BY <1>0, <1>1, TableFacts DEF FilesReleased
    <2>2. CASE W.files[i] = NoFile
      <3>1. U.files[i] = NoFile
        BY <2>1, <2>2, UnlinkedFacts
      <3> QED
        BY <3>1, <2>2 DEF FileShown
    <2>3. CASE W.files[i] # NoFile
      <3>1. /\ FileShown(W, i) \in ShownFiles /\ FileShown(W, i) # NoFile
            /\ FileShown(W, i).at = W.files[i].at /\ FileShown(W, i).live = W.files[i].live
            /\ FileShown(W, i).expires = W.files[i].expires
            /\ FileShown(W, i).blob = HashOf(W, W.files[i].blob)
        BY <2>3, FileFacts
      <3>2. /\ HashOf(W, W.files[i].blob) = NoHash <=> W.files[i].blob = NoId
            /\ W.files[i].blob \in Ids \cup {NoId}
            /\ W.files[i].blob # NoId => W.rows[W.files[i].blob] # NoRow
        BY <2>3, HashFacts, TableFacts DEF WellFormed
      <3>3. W.files[i].blob \in Dead(S, W, D) <=> FileShown(W, i).blob \in DeadHashes(S, W, D)
        <4>1. CASE W.files[i].blob = NoId
          BY <4>1, <1>1, <3>1, <3>2, NullAssumption DEF FilesReleased, DeadHashes
        <4>2. CASE W.files[i].blob # NoId
          BY <4>2, <1>2, <3>1, <3>2 DEF HashOf
        <4> QED
          BY <4>1, <4>2
      <3>4. CASE W.files[i].blob \in Dead(S, W, D)
        <4>1. /\ U.files[i] # NoFile /\ U.files[i].at = W.files[i].at /\ U.files[i].live = W.files[i].live
              /\ U.files[i].expires = W.files[i].expires /\ U.files[i].blob = NoId
          BY <2>1, <2>3, <3>4, UnlinkedFacts
        <4>2. /\ FileShown(U, i) \in ShownFiles
              /\ FileShown(U, i).at = U.files[i].at /\ FileShown(U, i).live = U.files[i].live
              /\ FileShown(U, i).expires = U.files[i].expires
              /\ FileShown(U, i).blob = HashOf(U, U.files[i].blob)
          BY <1>0, <4>1, FileFacts
        <4>3. /\ Relinked(FileShown(W, i), NoHash) \in ShownFiles
              /\ Relinked(FileShown(W, i), NoHash).at = W.files[i].at
              /\ Relinked(FileShown(W, i), NoHash).live = W.files[i].live
              /\ Relinked(FileShown(W, i), NoHash).expires = W.files[i].expires
              /\ Relinked(FileShown(W, i), NoHash).blob = NoHash
          BY <3>1 DEF ShownFiles, Relinked
        <4>4. FileShown(U, i).blob = NoHash
          BY <4>1, <4>2 DEF HashOf
        <4> QED
          BY <3>1, <3>3, <3>4, <4>1, <4>2, <4>3, <4>4, SameShown
      <3>5. CASE W.files[i].blob \notin Dead(S, W, D)
        <4>1. U.files[i] = W.files[i]
          BY <2>1, <3>5, UnlinkedFacts
        <4>2. HashOf(U, U.files[i].blob) = HashOf(W, W.files[i].blob)
          <5>1. CASE W.files[i].blob = NoId
            BY <4>1, <5>1 DEF HashOf
          <5>2. CASE W.files[i].blob # NoId
            <6> DEFINE b == W.files[i].blob
            <6>1. /\ W.rows[b] \in StorageRows /\ b \in Ids
                  /\ Left(S, W, D, b) \in Int /\ U.rows[b] = WithCount(W.rows[b], Left(S, W, D, b))
              BY <5>2, <3>2, <3>5, <1>1 DEF RowsReleased
            <6>2. U.rows[b].hash = W.rows[b].hash
              BY <6>1, RowCounted
            <6> QED
              BY <4>1, <5>2, <6>2 DEF HashOf
          <5> QED
            BY <5>1, <5>2
        <4> QED
          BY <3>1, <3>3, <3>5, <4>1, <4>2 DEF FileShown
      <3> QED
        BY <3>4, <3>5
    <2> QED
      BY <2>2, <2>3
  <1>6. U.objects = W.objects \ {<<h, RowShown(W, h).name>> : h \in DeadHashes(S, W, D)}
    <2>1. ASSUME NEW b \in Dead(S, W, D)
          PROVE  \E h \in DeadHashes(S, W, D) : KeyOf(W.rows[b]) = <<h, RowShown(W, h).name>>
      <3>1. W.rows[b] # NoRow /\ b \in Ids
        BY DEF Dead
      <3>2. W.rows[b].hash \in DeadHashes(S, W, D) /\ RowShown(W, W.rows[b].hash) = Columns(W.rows[b])
        BY <3>1, <1>2, StoredShown
      <3> QED
        BY <3>2 DEF KeyOf, Columns
    <2>2. ASSUME NEW h \in DeadHashes(S, W, D)
          PROVE  \E b \in Dead(S, W, D) : KeyOf(W.rows[b]) = <<h, RowShown(W, h).name>>
      <3>1. RowShown(W, h) # NoRow
        BY DEF DeadHashes
      <3>2. PICK b \in Ids : W.rows[b] # NoRow /\ W.rows[b].hash = h /\ RowShown(W, h) = Columns(W.rows[b])
        BY <3>1, ShownStored
      <3>3. b \in Dead(S, W, D)
        BY <1>2, <3>2
      <3> QED
        BY <3>2, <3>3 DEF KeyOf, Columns
    <2>3. {KeyOf(W.rows[b]) : b \in Dead(S, W, D)} = {<<h, RowShown(W, h).name>> : h \in DeadHashes(S, W, D)}
      BY <2>1, <2>2
    <2>4. U.objects = W.objects \ {KeyOf(W.rows[b]) : b \in Dead(S, W, D)}
      BY DEF AfterRelease
    <2> QED
      BY <2>3, <2>4
  <1> QED
    BY <1>3, <1>4, <1>5, <1>6

-----------------------------------------------------------------------------
\* StorageLifecycle counts as this module does.
LEMMA LifecycleCounts == \A D : Lifecycle!Cardinality(D) = Cardinality(D)
  BY DEF Lifecycle!Cardinality, Cardinality

\* The tables that StorageLifecycle sees.
LEMMA LifecycleSees ==
    ASSUME NEW S, WellFormed(S), Shown = S
    PROVE  /\ \A i \in Items : Lifecycle!Exists(i) <=> S.files[i] # NoFile
           /\ \A i \in Items : Lifecycle!Live(i) <=> Live(S.files, i)
           /\ \A p : Lifecycle!LiveAt(p) = LiveIn(S, p)
           /\ \A u : Lifecycle!OwnedBy(u) = {i \in Items : Owned(S, {i}, u)}
           /\ \A D \in SUBSET Items : (\A i \in D : S.files[i] # NoFile) =>
                Lifecycle!Count(D) = [h \in Hashes |-> Loss(S, D, h)]
  <1>1. \A i : ShownFile(i) = FileShown(S, i)
    BY ShownFacts
  <1>2. \A i \in Items : FileShown(S, i) = NoFile <=> S.files[i] = NoFile
    BY FileFacts
  <1>3. \A i \in Items : S.files[i] # NoFile =>
          /\ FileShown(S, i).at = S.files[i].at /\ FileShown(S, i).live = S.files[i].live
          /\ FileShown(S, i).blob = HashOf(S, S.files[i].blob)
    BY FileFacts
  <1>4. \A i \in Items : Lifecycle!Exists(i) <=> S.files[i] # NoFile
    BY <1>1, <1>2 DEF Lifecycle!Exists
  <1>5. \A i \in Items : Lifecycle!Live(i) <=> Live(S.files, i)
    BY <1>1, <1>3, <1>4 DEF Lifecycle!Live, Live
  <1>6. ASSUME NEW p PROVE Lifecycle!LiveAt(p) = LiveIn(S, p)
    <2>1. \A i \in Items : Live(S.files, i) => ShownFile(i).at = S.files[i].at
      BY <1>1, <1>3 DEF Live
    <2> QED
      BY <1>5, <2>1 DEF Lifecycle!LiveAt, LiveIn
  <1>7. ASSUME NEW u PROVE Lifecycle!OwnedBy(u) = {i \in Items : Owned(S, {i}, u)}
    <2>1. \A i \in Items : S.files[i] # NoFile => ShownFile(i).at = S.files[i].at
      BY <1>1, <1>3
    <2> QED
      BY <1>4, <2>1 DEF Lifecycle!OwnedBy, Owned
  <1>8. ASSUME NEW D \in SUBSET Items, \A i \in D : S.files[i] # NoFile
        PROVE  Lifecycle!Count(D) = [h \in Hashes |-> Loss(S, D, h)]
    <2>1. ASSUME NEW h \in Hashes
          PROVE  {i \in D : [j \in Items |-> ShownFile(j)][i].blob = h} = {i \in D : HashOf(S, S.files[i].blob) = h}
      BY <1>1, <1>3, <1>8
    <2>2. \A h \in Hashes : Cardinality({i \in D : [j \in Items |-> ShownFile(j)][i].blob = h}) = Loss(S, D, h)
      BY <2>1 DEF Loss
    <2>3. Lifecycle!Count(D) =
            [h \in Hashes |-> Lifecycle!Cardinality({i \in D : [j \in Items |-> ShownFile(j)][i].blob = h})]
      BY DEF Lifecycle!Count
    <2> QED
      BY <2>2, <2>3, LifecycleCounts
  <1> QED
    BY <1>4, <1>5, <1>6, <1>7, <1>8

\* Released contents are settled.
LEMMA Settles ==
    ASSUME NEW S, NEW W, WellFormed(S), WellFormed(W), Extends(S, W), NEW D \in SUBSET Items,
           \A i \in D : S.files[i] # NoFile, Shown' = AfterRelease(S, W, D)
    PROVE  Lifecycle!Settle([i \in Items |-> FileShown(W, i)], [h \in Hashes |-> RowShown(W, h)],
                            W.objects, [h \in Hashes |-> Loss(S, D, h)])
  <1> DEFINE U == AfterRelease(S, W, D)
             fs == [i \in Items |-> FileShown(W, i)]
             rs == [h \in Hashes |-> RowShown(W, h)]
             ls == [h \in Hashes |-> Loss(S, D, h)]
             dead == {h \in Hashes : rs[h] # NoRow /\ ls[h] > 0 /\ rs[h].count - ls[h] <= 0}
  <1>1. /\ \A h \in Hashes : RowShown(U, h) =
             IF RowShown(W, h) = NoRow \/ h \in DeadHashes(S, W, D) THEN NoRow
             ELSE WithCount(RowShown(W, h), RowShown(W, h).count - Loss(S, D, h))
        /\ \A i \in Items : FileShown(U, i) =
             IF FileShown(W, i) # NoFile /\ FileShown(W, i).blob \in DeadHashes(S, W, D)
             THEN Relinked(FileShown(W, i), NoHash) ELSE FileShown(W, i)
        /\ U.objects = W.objects \ {<<h, RowShown(W, h).name>> : h \in DeadHashes(S, W, D)}
    BY ShownReleases
  <1>2. dead = DeadHashes(S, W, D)
    BY DEF DeadHashes
  <1>3. /\ \A i : ShownFile(i)' = FileShown(U, i)
        /\ \A h : ShownRow(h)' = RowShown(U, h)
        /\ Shown'.objects = U.objects
    BY ShownFacts
  <1> HIDE DEF U, dead
  <1>4. [h \in Hashes |-> ShownRow(h)]' =
           [h \in Hashes |-> IF rs[h] = NoRow \/ h \in dead THEN NoRow
                             ELSE [rs[h] EXCEPT !.count = @ - ls[h]]]
    <2>1. ASSUME NEW h \in Hashes
          PROVE  ShownRow(h)' = IF rs[h] = NoRow \/ h \in dead THEN NoRow
                                ELSE [rs[h] EXCEPT !.count = @ - ls[h]]
      <3>1. rs[h] = RowShown(W, h) /\ ls[h] = Loss(S, D, h)
        OBVIOUS
      <3>2. ShownRow(h)' = IF rs[h] = NoRow \/ h \in dead THEN NoRow
                           ELSE WithCount(rs[h], rs[h].count - ls[h])
        BY <1>1, <1>2, <1>3, <3>1
      <3> HIDE DEF rs, ls
      <3> QED
        BY <3>2 DEF WithCount
    <2> QED
      BY <2>1
  <1>5. Shown'.objects = W.objects \ {<<h, rs[h].name>> : h \in dead}
    <2>1. \A h \in DeadHashes(S, W, D) : rs[h] = RowShown(W, h)
      BY DEF DeadHashes
    <2> HIDE DEF rs, ls
    <2> QED
      BY <1>1, <1>2, <1>3, <2>1
  <1>6. [i \in Items |-> ShownFile(i)]' =
           [i \in Items |-> IF fs[i] # NoFile /\ fs[i].blob \in dead
                            THEN [fs[i] EXCEPT !.blob = NoHash] ELSE fs[i]]
    <2>1. ASSUME NEW i \in Items
          PROVE  ShownFile(i)' = IF fs[i] # NoFile /\ fs[i].blob \in dead
                                 THEN [fs[i] EXCEPT !.blob = NoHash] ELSE fs[i]
      <3>1. fs[i] = FileShown(W, i)
        OBVIOUS
      <3>2. ShownFile(i)' = IF fs[i] # NoFile /\ fs[i].blob \in dead
                            THEN Relinked(fs[i], NoHash) ELSE fs[i]
        BY <1>1, <1>2, <1>3, <3>1
      <3> HIDE DEF fs
      <3> QED
        BY <3>2 DEF Relinked
    <2> QED
      BY <2>1
  <1> HIDE DEF fs, rs, ls
  <1>7. Lifecycle!Settle(fs, rs, W.objects, ls)
    BY <1>4, <1>5, <1>6 DEF Lifecycle!Settle, dead
  <1> QED
    BY <1>7 DEF fs, rs, ls

\* A file that stays is shown as it was.
LEMMA SameFile ==
    ASSUME NEW S, NEW W, WellFormed(S), WellFormed(W), Extends(S, W), NEW i \in Items, W.files[i] = S.files[i]
    PROVE  FileShown(W, i) = FileShown(S, i)
  <1>1. CASE S.files[i] = NoFile
    BY <1>1 DEF FileShown
  <1>2. CASE S.files[i] # NoFile
    <2>1. HashOf(W, S.files[i].blob) = HashOf(S, S.files[i].blob)
      <3>1. S.files[i].blob \in Ids \cup {NoId}
        BY <1>2, TableFacts DEF WellFormed
      <3>2. CASE S.files[i].blob = NoId
        BY <3>2 DEF HashOf
      <3>3. CASE S.files[i].blob # NoId
        <4>1. S.files[i].blob \in Ids /\ S.rows[S.files[i].blob] # NoRow
          BY <1>2, <3>1, <3>3 DEF WellFormed
        <4> QED
          BY <3>3, <4>1 DEF HashOf, Extends
      <3> QED
        BY <3>2, <3>3
    <2> QED
      BY <2>1 DEF FileShown
  <1> QED
    BY <1>1, <1>2

\* Soft-deleted items.
LEMMA RetiredShown ==
    ASSUME NEW S, WellFormed(S), NEW D \in SUBSET Items, \A i \in D : S.files[i] # NoFile
    PROVE  /\ WellFormed(Retired(S, D)) /\ Extends(S, Retired(S, D))
           /\ \A h : RowShown(Retired(S, D), h) = RowShown(S, h)
           /\ \A i \in Items \ D : FileShown(Retired(S, D), i) = FileShown(S, i)
           /\ \A i \in D : FileShown(Retired(S, D), i) = [FileShown(S, i) EXCEPT !.live = FALSE]
  <1>0. S \in TypedTables
    BY DEF WellFormed
  <1> DEFINE W == Retired(S, D)
  <1>1. /\ W \in TypedTables /\ W.rows = S.rows /\ W.objects = S.objects
        /\ \A i \in Items \ D : W.files[i] = S.files[i]
        /\ \A i \in D : W.files[i] = Gone(S.files[i])
        /\ \A i \in Items : W.files[i] # NoFile <=> S.files[i] # NoFile
        /\ \A i \in Items : S.files[i] # NoFile =>
             W.files[i].at = S.files[i].at /\ W.files[i].blob = S.files[i].blob
    BY <1>0, RetiredFacts
  <1> HIDE DEF W
  <1>2. WellFormed(W)
    BY <1>1 DEF WellFormed
  <1>3. Extends(S, W)
    BY <1>1 DEF Extends
  <1>4. \A h : RowShown(W, h) = RowShown(S, h)
    BY <1>1 DEF RowShown
  <1>5. \A i \in Items \ D : FileShown(W, i) = FileShown(S, i)
    BY <1>1, <1>2, <1>3, SameFile
  <1>6. ASSUME NEW i \in D PROVE FileShown(W, i) = [FileShown(S, i) EXCEPT !.live = FALSE]
    <2>1. S.files[i] \in FileRows /\ S.files[i] # NoFile
      BY <1>0, TableFacts
    <2>2. W.files[i] = Gone(S.files[i]) /\ W.files[i] # NoFile /\ W.files[i].blob = S.files[i].blob
      BY <1>1
    <2>3. HashOf(W, W.files[i].blob) = HashOf(S, S.files[i].blob)
      BY <1>1, <2>2 DEF HashOf
    <2>4. FileShown(W, i) = [Gone(S.files[i]) EXCEPT !.blob = HashOf(S, S.files[i].blob)]
      BY <2>2, <2>3 DEF FileShown
    <2>5. FileShown(S, i) = [S.files[i] EXCEPT !.blob = HashOf(S, S.files[i].blob)]
      BY <2>1 DEF FileShown
    <2> QED
      BY <2>1, <2>4, <2>5 DEF Gone, FileRows
  <1> QED
    BY <1>2, <1>3, <1>4, <1>5, <1>6 DEF W

\* Items that are deleted, or have expired.
LEMMA DeleteShown ==
    ASSUME NEW S, WellFormed(S), Shown = S, NEW D \in SUBSET Items, D # {},
           \A i \in D : Live(S.files, i), Shown' = AfterRelease(S, Retired(S, D), D)
    PROVE  /\ \A u : Owned(S, D, u) => Lifecycle!Delete(u, D)
           /\ (\A i \in D : S.files[i].expires) => Lifecycle!Expire(D)
  <1>1. \A i \in D : S.files[i] # NoFile
    BY DEF Live
  <1> DEFINE W == Retired(S, D)
             fs == [i \in Items |-> FileShown(W, i)]
             rs == [h \in Hashes |-> RowShown(W, h)]
  <1>2. /\ WellFormed(W) /\ Extends(S, W)
        /\ \A h : RowShown(W, h) = RowShown(S, h)
        /\ \A i \in Items \ D : FileShown(W, i) = FileShown(S, i)
        /\ \A i \in D : FileShown(W, i) = [FileShown(S, i) EXCEPT !.live = FALSE]
    BY <1>1, RetiredShown
  <1>3. W.objects = S.objects
    BY <1>1, RetiredFacts DEF WellFormed
  <1> HIDE DEF W
  <1>4. Lifecycle!Settle(fs, rs, W.objects, [h \in Hashes |-> Loss(S, D, h)])
    BY <1>1, <1>2, Settles DEF W
  <1>5. /\ \A i : ShownFile(i) = FileShown(S, i)
        /\ \A h : ShownRow(h) = RowShown(S, h)
    BY ShownFacts
  <1>6. fs = [i \in Items |-> IF i \in D THEN [[j \in Items |-> ShownFile(j)][i] EXCEPT !.live = FALSE]
                              ELSE [j \in Items |-> ShownFile(j)][i]]
    <2>1. ASSUME NEW i \in Items
          PROVE  FileShown(W, i) = IF i \in D THEN [[j \in Items |-> ShownFile(j)][i] EXCEPT !.live = FALSE]
                                   ELSE [j \in Items |-> ShownFile(j)][i]
      BY <1>2, <1>5
    <2> QED
      BY <2>1
  <1>7. rs = [h \in Hashes |-> ShownRow(h)]
    BY <1>2, <1>5
  <1>8. /\ \A i \in Items : Lifecycle!Live(i) <=> Live(S.files, i)
        /\ \A u : Lifecycle!OwnedBy(u) = {i \in Items : Owned(S, {i}, u)}
        /\ Lifecycle!Count(D) = [h \in Hashes |-> Loss(S, D, h)]
    BY <1>1, LifecycleSees
  <1> HIDE DEF fs, rs
  <1>9. Lifecycle!Settle([i \in Items |-> IF i \in D THEN [[j \in Items |-> ShownFile(j)][i] EXCEPT !.live = FALSE]
                              ELSE [j \in Items |-> ShownFile(j)][i]],
                         [h \in Hashes |-> ShownRow(h)], Shown.objects, Lifecycle!Count(D))
    BY <1>3, <1>4, <1>6, <1>7, <1>8
  <1>10. \A i \in D : ShownFile(i).live /\ ShownFile(i).expires = S.files[i].expires
    <2>1. \A i \in D : FileShown(S, i).live = S.files[i].live /\ FileShown(S, i).expires = S.files[i].expires
      BY <1>1, FileFacts
    <2> QED
      BY <1>5, <2>1 DEF Live
  <1>11. ASSUME NEW u, Owned(S, D, u) PROVE Lifecycle!Delete(u, D)
    <2>1. D \subseteq {i \in Lifecycle!OwnedBy(u) : [j \in Items |-> ShownFile(j)][i].live}
      BY <1>8, <1>10, <1>11 DEF Owned
    <2> QED
      BY <1>9, <2>1 DEF Lifecycle!Delete
  <1>12. ASSUME \A i \in D : S.files[i].expires PROVE Lifecycle!Expire(D)
    <2>1. \A i \in D : Lifecycle!Live(i) /\ [j \in Items |-> ShownFile(j)][i].expires
      BY <1>8, <1>10, <1>12
    <2> QED
      BY <1>9, <2>1 DEF Lifecycle!Expire
  <1> QED
    BY <1>11, <1>12

-----------------------------------------------------------------------------
Placed(file, p) == [file EXCEPT !.at = p]

\* Tables with other files and the same storage rows.
LEMMA OtherFiles ==
    ASSUME NEW S, WellFormed(S), NEW U \in TypedTables, U.rows = S.rows,
           \A i \in Items : U.files[i] # NoFile =>
              \E j \in Items : S.files[j] # NoFile /\ U.files[i].blob = S.files[j].blob
    PROVE  /\ WellFormed(U) /\ Extends(S, U)
           /\ \A h : RowShown(U, h) = RowShown(S, h)
           /\ \A b : HashOf(U, b) = HashOf(S, b)
           /\ \A i \in Items : U.files[i] = S.files[i] => FileShown(U, i) = FileShown(S, i)
  <1>1. WellFormed(U)
    BY DEF WellFormed
  <1>2. Extends(S, U)
    BY DEF Extends
  <1>3. \A h : RowShown(U, h) = RowShown(S, h)
    BY DEF RowShown
  <1>4. \A b : HashOf(U, b) = HashOf(S, b)
    BY DEF HashOf
  <1>5. \A i \in Items : U.files[i] = S.files[i] => FileShown(U, i) = FileShown(S, i)
    BY <1>4 DEF FileShown
  <1> QED
    BY <1>1, <1>2, <1>3, <1>4, <1>5

\* What a changed file is shown as.
LEMMA ChangedShown ==
    ASSUME NEW T, NEW i, T.files[i] \in FileRows
    PROVE  /\ FileShown(T, i) = Relinked(T.files[i], HashOf(T, T.files[i].blob))
           /\ \A p : Relinked(Placed(T.files[i], p), HashOf(T, T.files[i].blob)) = [FileShown(T, i) EXCEPT !.at = p]
           /\ Relinked(Gone(T.files[i]), HashOf(T, T.files[i].blob)) = [FileShown(T, i) EXCEPT !.live = FALSE]
  <1>1. T.files[i] # NoFile
    BY NullAssumption
  <1>2. FileShown(T, i) = Relinked(T.files[i], HashOf(T, T.files[i].blob))
    BY <1>1 DEF FileShown, Relinked
  <1>3. \A p : Relinked(Placed(T.files[i], p), HashOf(T, T.files[i].blob)) = [FileShown(T, i) EXCEPT !.at = p]
    BY <1>2 DEF Relinked, Placed, FileRows
  <1>4. Relinked(Gone(T.files[i]), HashOf(T, T.files[i].blob)) = [FileShown(T, i) EXCEPT !.live = FALSE]
    BY <1>2 DEF Relinked, Gone, FileRows
  <1> QED
    BY <1>2, <1>3, <1>4

\* A file with another content shows so.
LEMMA RelinkedShown ==
    ASSUME NEW T, NEW i, T.files[i] \in FileRows, NEW b, NEW h
    PROVE  Relinked(WithBlob(T.files[i], b), h) = Relinked(FileShown(T, i), h)
  <1>1. T.files[i] # NoFile
    BY NullAssumption
  <1>2. FileShown(T, i) = Relinked(T.files[i], HashOf(T, T.files[i].blob))
    BY <1>1 DEF FileShown, Relinked
  <1> QED
    BY <1>2 DEF Relinked, WithBlob, FileRows

\* A file that is renamed, or moved.
LEMMA PlacedFacts ==
    ASSUME NEW file \in FileRows, NEW p \in Places
    PROVE  /\ Placed(file, p) \in FileRows /\ Placed(file, p) # NoFile
           /\ Placed(file, p).blob = file.blob /\ Placed(file, p).at = p
           /\ Placed(file, p).live = file.live /\ Placed(file, p).expires = file.expires
  <1>1. Placed(file, p) \in FileRows
    BY DEF FileRows, Placed
  <1> QED
    BY <1>1, NullAssumption DEF FileRows, Placed

\* A file is renamed.
LEMMA RenameShown ==
    ASSUME NEW S, WellFormed(S), Shown = S, NEW i \in Items, Live(S.files, i), NEW p \in Places,
           p.user = S.files[i].at.user, LiveIn(S, p) \ {i} = {},
           NEW U \in TypedTables, Shown' = U, U.rows = S.rows, U.objects = S.objects,
           U.files[i] = Placed(S.files[i], p), \A j \in Items \ {i} : U.files[j] = S.files[j]
    PROVE  Lifecycle!Rename(i, p)
  <1>1. S.files[i] \in FileRows /\ S.files[i] # NoFile
    BY TableFacts DEF WellFormed, Live
  <1>2. U.files[i] \in FileRows /\ U.files[i] # NoFile /\ U.files[i].blob = S.files[i].blob
    BY <1>1, PlacedFacts
  <1>3. /\ WellFormed(U) /\ \A h : RowShown(U, h) = RowShown(S, h)
        /\ \A b : HashOf(U, b) = HashOf(S, b)
        /\ \A j \in Items : U.files[j] = S.files[j] => FileShown(U, j) = FileShown(S, j)
    <2>1. \A j \in Items : U.files[j] # NoFile =>
              \E k \in Items : S.files[k] # NoFile /\ U.files[j].blob = S.files[k].blob
      BY <1>1, <1>2
    <2> QED
      BY <2>1, OtherFiles
  <1>4. FileShown(U, i) = [FileShown(S, i) EXCEPT !.at = p]
    <2>1. FileShown(U, i) = Relinked(U.files[i], HashOf(U, U.files[i].blob))
      BY <1>2, ChangedShown
    <2>2. FileShown(U, i) = Relinked(Placed(S.files[i], p), HashOf(S, S.files[i].blob))
      BY <2>1, <1>2, <1>3
    <2>3. \A q : Relinked(Placed(S.files[i], q), HashOf(S, S.files[i].blob)) = [FileShown(S, i) EXCEPT !.at = q]
      BY <1>1, ChangedShown
    <2> QED
      BY <2>2, <2>3
  <1>5. /\ \A j : ShownFile(j) = FileShown(S, j)
        /\ \A j : ShownFile(j)' = FileShown(U, j)
        /\ \A h : ShownRow(h) = RowShown(S, h)
        /\ \A h : ShownRow(h)' = RowShown(U, h)
    BY ShownFacts
  <1>6. /\ \A j \in Items : Lifecycle!Live(j) <=> Live(S.files, j)
        /\ \A q : Lifecycle!LiveAt(q) = LiveIn(S, q)
    BY LifecycleSees
  <1>7. FileShown(S, i).at = S.files[i].at
    BY <1>1, FileFacts
  <1>8. [j \in Items |-> ShownFile(j)]' =
           [[j \in Items |-> ShownFile(j)] EXCEPT ![i] = [@ EXCEPT !.at = p]]
    BY <1>3, <1>4, <1>5
  <1>9. [h \in Hashes |-> ShownRow(h)]' = [h \in Hashes |-> ShownRow(h)]
    BY <1>3, <1>5
  <1>10. [j \in Items |-> ShownFile(j)][i].at = S.files[i].at
    BY <1>5, <1>7
  <1> QED
    BY <1>6, <1>8, <1>9, <1>10 DEF Lifecycle!Rename

\* Files are moved.
LEMMA MoveShown ==
    ASSUME NEW S, WellFormed(S), Shown = S, NEW M \in SUBSET Items, M # {}, NEW u, Owned(S, M, u),
           NEW f \in Folders, Shown' = MovedTo(S, M, f)
    PROVE  Lifecycle!Move(u, M, f)
  <1> DEFINE U == MovedTo(S, M, f)
  <1>1. \A i \in M : S.files[i] # NoFile /\ S.files[i] \in FileRows
    BY TableFacts DEF WellFormed, Owned
  <1>2. ASSUME NEW i \in M
        PROVE  /\ [S.files[i] EXCEPT !.at = [@ EXCEPT !.folder = f]] = Placed(S.files[i], [S.files[i].at EXCEPT !.folder = f])
               /\ [S.files[i].at EXCEPT !.folder = f] \in Places
    BY <1>1 DEF Placed, FileRows, Places
  <1>3. /\ \A i \in M : U.files[i] = Placed(S.files[i], [S.files[i].at EXCEPT !.folder = f])
        /\ \A i \in Items \ M : U.files[i] = S.files[i]
        /\ U.rows = S.rows /\ U.objects = S.objects
        /\ U.files = [i \in Items |-> U.files[i]]
        /\ U = [files |-> U.files, rows |-> S.rows, objects |-> S.objects]
    <2>1. S = [files |-> S.files, rows |-> S.rows, objects |-> S.objects]
      BY TableFacts DEF WellFormed
    <2>2. U = [files |-> [i \in Items |->
                           IF i \in M THEN [S.files[i] EXCEPT !.at = [@ EXCEPT !.folder = f]]
                           ELSE S.files[i]], rows |-> S.rows, objects |-> S.objects]
      BY <2>1 DEF MovedTo
    <2>3. U.rows = S.rows /\ U.objects = S.objects /\ U.files = [i \in Items |-> U.files[i]]
      <3> HIDE DEF U
      <3> QED
        BY <2>2
    <2>4. U = [files |-> U.files, rows |-> S.rows, objects |-> S.objects]
      <3> HIDE DEF U
      <3> QED
        BY <2>2
    <2>5. \A i \in Items : U.files[i] = IF i \in M THEN [S.files[i] EXCEPT !.at = [@ EXCEPT !.folder = f]]
                                       ELSE S.files[i]
      <3> HIDE DEF U
      <3> QED
        BY <2>2
    <2> HIDE DEF U
    <2> QED
      BY <2>3, <2>4, <2>5, <1>2
  <1> HIDE DEF U
  <1>4. ASSUME NEW i \in M
        PROVE  U.files[i] \in FileRows /\ U.files[i] # NoFile /\ U.files[i].blob = S.files[i].blob
    <2>1. PICK q \in Places : U.files[i] = Placed(S.files[i], q)
      BY <1>2, <1>3
    <2>2. S.files[i] \in FileRows
      BY <1>1
    <2> QED
      BY <2>1, <2>2, PlacedFacts
  <1>5. U \in TypedTables
    <2>1. U.files \in [Items -> FileRows \cup {NoFile}]
      BY <1>3, <1>4, TableFacts DEF WellFormed
    <2> QED
      BY <2>1, <1>3, TableFacts DEF TypedTables, WellFormed
  <1>6. /\ WellFormed(U) /\ \A h : RowShown(U, h) = RowShown(S, h)
        /\ \A b : HashOf(U, b) = HashOf(S, b)
        /\ \A j \in Items : U.files[j] = S.files[j] => FileShown(U, j) = FileShown(S, j)
    <2>1. \A j \in Items : U.files[j] # NoFile =>
              \E k \in Items : S.files[k] # NoFile /\ U.files[j].blob = S.files[k].blob
      BY <1>1, <1>3, <1>4
    <2> QED
      BY <1>3, <1>5, <2>1, OtherFiles
  <1>7. ASSUME NEW i \in M
        PROVE  FileShown(U, i) = [FileShown(S, i) EXCEPT !.at = [@ EXCEPT !.folder = f]]
    <2>1. FileShown(U, i) = Relinked(U.files[i], HashOf(U, U.files[i].blob))
      BY <1>4, ChangedShown
    <2>2. FileShown(U, i) = Relinked(Placed(S.files[i], [S.files[i].at EXCEPT !.folder = f]), HashOf(S, S.files[i].blob))
      BY <2>1, <1>3, <1>4, <1>6
    <2>3. \A q : Relinked(Placed(S.files[i], q), HashOf(S, S.files[i].blob)) = [FileShown(S, i) EXCEPT !.at = q]
      BY <1>1, ChangedShown
    <2>4. FileShown(U, i) = [FileShown(S, i) EXCEPT !.at = [S.files[i].at EXCEPT !.folder = f]]
      BY <2>2, <2>3
    <2>5. FileShown(S, i).at = S.files[i].at
      BY <1>1, FileFacts
    <2> QED
      BY <2>4, <2>5
  <1>8. /\ \A j : ShownFile(j) = FileShown(S, j)
        /\ \A j : ShownFile(j)' = FileShown(U, j)
        /\ \A h : ShownRow(h) = RowShown(S, h)
        /\ \A h : ShownRow(h)' = RowShown(U, h)
        /\ Shown'.objects = U.objects
    BY ShownFacts DEF U
  <1>9. [j \in Items |-> ShownFile(j)]' =
           [i \in Items |-> IF i \in M THEN [[j \in Items |-> ShownFile(j)][i] EXCEPT !.at = [@ EXCEPT !.folder = f]]
                            ELSE [j \in Items |-> ShownFile(j)][i]]
    <2>1. ASSUME NEW i \in Items
          PROVE  ShownFile(i)' = IF i \in M THEN [[j \in Items |-> ShownFile(j)][i] EXCEPT !.at = [@ EXCEPT !.folder = f]]
                                 ELSE [j \in Items |-> ShownFile(j)][i]
      <3>1. [j \in Items |-> ShownFile(j)][i] = FileShown(S, i)
        BY <1>8
      <3> QED
        BY <3>1, <1>3, <1>6, <1>7, <1>8
    <2> QED
      BY <2>1
  <1>10. [h \in Hashes |-> ShownRow(h)]' = [h \in Hashes |-> ShownRow(h)]
    BY <1>6, <1>8
  <1>11. M \subseteq Lifecycle!OwnedBy(u)
    <2>1. Lifecycle!OwnedBy(u) = {i \in Items : Owned(S, {i}, u)}
      BY LifecycleSees
    <2> QED
      BY <2>1 DEF Owned
  <1> QED
    BY <1>3, <1>8, <1>9, <1>10, <1>11 DEF Lifecycle!Move

\* A file is renamed onto another one.
LEMMA MergeShown ==
    ASSUME NEW S, WellFormed(S), Shown = S, NEW i \in Items, NEW j \in Items, i # j,
           Live(S.files, i), Live(S.files, j), S.files[i].at.user = S.files[j].at.user,
           Shown' = AfterRelease(S, Merged(S, i, j), {k \in {j} : S.files[k].blob # S.files[i].blob})
    PROVE  Lifecycle!RenameOnto(i, j)
  <1> DEFINE W == Merged(S, i, j)
             D == {k \in {j} : S.files[k].blob # S.files[i].blob}
             c == S.files[i].blob
             fs == [k \in Items |-> FileShown(W, k)]
             rs == [h \in Hashes |-> RowShown(W, h)]
  <1>1. /\ S.files[i] \in FileRows /\ S.files[j] \in FileRows /\ S.files[i] # NoFile /\ S.files[j] # NoFile
        /\ S = [files |-> S.files, rows |-> S.rows, objects |-> S.objects]
        /\ S.files \in [Items -> FileRows \cup {NoFile}] /\ S.rows \in [Ids -> StorageRows \cup {NoRow}]
        /\ S.objects \in SUBSET Keys /\ c \in Ids \cup {NoId}
    BY TableFacts DEF WellFormed, Live
  <1> DEFINE f == S.files
             g == [f EXCEPT ![j] = WithBlob(f[j], c), ![i] = Gone(f[i])]
  <1>2. /\ W.files = g
        /\ W.rows = S.rows /\ W.objects = S.objects
        /\ W = [files |-> W.files, rows |-> S.rows, objects |-> S.objects]
    BY DEF Merged
  <1>3. /\ W.files[j] = WithBlob(S.files[j], c) /\ W.files[i] = Gone(S.files[i])
        /\ \A k \in Items \ {i, j} : W.files[k] = S.files[k]
    BY <1>1, <1>2
  <1>4. /\ W.files[j] \in FileRows /\ W.files[j] # NoFile /\ W.files[j].blob = c
        /\ W.files[i] \in FileRows /\ W.files[i] # NoFile /\ W.files[i].blob = c
    <2>1. S.files[i] \in FileRows /\ S.files[j] \in FileRows /\ c \in Ids \cup {NoId} /\ S.files[i].blob = c
      BY <1>1
    <2>2. WithBlob(S.files[j], c) \in FileRows /\ WithBlob(S.files[j], c) # NoFile /\ WithBlob(S.files[j], c).blob = c
      BY <2>1, FileRelinked
    <2>3. Gone(S.files[i]) \in FileRows /\ Gone(S.files[i]) # NoFile /\ Gone(S.files[i]).blob = c
      BY <2>1, FileGone
    <2> HIDE DEF W, c
    <2> QED
      BY <1>3, <2>2, <2>3
  <1>5. W \in TypedTables
    <2>1. W.files \in [Items -> FileRows \cup {NoFile}]
      BY <1>1, <1>2, <1>3, <1>4
    <2> QED
      BY <1>1, <1>2, <2>1 DEF TypedTables
  <1> HIDE DEF W, D
  <1>6. /\ WellFormed(W) /\ Extends(S, W) /\ \A h : RowShown(W, h) = RowShown(S, h)
        /\ \A b : HashOf(W, b) = HashOf(S, b)
        /\ \A k \in Items : W.files[k] = S.files[k] => FileShown(W, k) = FileShown(S, k)
    <2>1. \A k \in Items : W.files[k] # NoFile =>
              \E l \in Items : S.files[l] # NoFile /\ W.files[k].blob = S.files[l].blob
      BY <1>1, <1>3, <1>4
    <2> QED
      BY <1>2, <1>5, <2>1, OtherFiles
  <1>7. FileShown(W, j) = Relinked(FileShown(S, j), HashOf(S, c))
    <2>1. FileShown(W, j) = Relinked(W.files[j], HashOf(W, W.files[j].blob))
      BY <1>4, ChangedShown
    <2>2. FileShown(W, j) = Relinked(WithBlob(S.files[j], c), HashOf(S, c))
      BY <2>1, <1>3, <1>4, <1>6
    <2>3. Relinked(WithBlob(S.files[j], c), HashOf(S, c)) = Relinked(FileShown(S, j), HashOf(S, c))
      <3>1. S.files[j] \in FileRows
        BY <1>1
      <3> HIDE DEF c
      <3> QED
        BY <3>1, RelinkedShown
    <2> QED
      BY <2>2, <2>3
  <1>8. FileShown(W, i) = [FileShown(S, i) EXCEPT !.live = FALSE]
    <2>1. FileShown(W, i) = Relinked(W.files[i], HashOf(W, W.files[i].blob))
      BY <1>4, ChangedShown
    <2>2. FileShown(W, i) = Relinked(Gone(S.files[i]), HashOf(S, S.files[i].blob))
      BY <2>1, <1>3, <1>4, <1>6
    <2> QED
      BY <2>2, <1>1, ChangedShown
  <1>9. /\ \A k : ShownFile(k) = FileShown(S, k)
        /\ \A h : ShownRow(h) = RowShown(S, h)
    BY ShownFacts
  <1>10. /\ FileShown(S, i).blob = HashOf(S, c) /\ FileShown(S, j).blob = HashOf(S, S.files[j].blob)
         /\ FileShown(S, i).at = S.files[i].at /\ FileShown(S, j).at = S.files[j].at
    BY <1>1, FileFacts
  <1>11. D \in SUBSET Items /\ D \subseteq {j} /\ \A k \in D : S.files[k] # NoFile
    BY <1>1 DEF D
  <1> DEFINE F == [k \in Items |-> ShownFile(k)]
             G == [F EXCEPT ![j] = [@ EXCEPT !.blob = F[i].blob], ![i] = [@ EXCEPT !.live = FALSE]]
  <1>12. fs = G
    <2>1. F \in [Items -> {F[k] : k \in Items}] /\ F[i] = FileShown(S, i) /\ F[j] = FileShown(S, j)
      BY <1>9
    <2>2. ASSUME NEW k \in Items PROVE fs[k] = G[k]
      <3>1. CASE k = i
        BY <3>1, <2>1, <1>8
      <3>2. CASE k = j
        BY <3>2, <2>1, <1>7, <1>10 DEF Relinked
      <3>3. CASE k \in Items \ {i, j}
        BY <3>3, <1>3, <1>6, <1>9
      <3> QED
        BY <3>1, <3>2, <3>3
    <2> QED
      BY <2>2
  <1>13. rs = [h \in Hashes |-> ShownRow(h)]
    BY <1>6, <1>9
  <1>14. D = {k \in {j} : F[k].blob # F[i].blob}
    <2>1. F[i] = FileShown(S, i) /\ F[j] = FileShown(S, j)
      BY <1>9
    <2>2. HashOf(S, S.files[j].blob) = HashOf(S, c) <=> S.files[j].blob = c
      <3>1. CASE c = NoId
        <4>1. HashOf(S, c) = NoHash /\ (HashOf(S, S.files[j].blob) = NoHash <=> S.files[j].blob = NoId)
          BY <1>1, <3>1, HashFacts DEF HashOf
        <4> QED
          BY <3>1, <4>1
      <3>2. CASE c # NoId
        <4>1. c \in Ids /\ S.rows[c] # NoRow
          BY <1>1, <3>2 DEF WellFormed
        <4>2. HashOf(S, c) = S.rows[c].hash
          BY <3>2 DEF HashOf
        <4>3. HashOf(S, S.files[j].blob) = S.rows[c].hash <=> S.files[j].blob = c
          BY <1>1, <4>1, HashFacts
        <4> QED
          BY <4>2, <4>3
      <3> QED
        BY <3>1, <3>2
    <2> QED
      BY <1>10, <2>1, <2>2 DEF D
  <1>15. Lifecycle!Count(D) = [h \in Hashes |-> Loss(S, D, h)]
    BY <1>11, LifecycleSees
  <1>16. Lifecycle!Settle(fs, rs, W.objects, [h \in Hashes |-> Loss(S, D, h)])
    BY <1>6, <1>11, Settles DEF W, D
  <1> HIDE DEF fs, rs, G
  <1>17. Lifecycle!Settle(G, [h \in Hashes |-> ShownRow(h)], Shown.objects,
                          Lifecycle!Count({k \in {j} : F[k].blob # F[i].blob}))
    BY <1>2, <1>12, <1>13, <1>14, <1>15, <1>16
  <1>18. Lifecycle!Live(i) /\ Lifecycle!Live(j) /\ F[i].at.user = F[j].at.user
    <2>1. \A k \in Items : Lifecycle!Live(k) <=> Live(S.files, k)
      BY LifecycleSees
    <2> QED
      BY <2>1, <1>9, <1>10
  <1> QED
    BY <1>17, <1>18 DEF Lifecycle!RenameOnto, G

\* A threat is found.
LEMMA InfectedShown ==
    ASSUME NEW row \in StorageRows
    PROVE  Columns([row EXCEPT !.infected = TRUE]) = [Columns(row) EXCEPT !.infected = TRUE]
  <1> DEFINE new == [row EXCEPT !.infected = TRUE]
             columns == [Columns(row) EXCEPT !.infected = TRUE]
  <1>1. /\ new.count = row.count /\ new.name = row.name /\ new.infected = TRUE
        /\ row.count \in Int /\ row.name \in Names /\ row.infected \in BOOLEAN
    BY DEF StorageRows
  <1>2. Columns(row) \in ShownRows /\ Columns(row).count = row.count /\ Columns(row).name = row.name
    BY <1>1 DEF Columns, ShownRows
  <1>3. columns \in ShownRows /\ columns.count = row.count /\ columns.name = row.name /\ columns.infected = TRUE
    BY <1>2 DEF ShownRows
  <1> HIDE DEF new, columns
  <1>4. /\ Columns(new) \in ShownRows /\ Columns(new).count = row.count /\ Columns(new).name = row.name
        /\ Columns(new).infected = TRUE
    BY <1>1 DEF Columns, ShownRows
  <1>5. Columns(new) = columns
    BY <1>3, <1>4 DEF ShownRows
  <1> QED
    BY <1>5 DEF new, columns

\* A scan finds a threat.
LEMMA ThreatShown ==
    ASSUME NEW S, WellFormed(S), Shown = S, NEW b \in Ids, S.rows[b] # NoRow, ~S.rows[b].infected,
           NEW U, Shown' = U, U.files = S.files, U.objects = S.objects, WellFormed(U),
           U.rows[b] = [S.rows[b] EXCEPT !.infected = TRUE], U.rows[b] # NoRow,
           \A c \in Ids \ {b} : U.rows[c] = S.rows[c]
    PROVE  Lifecycle!FindThreat(S.rows[b].hash)
  <1> DEFINE h == S.rows[b].hash
  <1>1. S.rows[b] \in StorageRows /\ U.rows[b].hash = h
    BY TableFacts DEF WellFormed, StorageRows
  <1>2. /\ RowShown(S, h) = Columns(S.rows[b]) /\ Columns(S.rows[b]) # NoRow /\ h \in Hashes
        /\ RowShown(U, h) = Columns(U.rows[b])
    BY <1>1, StoredShown
  <1>3. Columns(U.rows[b]) = [Columns(S.rows[b]) EXCEPT !.infected = TRUE]
    <2>1. U.rows[b] = [S.rows[b] EXCEPT !.infected = TRUE] /\ S.rows[b] \in StorageRows
      BY <1>1
    <2> QED
      BY <2>1, InfectedShown
  <1>4. ASSUME NEW g \in Hashes, g # h PROVE RowShown(U, g) = RowShown(S, g)
    <2>1. \A c \in Ids : (U.rows[c] # NoRow /\ U.rows[c].hash = g) <=> (S.rows[c] # NoRow /\ S.rows[c].hash = g)
      BY <1>1, <1>4
    <2>2. CASE RowShown(S, g) = NoRow
      <3>1. ~Stored(U, g)
        BY <2>1, <2>2, StoredShown DEF Stored
      <3> QED
        BY <2>2, <3>1, NothingShown
    <2>3. CASE RowShown(S, g) # NoRow
      <3>1. PICK c \in Ids : S.rows[c] # NoRow /\ S.rows[c].hash = g /\ RowShown(S, g) = Columns(S.rows[c])
        BY <2>3, ShownStored
      <3>2. c # b /\ U.rows[c] = S.rows[c]
        BY <3>1, <1>4
      <3>3. RowShown(U, U.rows[c].hash) = Columns(U.rows[c])
        BY <3>1, <3>2, StoredShown
      <3> QED
        BY <3>1, <3>2, <3>3
    <2> QED
      BY <2>2, <2>3
  <1>5. ASSUME NEW i \in Items PROVE FileShown(U, i) = FileShown(S, i)
    <2>1. Extends(S, U)
      BY <1>1 DEF Extends
    <2> QED
      BY <2>1, SameFile
  <1>6. /\ \A i : ShownFile(i) = FileShown(S, i)
        /\ \A i : ShownFile(i)' = FileShown(U, i)
        /\ \A g : ShownRow(g) = RowShown(S, g)
        /\ \A g : ShownRow(g)' = RowShown(U, g)
    BY ShownFacts
  <1> HIDE DEF h
  <1>7. [g \in Hashes |-> ShownRow(g)]' =
          [[g \in Hashes |-> ShownRow(g)] EXCEPT ![h] = [@ EXCEPT !.infected = TRUE]]
    <2>1. ASSUME NEW g \in Hashes
          PROVE  ShownRow(g)' = IF g = h THEN [ShownRow(h) EXCEPT !.infected = TRUE] ELSE ShownRow(g)
      BY <1>2, <1>3, <1>4, <1>6
    <2> QED
      BY <2>1, <1>2
  <1>8. [i \in Items |-> ShownFile(i)]' = [i \in Items |-> ShownFile(i)]
    BY <1>5, <1>6
  <1>9. /\ [g \in Hashes |-> ShownRow(g)][h] # NoRow /\ ~[g \in Hashes |-> ShownRow(g)][h].infected
    BY <1>2, <1>6 DEF Columns
  <1> QED
    BY <1>7, <1>8, <1>9 DEF Lifecycle!FindThreat, h

\* An infected content is purged.
LEMMA PurgeShown ==
    ASSUME NEW S, WellFormed(S), Shown = S, NEW b \in Ids, S.rows[b] # NoRow, S.rows[b].infected,
           NEW U, U \in TypedTables, Shown' = U, U.objects = S.objects \ {KeyOf(S.rows[b])},
           U.rows[b] = NoRow, \A c \in Ids \ {b} : U.rows[c] = S.rows[c],
           \A i \in Items : S.files[i] # NoFile /\ S.files[i].blob = b => U.files[i] = NoFile,
           \A i \in Items : S.files[i] = NoFile \/ S.files[i].blob # b => U.files[i] = S.files[i]
    PROVE  Lifecycle!PurgeInfected(S.rows[b].hash)
  <1> DEFINE h == S.rows[b].hash
  <1>1. /\ RowShown(S, h) = Columns(S.rows[b]) /\ Columns(S.rows[b]) # NoRow /\ h \in Hashes
        /\ \A c \in Ids : S.rows[c] # NoRow /\ S.rows[c].hash = h => c = b
    BY StoredShown DEF WellFormed
  <1>2. RowShown(U, h) = NoRow
    BY <1>1, NothingShown DEF Stored
  <1>3. WellFormed(U)
    <2>1. ASSUME NEW c \in Ids, NEW d \in Ids, U.rows[c] # NoRow, U.rows[d] # NoRow, U.rows[c].hash = U.rows[d].hash
          PROVE  c = d
      <3>1. c # b /\ d # b
        BY <2>1
      <3> QED
        BY <2>1, <3>1 DEF WellFormed
    <2>2. ASSUME NEW i \in Items, U.files[i] # NoFile, U.files[i].blob # NoId
          PROVE  U.rows[U.files[i].blob] # NoRow
      <3>1. U.files[i] = S.files[i] /\ S.files[i] # NoFile /\ S.files[i].blob # b
        BY <2>2
      <3>2. S.files[i].blob \in Ids /\ S.rows[S.files[i].blob] # NoRow
        BY <2>2, <3>1, TableFacts DEF WellFormed
      <3> QED
        BY <3>1, <3>2
    <2> QED
      BY <2>1, <2>2 DEF WellFormed
  <1>4. ASSUME NEW g \in Hashes, g # h PROVE RowShown(U, g) = RowShown(S, g)
    <2>1. CASE RowShown(S, g) = NoRow
      <3>1. ASSUME NEW c \in Ids, U.rows[c] # NoRow, U.rows[c].hash = g PROVE FALSE
        <4>1. S.rows[c] # NoRow /\ S.rows[c].hash = g
          BY <3>1
        <4>2. RowShown(S, S.rows[c].hash) # NoRow
          BY <4>1, StoredShown
        <4> QED
          BY <2>1, <4>1, <4>2
      <3>2. ~Stored(U, g)
        BY <3>1 DEF Stored
      <3> QED
        BY <2>1, <3>2, NothingShown
    <2>2. CASE RowShown(S, g) # NoRow
      <3>1. PICK c \in Ids : S.rows[c] # NoRow /\ S.rows[c].hash = g /\ RowShown(S, g) = Columns(S.rows[c])
        BY <2>2, ShownStored
      <3>2. c # b /\ U.rows[c] = S.rows[c]
        BY <3>1, <1>4
      <3>3. RowShown(U, U.rows[c].hash) = Columns(U.rows[c])
        BY <1>3, <3>1, <3>2, StoredShown
      <3> QED
        BY <3>1, <3>2, <3>3
    <2> QED
      BY <2>1, <2>2
  <1>5. ASSUME NEW i \in Items
        PROVE  /\ FileShown(S, i) # NoFile /\ FileShown(S, i).blob = h => FileShown(U, i) = NoFile
               /\ ~(FileShown(S, i) # NoFile /\ FileShown(S, i).blob = h) => FileShown(U, i) = FileShown(S, i)
    <2>1. CASE S.files[i] = NoFile
      BY <2>1 DEF FileShown
    <2>2. CASE S.files[i] # NoFile /\ S.files[i].blob = b
      <3>1. FileShown(S, i) # NoFile /\ FileShown(S, i).blob = HashOf(S, S.files[i].blob)
        BY <2>2, FileFacts
      <3>2. HashOf(S, S.files[i].blob) = h
        BY <2>2, HashFacts
      <3>3. FileShown(U, i) = NoFile
        BY <2>2 DEF FileShown
      <3> QED
        BY <3>1, <3>2, <3>3
    <2>3. CASE S.files[i] # NoFile /\ S.files[i].blob # b
      <3>1. FileShown(S, i) # NoFile /\ FileShown(S, i).blob = HashOf(S, S.files[i].blob)
        BY <2>3, FileFacts
      <3>2. HashOf(S, S.files[i].blob) # h
        BY <2>3, HashFacts
      <3>3. U.files[i] = S.files[i] /\ HashOf(U, S.files[i].blob) = HashOf(S, S.files[i].blob)
        <4>1. U.files[i] = S.files[i] /\ S.files[i].blob \in Ids \cup {NoId}
          BY <2>3, TableFacts DEF WellFormed
        <4> QED
          BY <2>3, <4>1 DEF HashOf
      <3> QED
        BY <3>1, <3>2, <3>3 DEF FileShown
    <2> QED
      BY <2>1, <2>2, <2>3
  <1>6. /\ \A i : ShownFile(i) = FileShown(S, i)
        /\ \A i : ShownFile(i)' = FileShown(U, i)
        /\ \A g : ShownRow(g) = RowShown(S, g)
        /\ \A g : ShownRow(g)' = RowShown(U, g)
        /\ Shown.objects = S.objects /\ Shown'.objects = U.objects
    BY ShownFacts
  <1>7. /\ Columns(S.rows[b]).infected = S.rows[b].infected /\ Columns(S.rows[b]).name = S.rows[b].name
        /\ KeyOf(S.rows[b]) = <<h, S.rows[b].name>>
    BY DEF Columns, KeyOf
  <1> HIDE DEF h
  <1> DEFINE R == [g \in Hashes |-> ShownRow(g)]
             F == [i \in Items |-> ShownFile(i)]
  <1>8. R' = [R EXCEPT ![h] = NoRow]
    <2>1. ASSUME NEW g \in Hashes PROVE ShownRow(g)' = IF g = h THEN NoRow ELSE ShownRow(g)
      BY <1>2, <1>4, <1>6
    <2> QED
      BY <2>1, <1>1
  <1>9. F' = [i \in Items |-> IF Lifecycle!Exists(i) /\ F[i].blob = h THEN NoFile ELSE F[i]]
    <2>1. ASSUME NEW i \in Items PROVE ShownFile(i)' = IF ShownFile(i) # NoFile /\ ShownFile(i).blob = h THEN NoFile ELSE ShownFile(i)
      BY <1>5, <1>6
    <2>2. \A i \in Items : F[i] = ShownFile(i)
      OBVIOUS
    <2>3. \A i \in Items : Lifecycle!Exists(i) <=> ShownFile(i) # NoFile
      BY <2>2 DEF Lifecycle!Exists
    <2> QED
      BY <2>1, <2>2, <2>3
  <1>10. R[h] # NoRow /\ R[h].infected /\ R[h].name = S.rows[b].name
    BY <1>1, <1>6, <1>7
  <1>11. Shown'.objects = Shown.objects \ {<<h, R[h].name>>}
    BY <1>6, <1>7, <1>10
  <1>12. Lifecycle!Key(h) = <<h, R[h].name>>
    BY DEF Lifecycle!Key
  <1>13. Lifecycle!PurgeInfected(h)
    BY <1>8, <1>9, <1>10, <1>11, <1>12 DEF Lifecycle!PurgeInfected
  <1> QED
    BY <1>13 DEF h

\* The columns of a row that is counted anew.
LEMMA ColumnsCounted ==
    ASSUME NEW row \in StorageRows, NEW n \in Int
    PROVE  Columns(WithCount(row, n)) = WithCount(Columns(row), n)
  BY DEF Columns, WithCount, StorageRows

\* Rows that are counted more often, and new ones, are shown so.
LEMMA CountedShown ==
    ASSUME NEW S, WellFormed(S), NEW U, WellFormed(U), NEW b \in Ids, S.rows[b] # NoRow,
           NEW n \in Int, U.rows[b] = WithCount(S.rows[b], n)
    PROVE  RowShown(U, S.rows[b].hash) = WithCount(RowShown(S, S.rows[b].hash), n)
  <1>1. S.rows[b] \in StorageRows
    BY TableFacts DEF WellFormed
  <1>2. U.rows[b] # NoRow /\ U.rows[b].hash = S.rows[b].hash
    BY <1>1, RowCounted
  <1>3. RowShown(U, U.rows[b].hash) = Columns(U.rows[b])
    BY <1>2, StoredShown
  <1>4. RowShown(S, S.rows[b].hash) = Columns(S.rows[b])
    BY StoredShown
  <1> QED
    BY <1>1, <1>2, <1>3, <1>4, ColumnsCounted

\* The copies N of files of u are in U, and counted.
Copied(S, U, N, u) ==
    /\ U.objects = S.objects
    /\ \A n \in N :
         /\ S.files[n] = NoFile /\ U.files[n] # NoFile
         /\ U.files[n].live /\ ~U.files[n].expires /\ U.files[n].at.user = u
         /\ \E m \in Items : Owned(S, {m}, u) /\ S.files[m].blob = U.files[n].blob
    /\ \A i \in Items \ N : U.files[i] = S.files[i]
    /\ \A b \in Ids : S.rows[b] = NoRow => U.rows[b] = NoRow
    /\ \A b \in Ids : S.rows[b] # NoRow =>
         /\ U.rows[b] = WithCount(S.rows[b], S.rows[b].count + Cardinality({n \in N : U.files[n].blob = b}))
         /\ S.rows[b].count + Cardinality(N) <= MaxRef

\* Files are copied.
LEMMA CopyShown ==
    ASSUME NEW S, WellFormed(S), Shown = S, NEW N \in SUBSET Items, N # {}, NEW u,
           NEW U, U \in TypedTables, Shown' = U, Copied(S, U, N, u)
    PROVE  \E src \in [N -> Items], at \in [N -> Places] : Lifecycle!Copy(u, N, src, at)
  <1> USE DEF Copied
  <1> DEFINE Source(n, m) == Owned(S, {m}, u) /\ S.files[m].blob = U.files[n].blob
             src == [n \in N |-> CHOOSE m \in Items : Source(n, m)]
             at == [n \in N |-> U.files[n].at]
             gained(b) == Cardinality({n \in N : U.files[n].blob = b})
  <1>1. ASSUME NEW n \in N
        PROVE  src[n] \in Items /\ S.files[src[n]] # NoFile /\ S.files[src[n]].at.user = u
               /\ S.files[src[n]].blob = U.files[n].blob
    <2>1. \E m \in Items : Source(n, m)
      OBVIOUS
    <2>2. src[n] \in Items /\ Source(n, src[n])
      BY <2>1
    <2> QED
      BY <2>2 DEF Owned
  <1>2. ASSUME NEW n \in N
        PROVE  U.files[n] \in FileRows /\ at[n] = U.files[n].at /\ at[n] \in Places
    BY TableFacts
  <1>3. src \in [N -> Items] /\ at \in [N -> Places]
    BY <1>1, <1>2
  <1> HIDE DEF src, at, Source
  <1>4. ASSUME NEW b \in Ids
        PROVE  gained(b) \in Nat /\ gained(b) <= Cardinality(N)
    <2>1. IsFiniteSet(N)
      BY ItemsAssumption, FS_Subset
    <2>2. {n \in N : U.files[n].blob = b} \in SUBSET N
      OBVIOUS
    <2>3. IsFiniteSet({n \in N : U.files[n].blob = b}) /\ gained(b) <= Cardinality(N)
      BY <2>1, <2>2, FS_Subset
    <2> QED
      BY <2>3, FS_CardinalityType
  <1>5. ASSUME NEW b \in Ids, S.rows[b] # NoRow
        PROVE  /\ S.rows[b] \in StorageRows /\ S.rows[b].count \in Int /\ gained(b) \in Nat
               /\ U.rows[b] = WithCount(S.rows[b], S.rows[b].count + gained(b))
               /\ U.rows[b] # NoRow /\ U.rows[b].hash = S.rows[b].hash
    <2>1. S.rows[b] \in StorageRows /\ S.rows[b].count \in Int
      BY <1>5, TableFacts DEF WellFormed
    <2>2. gained(b) \in Nat
      BY <1>4
    <2>3. U.rows[b] = WithCount(S.rows[b], S.rows[b].count + gained(b))
      BY <1>5
    <2> HIDE DEF gained
    <2>4. S.rows[b].count + gained(b) \in Int
      BY <2>1, <2>2
    <2> QED
      BY <2>1, <2>2, <2>3, <2>4, RowCounted
  <1>6. WellFormed(U)
    <2>1. ASSUME NEW b \in Ids, NEW c \in Ids, U.rows[b] # NoRow, U.rows[c] # NoRow, U.rows[b].hash = U.rows[c].hash
          PROVE  b = c
      <3>1. S.rows[b] # NoRow /\ S.rows[c] # NoRow
        BY <2>1
      <3>2. S.rows[b].hash = S.rows[c].hash
        BY <1>5, <2>1, <3>1
      <3> QED
        BY <3>1, <3>2 DEF WellFormed
    <2>2. ASSUME NEW i \in Items, U.files[i] # NoFile, U.files[i].blob # NoId
          PROVE  U.rows[U.files[i].blob] # NoRow
      <3>1. PICK m \in Items : S.files[m] # NoFile /\ S.files[m].blob = U.files[i].blob
        <4>1. CASE i \in N
          BY <1>1, <4>1
        <4>2. CASE i \notin N
          BY <2>2, <4>2
        <4> QED
          BY <4>1, <4>2
      <3>2. S.files[m].blob \in Ids /\ S.rows[S.files[m].blob] # NoRow
        BY <2>2, <3>1, TableFacts DEF WellFormed
      <3> QED
        BY <1>5, <3>1, <3>2
    <2> QED
      BY <2>1, <2>2 DEF WellFormed
  <1>7. Extends(S, U)
    BY <1>5 DEF Extends
  <1>8. /\ \A i : ShownFile(i) = FileShown(S, i)
        /\ \A i : ShownFile(i)' = FileShown(U, i)
        /\ \A g : ShownRow(g) = RowShown(S, g)
        /\ \A g : ShownRow(g)' = RowShown(U, g)
        /\ Shown.objects = S.objects /\ Shown'.objects = U.objects
    BY ShownFacts
  <1> DEFINE R == [g \in Hashes |-> ShownRow(g)]
             F == [i \in Items |-> ShownFile(i)]
             gain == [g \in Hashes |-> Lifecycle!Cardinality({n \in N : F[src[n]].blob = g})]
  <1>9. ASSUME NEW n \in N
        PROVE  F[src[n]].blob = HashOf(S, U.files[n].blob)
    <2>1. F[src[n]] = FileShown(S, src[n])
      BY <1>1, <1>8
    <2> QED
      BY <2>1, <1>1, FileFacts
  <1>10. ASSUME NEW b \in Ids, S.rows[b] # NoRow
         PROVE  gain[S.rows[b].hash] = gained(b)
    <2>1. ASSUME NEW n \in N PROVE F[src[n]].blob = S.rows[b].hash <=> U.files[n].blob = b
      <3>1. HashOf(S, S.files[src[n]].blob) = S.rows[b].hash <=> S.files[src[n]].blob = b
        BY <1>1, <1>10, HashFacts
      <3> QED
        BY <1>1, <1>9, <3>1
    <2>2. {n \in N : F[src[n]].blob = S.rows[b].hash} = {n \in N : U.files[n].blob = b}
      BY <2>1
    <2>3. S.rows[b].hash \in Hashes
      BY <1>10, TableFacts DEF WellFormed
    <2>4. gain[S.rows[b].hash] = Lifecycle!Cardinality({n \in N : F[src[n]].blob = S.rows[b].hash})
      BY <2>3
    <2> QED
      BY <2>2, <2>4, LifecycleCounts
  <1>11. ASSUME NEW g \in Hashes
         PROVE  /\ RowShown(S, g) # NoRow => RowShown(S, g).count + gain[g] <= MaxRef
                /\ RowShown(U, g) = IF RowShown(S, g) = NoRow THEN NoRow
                                    ELSE WithCount(RowShown(S, g), RowShown(S, g).count + gain[g])
    <2>1. CASE RowShown(S, g) = NoRow
      <3>1. ASSUME NEW c \in Ids, U.rows[c] # NoRow, U.rows[c].hash = g PROVE FALSE
        <4>1. S.rows[c] # NoRow
          BY <3>1
        <4>2. S.rows[c].hash = g
          BY <1>5, <3>1, <4>1
        <4>3. RowShown(S, S.rows[c].hash) # NoRow
          BY <4>1, StoredShown
        <4> QED
          BY <2>1, <4>2, <4>3
      <3>2. ~Stored(U, g)
        BY <3>1 DEF Stored
      <3> QED
        BY <2>1, <3>2, NothingShown
    <2>2. CASE RowShown(S, g) # NoRow
      <3>1. PICK b \in Ids : S.rows[b] # NoRow /\ S.rows[b].hash = g /\ RowShown(S, g) = Columns(S.rows[b])
        BY <2>2, ShownStored
      <3>2. /\ S.rows[b].count \in Int /\ gained(b) \in Nat
            /\ U.rows[b] = WithCount(S.rows[b], S.rows[b].count + gained(b))
        BY <1>5, <3>1
      <3>3. gain[g] = gained(b)
        BY <1>10, <3>1
      <3>4. S.rows[b].count + Cardinality(N) <= MaxRef /\ gained(b) <= Cardinality(N) /\ Cardinality(N) \in Nat
        <4>1. IsFiniteSet(N)
          BY ItemsAssumption, FS_Subset
        <4> QED
          BY <1>4, <3>1, <4>1, FS_CardinalityType
      <3>5. RowShown(S, g).count = S.rows[b].count
        BY <3>1 DEF Columns
      <3> HIDE DEF gain, gained
      <3>6. RowShown(U, g) = WithCount(RowShown(S, g), S.rows[b].count + gained(b))
        <4>1. S.rows[b].count + gained(b) \in Int
          BY <3>2
        <4> QED
          BY <1>6, <3>1, <3>2, <4>1, CountedShown
      <3>7. S.rows[b].count + gained(b) <= MaxRef
        BY <3>2, <3>4, MaxRefAssumption
      <3> QED
        BY <2>2, <3>3, <3>5, <3>6, <3>7
    <2> QED
      BY <2>1, <2>2
  <1> HIDE DEF gain, gained
  <1>12. R' = [h \in Hashes |-> IF R[h] = NoRow THEN NoRow ELSE [R[h] EXCEPT !.count = @ + gain[h]]]
    <2>1. ASSUME NEW g \in Hashes
          PROVE  ShownRow(g)' = IF R[g] = NoRow THEN NoRow ELSE [R[g] EXCEPT !.count = @ + gain[g]]
      <3>1. R[g] = RowShown(S, g)
        BY <1>8
      <3>2. ShownRow(g)' = IF R[g] = NoRow THEN NoRow ELSE WithCount(R[g], R[g].count + gain[g])
        BY <1>8, <1>11, <3>1
      <3> HIDE DEF R
      <3> QED
        BY <3>2 DEF WithCount
    <2> QED
      BY <2>1
  <1>13. \A h \in Hashes : R[h] # NoRow => R[h].count + gain[h] <= MaxRef
    BY <1>8, <1>11
  <1>14. F' = [i \in Items |-> IF i \in N THEN [at |-> at[i], blob |-> F[src[i]].blob, live |-> TRUE, expires |-> FALSE]
                               ELSE F[i]]
    <2>1. ASSUME NEW i \in N
          PROVE  ShownFile(i)' = [at |-> at[i], blob |-> F[src[i]].blob, live |-> TRUE, expires |-> FALSE]
      <3>1. /\ FileShown(U, i) \in ShownFiles /\ FileShown(U, i).at = at[i] /\ FileShown(U, i).live = TRUE
            /\ FileShown(U, i).expires = FALSE /\ FileShown(U, i).blob = HashOf(U, U.files[i].blob)
        <4>1. U.files[i] # NoFile /\ U.files[i].live = TRUE /\ U.files[i].expires = FALSE
          BY <1>2 DEF FileRows
        <4> QED
          BY <1>2, <1>6, <4>1, FileFacts
      <3>2. HashOf(U, U.files[i].blob) = HashOf(S, U.files[i].blob)
        <4>1. /\ S.files[src[i]].blob = U.files[i].blob /\ S.files[src[i]].blob \in Ids \cup {NoId}
              /\ S.files[src[i]].blob # NoId => S.rows[S.files[src[i]].blob] # NoRow
          BY <1>1, TableFacts DEF WellFormed
        <4>2. CASE U.files[i].blob = NoId
          BY <4>2 DEF HashOf
        <4>3. CASE U.files[i].blob # NoId
          BY <1>7, <4>1, <4>3 DEF HashOf, Extends
        <4> QED
          BY <4>2, <4>3
      <3> QED
        BY <1>8, <1>9, <3>1, <3>2 DEF ShownFiles
    <2>2. ASSUME NEW i \in Items \ N PROVE ShownFile(i)' = F[i]
      <3>1. FileShown(U, i) = FileShown(S, i)
        BY <1>6, <1>7, SameFile
      <3> QED
        BY <1>8, <3>1
    <2> HIDE DEF F
    <2>3. \A i \in Items : ShownFile(i)' = IF i \in N THEN [at |-> at[i], blob |-> F[src[i]].blob, live |-> TRUE, expires |-> FALSE]
                               ELSE F[i]
      BY <2>1, <2>2
    <2>4. F' = [i \in Items |-> ShownFile(i)']
      BY DEF F
    <2> QED
      BY <2>3, <2>4
  <1>15. ASSUME NEW n \in N
         PROVE  ~Lifecycle!Exists(n) /\ src[n] \in Lifecycle!OwnedBy(u) /\ at[n].user = u
    <2>1. /\ \A i \in Items : Lifecycle!Exists(i) <=> S.files[i] # NoFile
          /\ Lifecycle!OwnedBy(u) = {i \in Items : Owned(S, {i}, u)}
      BY LifecycleSees
    <2> QED
      BY <1>1, <1>2, <2>1 DEF Owned
  <1>16. Lifecycle!Copy(u, N, src, at)
    BY <1>8, <1>12, <1>13, <1>14, <1>15 DEF Lifecycle!Copy, gain
  <1> QED
    BY <1>3, <1>16

\* A content that is counted once more, or stored.
GainedShown(S, W, p, h) ==
    \/ /\ RowShown(S, h) # NoRow /\ RowShown(S, h).count < MaxRef /\ W.objects = S.objects
       /\ RowShown(W, h) = WithCount(RowShown(S, h), RowShown(S, h).count + 1)
    \/ /\ RowShown(S, h) = NoRow /\ W.objects = S.objects \cup {<<h, p.name>>}
       /\ RowShown(W, h) = [count |-> 1, name |-> p.name, infected |-> FALSE]

\* What the gain of a content leaves as it was.
LEMMA GainsFacts ==
    ASSUME NEW S, WellFormed(S), NEW p \in Places, NEW c \in Ids, NEW W, W \in Gains(S, p, c),
           \A b \in Ids : S.rows[b] # NoRow => S.rows[b].count + 1 <= MaxRef
    PROVE  /\ W \in TypedTables /\ WellFormed(W) /\ Extends(S, W) /\ W.files = S.files
           /\ W.rows[c] # NoRow /\ W.rows[c].hash \in Hashes
           /\ GainedShown(S, W, p, W.rows[c].hash)
           /\ \A h \in Hashes \ {W.rows[c].hash} : RowShown(W, h) = RowShown(S, h)
           /\ \A b \in Ids \ {c} : W.rows[b] = S.rows[b]
           /\ S.rows[c] = NoRow => ~Stored(S, W.rows[c].hash)
           /\ S.rows[c] # NoRow => W.rows[c] = WithCount(S.rows[c], S.rows[c].count + 1)
  <1>1. /\ S.files \in [Items -> FileRows \cup {NoFile}] /\ S.rows \in [Ids -> StorageRows \cup {NoRow}]
        /\ S.objects \in SUBSET Keys /\ p.name \in Names
    BY TableFacts DEF WellFormed, Places
  <1>2. /\ W.files = S.files /\ W = [files |-> W.files, rows |-> W.rows, objects |-> W.objects]
        /\ W.rows \in [Ids -> StorageRows \cup {NoRow}] /\ W.objects \in SUBSET Keys
        /\ \A b \in Ids \ {c} : W.rows[b] = S.rows[b]
        /\ W.rows[c] \in StorageRows /\ W.rows[c] # NoRow
        /\ S.rows[c] = NoRow =>
             /\ ~Stored(S, W.rows[c].hash) /\ W.objects = S.objects \cup {<<W.rows[c].hash, p.name>>}
             /\ W.rows[c].count = 1 /\ W.rows[c].name = p.name /\ W.rows[c].infected = FALSE
        /\ S.rows[c] # NoRow =>
             /\ W.rows[c] = WithCount(S.rows[c], S.rows[c].count + 1) /\ W.objects = S.objects
    <2>1. CASE S.rows[c] # NoRow
      <3>1. /\ W.files = S.files /\ W.objects = S.objects
            /\ W.rows = [S.rows EXCEPT ![c] = WithCount(S.rows[c], S.rows[c].count + 1)]
            /\ W = [files |-> W.files, rows |-> W.rows, objects |-> W.objects]
        BY <2>1 DEF Gains
      <3>2. WithCount(S.rows[c], S.rows[c].count + 1) \in StorageRows
        <4>1. S.rows[c] \in StorageRows /\ S.rows[c].count + 1 \in Int
          BY <2>1, TableFacts DEF WellFormed
        <4> QED
          BY <4>1, RowCounted
      <3>3. \A row \in StorageRows : row # NoRow
        BY NullAssumption
      <3> QED
        BY <1>1, <2>1, <3>1, <3>2, <3>3
    <2>2. CASE S.rows[c] = NoRow
      <3>0. PICK h \in Hashes :
              /\ ~Stored(S, h)
              /\ W = [files |-> S.files,
                      rows |-> [S.rows EXCEPT ![c] = [hash |-> h, count |-> 1, name |-> p.name, infected |-> FALSE]],
                      objects |-> S.objects \cup {<<h, p.name>>}]
        BY <2>2, Zenon DEF Gains
      <3>1.   /\ ~Stored(S, h) /\ W.files = S.files /\ W.objects = S.objects \cup {<<h, p.name>>}
              /\ W.rows = [S.rows EXCEPT ![c] = [hash |-> h, count |-> 1, name |-> p.name, infected |-> FALSE]]
              /\ W = [files |-> W.files, rows |-> W.rows, objects |-> W.objects]
        BY <3>0
      <3> DEFINE row == [hash |-> h, count |-> 1, name |-> p.name, infected |-> FALSE]
      <3>2. row \in StorageRows /\ row.hash = h /\ row.count = 1 /\ row.name = p.name /\ row.infected = FALSE
        BY <1>1 DEF StorageRows
      <3>3. row # NoRow
        BY <3>2, NullAssumption
      <3>4. <<h, p.name>> \in Keys
        BY <1>1 DEF Keys
      <3> HIDE DEF row
      <3>5. W.rows = [S.rows EXCEPT ![c] = row]
        BY <3>1 DEF row
      <3>6. W.rows[c] = row /\ W.rows \in [Ids -> StorageRows \cup {NoRow}] /\ \A b \in Ids \ {c} : W.rows[b] = S.rows[b]
        BY <1>1, <3>2, <3>5
      <3> QED
        BY <1>1, <2>2, <3>1, <3>2, <3>3, <3>4, <3>6
    <2> QED
      BY <2>1, <2>2
  <1>3. W \in TypedTables
    BY <1>1, <1>2 DEF TypedTables
  <1>4. S.rows[c] # NoRow => W.rows[c].hash = S.rows[c].hash
    <2>1. CASE S.rows[c] # NoRow
      <3>1. S.rows[c] \in StorageRows /\ S.rows[c].count + 1 \in Int
        BY <2>1, TableFacts DEF WellFormed
      <3> QED
        BY <1>2, <2>1, <3>1, RowCounted
    <2> QED
      BY <2>1
  <1>5. ASSUME NEW b \in Ids \ {c}, W.rows[b] # NoRow PROVE W.rows[b].hash # W.rows[c].hash
    <2>1. S.rows[b] # NoRow /\ W.rows[b] = S.rows[b]
      BY <1>2, <1>5
    <2>2. CASE S.rows[c] = NoRow
      BY <1>2, <2>1, <2>2 DEF Stored
    <2>3. CASE S.rows[c] # NoRow
      BY <1>4, <2>1, <2>3 DEF WellFormed
    <2> QED
      BY <2>2, <2>3
  <1>6. WellFormed(W)
    <2>1. ASSUME NEW b \in Ids, NEW d \in Ids, W.rows[b] # NoRow, W.rows[d] # NoRow, W.rows[b].hash = W.rows[d].hash
          PROVE  b = d
      <3>1. CASE b = c \/ d = c
        BY <1>5, <2>1, <3>1
      <3>2. CASE b # c /\ d # c
        BY <1>2, <2>1, <3>2 DEF WellFormed
      <3> QED
        BY <3>1, <3>2
    <2>2. ASSUME NEW i \in Items, W.files[i] # NoFile, W.files[i].blob # NoId
          PROVE  W.rows[W.files[i].blob] # NoRow
      <3>1. S.files[i].blob \in Ids /\ S.rows[S.files[i].blob] # NoRow
        BY <1>2, <2>2, TableFacts DEF WellFormed
      <3> QED
        BY <1>2, <3>1
    <2> QED
      BY <1>3, <2>1, <2>2 DEF WellFormed
  <1>7. Extends(S, W)
    BY <1>2, <1>4 DEF Extends
  <1>8. W.rows[c].hash \in Hashes /\ RowShown(W, W.rows[c].hash) = Columns(W.rows[c])
    BY <1>2, <1>6, StoredShown
  <1>9. GainedShown(S, W, p, W.rows[c].hash)
    <2>1. CASE S.rows[c] # NoRow
      <3>1. S.rows[c] \in StorageRows /\ S.rows[c].count \in Int /\ S.rows[c].count + 1 \in Int /\ S.rows[c].count < MaxRef
        BY <2>1, TableFacts, MaxRefAssumption DEF WellFormed
      <3>2. RowShown(S, S.rows[c].hash) = Columns(S.rows[c]) /\ RowShown(S, S.rows[c].hash) # NoRow
        BY <2>1, StoredShown
      <3>3. RowShown(W, S.rows[c].hash) = WithCount(RowShown(S, S.rows[c].hash), S.rows[c].count + 1)
        BY <1>2, <1>6, <2>1, <3>1, CountedShown
      <3>4. Columns(S.rows[c]).count = S.rows[c].count
        BY DEF Columns
      <3> QED
        BY <1>2, <1>4, <2>1, <3>1, <3>2, <3>3, <3>4 DEF GainedShown
    <2>2. CASE S.rows[c] = NoRow
      <3>1. RowShown(S, W.rows[c].hash) = NoRow
        BY <1>2, <2>2, NothingShown
      <3>2. Columns(W.rows[c]) = [count |-> 1, name |-> p.name, infected |-> FALSE]
        BY <1>2, <2>2 DEF Columns
      <3> QED
        BY <1>2, <1>8, <2>2, <3>1, <3>2 DEF GainedShown
    <2> QED
      BY <2>1, <2>2
  <1>10. ASSUME NEW g \in Hashes, g # W.rows[c].hash PROVE RowShown(W, g) = RowShown(S, g)
    <2>1. CASE RowShown(S, g) = NoRow
      <3>1. ASSUME NEW b \in Ids, W.rows[b] # NoRow, W.rows[b].hash = g PROVE FALSE
        <4>1. b # c /\ S.rows[b] # NoRow /\ S.rows[b].hash = g
          BY <1>2, <1>10, <3>1
        <4>2. RowShown(S, S.rows[b].hash) # NoRow
          BY <4>1, StoredShown
        <4> QED
          BY <2>1, <4>1, <4>2
      <3>2. ~Stored(W, g)
        BY <3>1 DEF Stored
      <3> QED
        BY <2>1, <3>2, NothingShown
    <2>2. CASE RowShown(S, g) # NoRow
      <3>1. PICK b \in Ids : S.rows[b] # NoRow /\ S.rows[b].hash = g /\ RowShown(S, g) = Columns(S.rows[b])
        BY <2>2, ShownStored
      <3>2. b # c /\ W.rows[b] = S.rows[b]
        BY <1>2, <1>4, <1>10, <3>1
      <3>3. RowShown(W, W.rows[b].hash) = Columns(W.rows[b])
        BY <1>6, <3>1, <3>2, StoredShown
      <3> QED
        BY <3>1, <3>2, <3>3
    <2> QED
      BY <2>1, <2>2
  <1> QED
    BY <1>2, <1>3, <1>6, <1>7, <1>8, <1>9, <1>10

\* The storage rows of an upload are those of StorageLifecycle.
LEMMA UploadShown ==
    ASSUME NEW S, WellFormed(S), Shown = S, NEW p \in Places, NEW c \in Ids, NEW W, W \in Gains(S, p, c),
           \A b \in Ids : S.rows[b] # NoRow => S.rows[b].count + 1 <= MaxRef, NEW e,
           Lifecycle!Attach(p, W.rows[c].hash, e, [h \in Hashes |-> RowShown(W, h)], W.objects)
    PROVE  Lifecycle!UploadKnown(p, W.rows[c].hash, e) \/ Lifecycle!UploadNew(p, W.rows[c].hash, e)
  <1> DEFINE R == [h \in Hashes |-> ShownRow(h)]
             h == W.rows[c].hash
  <1>1. /\ h \in Hashes /\ GainedShown(S, W, p, h)
        /\ \A g \in Hashes \ {h} : RowShown(W, g) = RowShown(S, g)
    BY GainsFacts
  <1>2. (\A g : ShownRow(g) = RowShown(S, g)) /\ Shown.objects = S.objects
    BY ShownFacts
  <1> HIDE DEF h
  <1>3. R[h] = RowShown(S, h)
    BY <1>1, <1>2
  <1>4. CASE /\ RowShown(S, h) # NoRow /\ RowShown(S, h).count < MaxRef /\ W.objects = S.objects
             /\ RowShown(W, h) = WithCount(RowShown(S, h), RowShown(S, h).count + 1)
    <2>1. [g \in Hashes |-> RowShown(W, g)] = [R EXCEPT ![h] = WithCount(R[h], R[h].count + 1)]
      BY <1>1, <1>2, <1>4
    <2>2. [R EXCEPT ![h] = WithCount(R[h], R[h].count + 1)] = [R EXCEPT ![h].count = @ + 1]
      BY DEF WithCount
    <2> HIDE DEF R
    <2>3. Lifecycle!Attach(p, h, e, [R EXCEPT ![h].count = @ + 1], Shown.objects)
      BY <1>2, <1>4, <2>1, <2>2 DEF h
    <2> QED
      BY <1>3, <1>4, <2>3 DEF Lifecycle!UploadKnown, Lifecycle!Incremented, R, h
  <1>5. CASE /\ RowShown(S, h) = NoRow /\ W.objects = S.objects \cup {<<h, p.name>>}
             /\ RowShown(W, h) = [count |-> 1, name |-> p.name, infected |-> FALSE]
    <2>1. [g \in Hashes |-> RowShown(W, g)] = [R EXCEPT ![h] = [count |-> 1, name |-> p.name, infected |-> FALSE]]
      BY <1>1, <1>2, <1>5
    <2> HIDE DEF R
    <2>2. Lifecycle!Attach(p, h, e, [R EXCEPT ![h] = [count |-> 1, name |-> p.name, infected |-> FALSE]],
                           Shown.objects \cup {<<h, p.name>>})
      BY <1>2, <1>5, <2>1 DEF h
    <2> QED
      BY <1>3, <1>5, <2>2 DEF Lifecycle!UploadNew, R, h
  <1> QED
    BY <1>1, <1>4, <1>5 DEF GainedShown

\* A file that refers to the content of an upload.
LEMMA UploadedFacts ==
    ASSUME NEW file \in FileRows, NEW c \in Ids, NEW e \in BOOLEAN
    PROVE  /\ Uploaded(file, c, e) \in FileRows /\ Uploaded(file, c, e) # NoFile
           /\ Uploaded(file, c, e).blob = c /\ Uploaded(file, c, e).at = file.at
           /\ Uploaded(file, c, e).live = file.live /\ Uploaded(file, c, e).expires = e
  <1>1. Uploaded(file, c, e) \in FileRows
    BY DEF FileRows, Uploaded
  <1> QED
    BY <1>1, NullAssumption DEF FileRows, Uploaded

\* The tables A are those of W with the given file i, which refers to c.
WithFile(S, W, A, i, file, c) ==
    /\ A \in TypedTables /\ WellFormed(A) /\ Extends(S, A) /\ A.rows = W.rows /\ A.objects = W.objects
    /\ A.files[i] = file /\ \A j \in Items \ {i} : A.files[j] = S.files[j]
    /\ \A h : RowShown(A, h) = RowShown(W, h)
    /\ \A j \in Items \ {i} : FileShown(A, j) = FileShown(S, j)
    /\ FileShown(A, i) = Relinked(file, W.rows[c].hash)

\* What the file that refers to the content leaves as it was.
LEMMA AttachedFacts ==
    ASSUME NEW S, WellFormed(S), NEW W, WellFormed(W), Extends(S, W), W.files = S.files,
           NEW c \in Ids, W.rows[c] # NoRow, NEW i \in Items, NEW file \in FileRows, file.blob = c,
           NEW A, A = [files |-> [W.files EXCEPT ![i] = file], rows |-> W.rows, objects |-> W.objects]
    PROVE  WithFile(S, W, A, i, file, c)
  <1>1. /\ W.files \in [Items -> FileRows \cup {NoFile}] /\ W.rows \in [Ids -> StorageRows \cup {NoRow}]
        /\ W.objects \in SUBSET Keys /\ c # NoId /\ file # NoFile
    BY TableFacts, NullAssumption DEF WellFormed
  <1>2. /\ A.files = [W.files EXCEPT ![i] = file] /\ A.rows = W.rows /\ A.objects = W.objects
        /\ A.files \in [Items -> FileRows \cup {NoFile}]
        /\ A.files[i] = file /\ \A j \in Items \ {i} : A.files[j] = S.files[j]
    BY <1>1
  <1>3. A \in TypedTables
    BY <1>1, <1>2 DEF TypedTables
  <1>4. WellFormed(A)
    <2>1. \A j \in Items : A.files[j] # NoFile /\ A.files[j].blob # NoId => A.rows[A.files[j].blob] # NoRow
      BY <1>2 DEF WellFormed
    <2> QED
      BY <1>2, <1>3, <2>1 DEF WellFormed
  <1>5. Extends(S, A)
    BY <1>2 DEF Extends
  <1>6. \A h : RowShown(A, h) = RowShown(W, h)
    BY <1>2 DEF RowShown
  <1>7. \A j \in Items \ {i} : FileShown(A, j) = FileShown(S, j)
    BY <1>2, <1>4, <1>5, SameFile
  <1>8. FileShown(A, i) = Relinked(file, W.rows[c].hash)
    BY <1>1, <1>2 DEF FileShown, HashOf, Relinked
  <1> QED
    BY <1>2, <1>3, <1>4, <1>5, <1>6, <1>7, <1>8 DEF WithFile

\* A live file at the place of an upload takes its content.
LEMMA UpdateShown ==
    ASSUME NEW S, WellFormed(S), Shown = S, NEW p \in Places, NEW c \in Ids, NEW W, W \in Gains(S, p, c),
           \A b \in Ids : S.rows[b] # NoRow => S.rows[b].count + 1 <= MaxRef, NEW e \in BOOLEAN,
           NEW i \in LiveIn(S, p),
           Shown' = AfterRelease(S, Attached(W, i, c, e), {j \in {i} : S.files[j].blob # c})
    PROVE  Lifecycle!UploadKnown(p, W.rows[c].hash, e) \/ Lifecycle!UploadNew(p, W.rows[c].hash, e)
  <1> DEFINE h == W.rows[c].hash
             A == Attached(W, i, c, e)
             D == {j \in {i} : S.files[j].blob # c}
             F == [j \in Items |-> ShownFile(j)]
             G == [F EXCEPT ![i] = [@ EXCEPT !.blob = h, !.expires = e]]
             fs == [j \in Items |-> FileShown(A, j)]
             rs == [g \in Hashes |-> RowShown(A, g)]
  <1>1. /\ W \in TypedTables /\ WellFormed(W) /\ Extends(S, W) /\ W.files = S.files
        /\ W.rows[c] # NoRow /\ h \in Hashes
        /\ S.rows[c] = NoRow => ~Stored(S, h)
    BY GainsFacts
  <1>2. i \in Items /\ S.files[i] # NoFile /\ S.files[i] \in FileRows /\ S.files[i].at = p /\ S.files[i].live
    BY TableFacts DEF LiveIn, Live, WellFormed
  <1> DEFINE file == Uploaded(S.files[i], c, e)
  <1>3. /\ file \in FileRows /\ file # NoFile
        /\ file.blob = c /\ file.at = S.files[i].at
        /\ file.live = S.files[i].live /\ file.expires = e
    BY <1>2, UploadedFacts
  <1>4. A = [files |-> [W.files EXCEPT ![i] = file], rows |-> W.rows, objects |-> W.objects]
    BY <1>1 DEF Attached
  <1> HIDE DEF file, A
  <1>5. /\ A \in TypedTables /\ WellFormed(A) /\ Extends(S, A) /\ A.rows = W.rows /\ A.objects = W.objects
        /\ A.files[i] = file /\ \A j \in Items \ {i} : A.files[j] = S.files[j]
        /\ \A g : RowShown(A, g) = RowShown(W, g)
        /\ \A j \in Items \ {i} : FileShown(A, j) = FileShown(S, j)
        /\ FileShown(A, i) = Relinked(file, h)
    <2>1. WithFile(S, W, A, i, file, c)
      BY <1>1, <1>2, <1>3, <1>4, AttachedFacts
    <2> QED
      BY <2>1 DEF WithFile
  <1>6. \A j : ShownFile(j) = FileShown(S, j)
    BY ShownFacts
  <1>7. Relinked(file, h) = [FileShown(S, i) EXCEPT !.blob = h, !.expires = e]
    <2>1. FileShown(S, i) = [S.files[i] EXCEPT !.blob = HashOf(S, S.files[i].blob)]
      BY <1>2 DEF FileShown
    <2> QED
      BY <1>2, <2>1 DEF Relinked, Uploaded, FileRows, file
  <1>8. fs = G
    <2>1. F[i] = FileShown(S, i) /\ \A j \in Items : F[j] = FileShown(S, j)
      BY <1>2, <1>6
    <2>2. fs[i] = G[i]
      BY <1>2, <1>5, <1>7, <2>1
    <2>3. \A j \in Items \ {i} : fs[j] = G[j]
      BY <1>5, <2>1
    <2> QED
      BY <1>2, <2>2, <2>3
  <1>9. rs = [g \in Hashes |-> RowShown(W, g)]
    BY <1>5
  <1>10. HashOf(S, S.files[i].blob) = h <=> S.files[i].blob = c
    <2>1. CASE S.rows[c] # NoRow
      <3>1. S.rows[c].hash = h
        BY <1>1, <2>1 DEF Extends
      <3> QED
        BY <1>2, <2>1, <3>1, HashFacts
    <2>2. CASE S.rows[c] = NoRow
      <3>1. S.files[i].blob # c
        BY <1>2, <2>2, NullAssumption DEF WellFormed
      <3>2. CASE S.files[i].blob = NoId
        BY <1>1, <3>1, <3>2, NullAssumption DEF HashOf
      <3>3. CASE S.files[i].blob # NoId
        <4>1. S.files[i].blob \in Ids /\ S.rows[S.files[i].blob] # NoRow
          BY <1>2, <3>3, TableFacts DEF WellFormed
        <4>2. S.rows[S.files[i].blob].hash # h
          BY <1>1, <2>2, <4>1 DEF Stored
        <4> QED
          BY <3>1, <3>3, <4>2 DEF HashOf
      <3> QED
        BY <3>2, <3>3
    <2> QED
      BY <2>1, <2>2
  <1>11. D = {j \in {i} : F[j].blob # h}
    <2>1. F[i].blob = HashOf(S, S.files[i].blob)
      BY <1>2, <1>6, FileFacts
    <2> QED
      BY <2>1, <1>10
  <1>12. D \in SUBSET Items /\ \A j \in D : S.files[j] # NoFile
    BY <1>2
  <1> HIDE DEF D, F, G, fs, rs, h
  <1>13. Lifecycle!Settle(fs, rs, A.objects, [g \in Hashes |-> Loss(S, D, g)])
    BY <1>5, <1>12, Settles DEF fs, rs, A, D
  <1>14. Lifecycle!Count(D) = [g \in Hashes |-> Loss(S, D, g)] /\ Lifecycle!LiveAt(p) = LiveIn(S, p)
    BY <1>12, LifecycleSees
  <1>15. Lifecycle!Settle(G, [g \in Hashes |-> RowShown(W, g)], W.objects, Lifecycle!Count({j \in {i} : F[j].blob # h}))
    BY <1>5, <1>8, <1>9, <1>11, <1>13, <1>14
  <1>16. Lifecycle!Attach(p, h, e, [g \in Hashes |-> RowShown(W, g)], W.objects)
    BY <1>14, <1>15 DEF Lifecycle!Attach, G, F
  <1> QED
    BY <1>16, UploadShown DEF h

\* A new file at a place without a live one.
LEMMA InsertShown ==
    ASSUME NEW S, WellFormed(S), Shown = S, NEW p \in Places, NEW c \in Ids, NEW W, W \in Gains(S, p, c),
           \A b \in Ids : S.rows[b] # NoRow => S.rows[b].count + 1 <= MaxRef, NEW e \in BOOLEAN,
           LiveIn(S, p) = {}, NEW i \in Items, S.files[i] = NoFile,
           NEW A, A = [files |-> [W.files EXCEPT ![i] = [at |-> p, blob |-> c, live |-> TRUE, expires |-> e]],
                       rows |-> W.rows, objects |-> W.objects],
           Shown' = A
    PROVE  Lifecycle!UploadKnown(p, W.rows[c].hash, e) \/ Lifecycle!UploadNew(p, W.rows[c].hash, e)
  <1> DEFINE h == W.rows[c].hash
             F == [j \in Items |-> ShownFile(j)]
             file == [at |-> p, blob |-> c, live |-> TRUE, expires |-> e]
             G == [F EXCEPT ![i] = [at |-> p, blob |-> h, live |-> TRUE, expires |-> e]]
             fs == [j \in Items |-> FileShown(A, j)]
             rs == [g \in Hashes |-> RowShown(A, g)]
  <1>1. /\ W \in TypedTables /\ WellFormed(W) /\ Extends(S, W) /\ W.files = S.files
        /\ W.rows[c] # NoRow /\ h \in Hashes
    BY GainsFacts
  <1>2. file \in FileRows /\ file.blob = c
    BY DEF FileRows
  <1>3. Relinked(file, h) = [at |-> p, blob |-> h, live |-> TRUE, expires |-> e]
    <2>1. file \in FileRows /\ file.at = p /\ file.live = TRUE /\ file.expires = e
      BY <1>2
    <2> HIDE DEF file, h
    <2>2. /\ Relinked(file, h) \in ShownFiles /\ Relinked(file, h).at = p /\ Relinked(file, h).blob = h
          /\ Relinked(file, h).live = TRUE /\ Relinked(file, h).expires = e
      BY <1>1, <2>1 DEF Relinked, FileRows, ShownFiles
    <2>3. [at |-> p, blob |-> h, live |-> TRUE, expires |-> e] \in ShownFiles
      BY <1>1 DEF ShownFiles
    <2> QED
      BY <2>2, <2>3, SameShown
  <1>4. A = [files |-> [W.files EXCEPT ![i] = file], rows |-> W.rows, objects |-> W.objects]
    OBVIOUS
  <1> HIDE DEF file
  <1>5. /\ A \in TypedTables /\ WellFormed(A) /\ Extends(S, A) /\ A.rows = W.rows /\ A.objects = W.objects
        /\ \A g : RowShown(A, g) = RowShown(W, g)
        /\ \A j \in Items \ {i} : FileShown(A, j) = FileShown(S, j)
        /\ FileShown(A, i) = Relinked(file, h)
    <2>1. WithFile(S, W, A, i, file, c)
      BY <1>1, <1>2, <1>4, AttachedFacts
    <2> QED
      BY <2>1 DEF WithFile
  <1>6. \A j : ShownFile(j) = FileShown(S, j)
    BY ShownFacts
  <1>7. fs = G
    <2>1. \A j \in Items : F[j] = FileShown(S, j)
      BY <1>6
    <2>2. \A j \in Items : fs[j] = G[j]
      BY <1>3, <1>5, <2>1
    <2> QED
      BY <2>2
  <1>8. rs = [g \in Hashes |-> RowShown(W, g)]
    BY <1>5
  <1>9. AfterRelease(S, A, {}) = A
    BY <1>5, AfterNone
  <1> HIDE DEF F, G, fs, rs, h
  <1>10. Lifecycle!Settle(fs, rs, A.objects, [g \in Hashes |-> Loss(S, {}, g)])
    BY <1>5, <1>9, Settles DEF fs, rs
  <1>11. /\ Lifecycle!Count({}) = [g \in Hashes |-> Loss(S, {}, g)] /\ Lifecycle!LiveAt(p) = LiveIn(S, p)
         /\ ~Lifecycle!Exists(i)
    <2>1. {} \in SUBSET Items /\ \A j \in {} : S.files[j] # NoFile
      OBVIOUS
    <2> QED
      BY <2>1, LifecycleSees
  <1>12. Lifecycle!Settle(G, [g \in Hashes |-> RowShown(W, g)], W.objects, Lifecycle!Count({}))
    BY <1>5, <1>7, <1>8, <1>10, <1>11
  <1>13. Lifecycle!Attach(p, h, e, [g \in Hashes |-> RowShown(W, g)], W.objects)
    BY <1>11, <1>12 DEF Lifecycle!Attach, Lifecycle!NoLoss, G, F
  <1> QED
    BY <1>13, UploadShown DEF h

-----------------------------------------------------------------------------
\* The request of t goes on, and nothing of it shows yet.
Onward(t) ==
    /\ step'[t] # "idle" /\ settled' = settled
    /\ draft'[t].open => files' = settled.files /\ rows' = settled.rows
    /\ Halfway(step'[t], req'[t], settled, Now(t)')

\* It ends, and all of it shows, or nothing.
Ended(t) == step'[t] = "idle" /\ (Lifecycle!Next \/ Shown' = Shown)

\* What is known of a request but what it has touched.
SameRequest(q, r) ==
    /\ SameHands(q, r)
    /\ q.at = r.at /\ q.hash = r.hash /\ q.expires = r.expires /\ q.key = r.key

\* A request half-way is one of these.
LEMMA OpFits ==
    ASSUME NEW s, NEW r, NEW S, NEW T, Halfway(s, r, S, T)
    PROVE  /\ r.op \in {"upload", "link"} => UploadFits(s, r, S, T)
           /\ r.op \in {"delete_item", "expire", "bulk_delete"} => DeleteFits(s, r, S, T)
           /\ r.op = "bulk_move" => MoveFits(s, r, S, T)
           /\ r.op = "bulk_copy" => CopyFits(s, r, S, T)
           /\ r.op = "rename" => RenameFits(s, r, S, T)
           /\ r.op = "scan" => ScanFits(s, r, S, T)
           /\ r.op = "purge" => PurgeFits(s, r, S, T)
  <1>1. /\ UploadFits(s, r, S, T) => r.op \in {"upload", "link"}
        /\ DeleteFits(s, r, S, T) => r.op \in {"delete_item", "expire", "bulk_delete"}
        /\ MoveFits(s, r, S, T) => r.op = "bulk_move"
        /\ CopyFits(s, r, S, T) => r.op = "bulk_copy"
        /\ RenameFits(s, r, S, T) => r.op = "rename"
        /\ ScanFits(s, r, S, T) => r.op = "scan"
        /\ PurgeFits(s, r, S, T) => r.op = "purge"
    BY Zenon DEF UploadFits, DeleteFits, MoveFits, CopyFits, RenameFits, ScanFits, PurgeFits
  <1> QED
    BY <1>1 DEF Halfway

\* What a request has touched does not matter.
LEMMA SameReleasing ==
    ASSUME NEW s, NEW q, NEW r, NEW P, NEW T, SameRequest(q, r)
    PROVE  Releasing(s, q, P, T) <=> Releasing(s, r, P, T)
  BY DEF SameRequest, SameHands, Releasing

\* ... and so an upload, ...
LEMMA SameUpload ==
    ASSUME NEW s, NEW q, NEW r, NEW S, NEW T, SameRequest(q, r), UploadFits(s, r, S, T)
    PROVE  UploadFits(s, q, S, T)
  <1>1. \A P, U : Releasing(s, q, P, U) <=> Releasing(s, r, P, U)
    BY SameReleasing
  <1>2. /\ q.op = r.op /\ q.id = r.id /\ q.old = r.old /\ q.target = r.target /\ q.count = r.count
        /\ q.at = r.at /\ q.hash = r.hash /\ q.expires = r.expires
    BY DEF SameRequest, SameHands
  <1> QED
    BY <1>1, <1>2 DEF UploadFits

\* ... a deletion, ...
LEMMA SameDelete ==
    ASSUME NEW s, NEW q, NEW r, NEW S, NEW T, SameRequest(q, r), DeleteFits(s, r, S, T)
    PROVE  DeleteFits(s, q, S, T)
  <1>1. \A P, U : Releasing(s, q, P, U) <=> Releasing(s, r, P, U)
    BY SameReleasing
  <1>2. q.op = r.op /\ q.id = r.id /\ q.item = r.item /\ q.todo = r.todo
    BY DEF SameRequest, SameHands
  <1>3. Pending(s, q) = Pending(s, r)
    BY <1>2 DEF Pending
  <1>4. \A D : DeletedFits(s, r, S, T, D) => DeletedFits(s, q, S, T, D)
    BY <1>1, <1>2, <1>3 DEF DeletedFits
  <1> QED
    BY <1>2, <1>4 DEF DeleteFits

\* ... and the other requests.
LEMMA SameOthers ==
    ASSUME NEW s, NEW q, NEW r, NEW S, NEW T, SameRequest(q, r)
    PROVE  /\ MoveFits(s, r, S, T) => MoveFits(s, q, S, T)
           /\ CopyFits(s, r, S, T) => CopyFits(s, q, S, T)
           /\ RenameFits(s, r, S, T) => RenameFits(s, q, S, T)
           /\ ScanFits(s, r, S, T) => ScanFits(s, q, S, T)
           /\ PurgeFits(s, r, S, T) => PurgeFits(s, q, S, T)
  <1>1. \A P, U : Releasing(s, q, P, U) <=> Releasing(s, r, P, U)
    BY SameReleasing
  <1>2. /\ q.op = r.op /\ q.id = r.id /\ q.old = r.old /\ q.target = r.target /\ q.count = r.count
        /\ q.at = r.at /\ q.key = r.key /\ q.item = r.item /\ q.todo = r.todo
    BY DEF SameRequest, SameHands
  <1>3. MoveFits(s, r, S, T) => MoveFits(s, q, S, T)
    <2>1. Pending(s, q) = Pending(s, r)
      BY <1>2 DEF Pending
    <2> QED
      BY <2>1, <1>2 DEF MoveFits
  <1>4. CopyFits(s, r, S, T) => CopyFits(s, q, S, T)
    <2>1. \A N, b : Gain(s, q, T, N, b) = Gain(s, r, T, N, b)
      BY <1>2 DEF Gain, Uncounted
    <2>2. \A N : CopiedRows(s, q, S, T, N) = CopiedRows(s, r, S, T, N)
      BY <2>1 DEF CopiedRows
    <2>3. \A N, u : CopiedFits(s, r, S, T, N, u) => CopiedFits(s, q, S, T, N, u)
      BY <2>2, <1>2 DEF CopiedFits
    <2> QED
      BY <2>3, <1>2 DEF CopyFits
  <1>5. RenameFits(s, r, S, T) => RenameFits(s, q, S, T)
    BY <1>1, <1>2 DEF RenameFits
  <1>6. ScanFits(s, r, S, T) => ScanFits(s, q, S, T)
    BY <1>2 DEF ScanFits
  <1>7. PurgeFits(s, r, S, T) => PurgeFits(s, q, S, T)
    BY <1>2 DEF PurgeFits
  <1> QED
    BY <1>3, <1>4, <1>5, <1>6, <1>7

\* What a request has touched does not matter to how far it is.
LEMMA SameHalfway ==
    ASSUME NEW s, NEW q, NEW r, NEW S, NEW T, SameRequest(q, r), Halfway(s, r, S, T)
    PROVE  Halfway(s, q, S, T)
  BY SameUpload, SameDelete, SameOthers DEF Halfway

-----------------------------------------------------------------------------
\* What is known while the only request is in progress.
LEMMA BusyFacts ==
    ASSUME Alone, SoleInv, NEW t \in Tasks, ~Idle(t)
    PROVE  /\ IInv /\ WellFormed(settled) /\ Covered(settled) /\ Shown = settled
           /\ draft[t].open => files = settled.files /\ rows = settled.rows
           /\ Halfway(step[t], req[t], settled, Now(t))
           /\ \A u \in Tasks : u = t
  BY DEF Alone, SoleInv, Progress, Shown

\* What a request sees is typed.
LEMMA NowFacts ==
    ASSUME IInv, NEW t \in Tasks
    PROVE  /\ Now(t) \in TypedTables
           /\ Now(t).files = Files(t) /\ Now(t).rows = Rows(t) /\ Now(t).objects = objects
           /\ ~draft[t].open => Now(t) = [files |-> files, rows |-> rows, objects |-> objects]
  <1>1. /\ Files(t) \in [Items -> FileRows \cup {NoFile}] /\ Rows(t) \in [Ids -> StorageRows \cup {NoRow}]
        /\ objects \in SUBSET Keys
    BY ViewFacts DEF IInv, Typed, TablesTyped
  <1>2. ~draft[t].open => Files(t) = files /\ Rows(t) = rows
    BY ReqTyped
  <1> QED
    BY <1>1, <1>2 DEF Now, TypedTables

\* The request has ended: what is in the tables shows.
LEMMA ShownLater ==
    ASSUME Alone, NEW t \in Tasks, step'[t] = "idle"
    PROVE  Shown' = [files |-> files', rows |-> rows', objects |-> objects']
  <1>1. \A u \in Tasks : step'[u] = "idle"
    BY DEF Alone
  <1> QED
    BY <1>1 DEF Shown, Idle

\* A request that reads, or writes, goes on.
LEMMA GoesOn ==
    ASSUME IInv, NEW t \in Tasks, NEW s \in Steps \ {"idle"}, NEW r \in Requests, Goto(t, s, r),
           draft'[t].open => files' = settled.files /\ rows' = settled.rows,
           Halfway(s, r, settled, Now(t)')
    PROVE  Onward(t)
  <1>1. step'[t] = s /\ SameRequest(req'[t], r)
    BY GotoFacts DEF SameRequest
  <1>2. settled' = settled
    BY DEF Goto
  <1>3. Halfway(s, req'[t], settled, Now(t)')
    BY <1>1, SameHalfway
  <1> QED
    BY <1>1, <1>2, <1>3 DEF Onward

\* ... and one that only reads.
LEMMA ReadsOn ==
    ASSUME Alone, SoleInv, NEW t \in Tasks, ~Idle(t), NEW s \in Steps \ {"idle"}, NEW r \in Requests,
           Goto(t, s, r), ReadOnly, Halfway(s, r, settled, Now(t))
    PROVE  Onward(t)
  <1>1. Now(t)' = Now(t) /\ draft' = draft /\ files' = files /\ rows' = rows
    BY DEF ReadOnly, Now, Files, Rows
  <1>2. draft'[t].open => files' = settled.files /\ rows' = settled.rows
    BY <1>1, BusyFacts
  <1>3. Halfway(s, r, settled, Now(t)')
    BY <1>1
  <1> QED
    BY <1>2, <1>3, BusyFacts, GoesOn

-----------------------------------------------------------------------------
\* The tables that a request sees after it has written a file, or a row.
LEMMA FileWritten ==
    ASSUME IInv, NEW t \in Tasks, NEW i \in Items, NEW row \in FileRows, WriteFile(t, i, row), objects' = objects
    PROVE  /\ Now(t)' = [files |-> [Files(t) EXCEPT ![i] = row], rows |-> Rows(t), objects |-> objects]
           /\ Now(t)' \in TypedTables
           /\ draft'[t].open => draft[t].open /\ files' = files /\ rows' = rows
           /\ ~draft[t].open => Now(t)' = [files |-> files', rows |-> rows', objects |-> objects']
  <1>0. TablesTyped /\ objects' \subseteq Keys /\ (draft[t].open \/ draft[t] = NoDraft)
    BY DEF IInv, Typed, TablesTyped, StepFits
  <1>1. /\ <<>> \in Some(Ids, StorageRows \cup {NoRow}) /\ DOMAIN <<>> = {}
        /\ Row(i, row) \in Some(Items, FileRows) /\ DOMAIN Row(i, row) = {i} /\ Row(i, row)[i] = row
    BY EmptySome, RowFacts
  <1>2. Write(t, Row(i, row), <<>>)
    BY DEF WriteFile
  <1>10. /\ TablesTyped' /\ draft'[t].open = draft[t].open
         /\ draft[t] = NoDraft => draft'[t] = NoDraft
         /\ draft[t].open => files' = files /\ rows' = rows
         /\ \A j \in DOMAIN Row(i, row) : Files(t)'[j] = Row(i, row)[j]
         /\ \A j \in Items \ DOMAIN Row(i, row) : Files(t)'[j] = Files(t)[j]
         /\ \A b \in Ids \ DOMAIN <<>> : Rows(t)'[b] = Rows(t)[b]
    BY <1>0, <1>1, <1>2, WriteViews
  <1>3. /\ TablesTyped' /\ draft'[t].open = draft[t].open
        /\ draft[t] = NoDraft => draft'[t] = NoDraft
        /\ draft[t].open => files' = files /\ rows' = rows
        /\ Files(t)'[i] = row /\ \A j \in Items \ {i} : Files(t)'[j] = Files(t)[j]
        /\ \A b \in Ids : Rows(t)'[b] = Rows(t)[b]
    BY <1>1, <1>10
  <1>4. /\ Files(t) \in [Items -> FileRows \cup {NoFile}] /\ Rows(t) \in [Ids -> StorageRows \cup {NoRow}]
        /\ Files(t)' \in [Items -> FileRows \cup {NoFile}] /\ Rows(t)' \in [Ids -> StorageRows \cup {NoRow}]
    BY <1>0, <1>3, ViewFacts, ViewNext
  <1>5. Rows(t)' = Rows(t)
    BY <1>3, <1>4
  <1>6. Files(t)' = [Files(t) EXCEPT ![i] = row]
    BY <1>3, <1>4
  <1>7. Now(t)' = [files |-> Files(t)', rows |-> Rows(t)', objects |-> objects']
    BY DEF Now
  <1>8. ~draft[t].open => Files(t)' = files' /\ Rows(t)' = rows'
    BY <1>0, <1>1, <1>2, DirectWrite
  <1>9. Now(t)' \in TypedTables
    BY <1>0, <1>4, <1>7 DEF TypedTables
  <1> QED
    BY <1>3, <1>5, <1>6, <1>7, <1>8, <1>9

\* A row is written.
LEMMA RowWritten ==
    ASSUME IInv, NEW t \in Tasks, NEW b \in Ids, NEW row \in StorageRows, WriteRow(t, b, row), objects' = objects
    PROVE  /\ Now(t)' = [files |-> Files(t), rows |-> [Rows(t) EXCEPT ![b] = row], objects |-> objects]
           /\ Now(t)' \in TypedTables
           /\ draft'[t].open => draft[t].open /\ files' = files /\ rows' = rows
           /\ ~draft[t].open => Now(t)' = [files |-> files', rows |-> rows', objects |-> objects']
  <1>0. TablesTyped /\ objects' \subseteq Keys /\ (draft[t].open \/ draft[t] = NoDraft)
    BY DEF IInv, Typed, TablesTyped, StepFits
  <1>1. /\ <<>> \in Some(Items, FileRows) /\ DOMAIN <<>> = {}
        /\ Row(b, row) \in Some(Ids, StorageRows \cup {NoRow}) /\ DOMAIN Row(b, row) = {b} /\ Row(b, row)[b] = row
    <2>1. row \in StorageRows \cup {NoRow}
      OBVIOUS
    <2> QED
      BY <2>1, EmptySome, RowFacts
  <1>2. Write(t, <<>>, Row(b, row))
    BY DEF WriteRow
  <1>10. /\ TablesTyped' /\ draft'[t].open = draft[t].open
         /\ draft[t] = NoDraft => draft'[t] = NoDraft
         /\ draft[t].open => files' = files /\ rows' = rows
         /\ \A c \in DOMAIN Row(b, row) : Rows(t)'[c] = Row(b, row)[c]
         /\ \A c \in Ids \ DOMAIN Row(b, row) : Rows(t)'[c] = Rows(t)[c]
         /\ \A i \in Items \ DOMAIN <<>> : Files(t)'[i] = Files(t)[i]
    <2> DEFINE none == <<>>
               one == Row(b, row)
    <2>1. none \in Some(Items, FileRows) /\ one \in Some(Ids, StorageRows \cup {NoRow}) /\ Write(t, none, one)
      BY <1>1, <1>2
    <2> HIDE DEF none, one
    <2>2. /\ TablesTyped' /\ draft'[t].open = draft[t].open
          /\ draft[t] = NoDraft => draft'[t] = NoDraft
          /\ draft[t].open => files' = files /\ rows' = rows
          /\ \A c \in DOMAIN one : Rows(t)'[c] = one[c]
          /\ \A c \in Ids \ DOMAIN one : Rows(t)'[c] = Rows(t)[c]
          /\ \A i \in Items \ DOMAIN none : Files(t)'[i] = Files(t)[i]
      BY <1>0, <2>1, WriteViews
    <2> QED
      BY <2>2 DEF none, one
  <1>3. /\ TablesTyped' /\ draft'[t].open = draft[t].open
        /\ draft[t] = NoDraft => draft'[t] = NoDraft
        /\ draft[t].open => files' = files /\ rows' = rows
        /\ Rows(t)'[b] = row /\ \A c \in Ids \ {b} : Rows(t)'[c] = Rows(t)[c]
        /\ \A i \in Items : Files(t)'[i] = Files(t)[i]
    BY <1>1, <1>10
  <1>4. /\ Files(t) \in [Items -> FileRows \cup {NoFile}] /\ Rows(t) \in [Ids -> StorageRows \cup {NoRow}]
        /\ Files(t)' \in [Items -> FileRows \cup {NoFile}] /\ Rows(t)' \in [Ids -> StorageRows \cup {NoRow}]
    BY <1>0, <1>3, ViewFacts, ViewNext
  <1>5. Files(t)' = Files(t)
    BY <1>3, <1>4
  <1>6. Rows(t)' = [Rows(t) EXCEPT ![b] = row]
    BY <1>3, <1>4
  <1>7. Now(t)' = [files |-> Files(t)', rows |-> Rows(t)', objects |-> objects']
    BY DEF Now
  <1>8. ~draft[t].open => Files(t)' = files' /\ Rows(t)' = rows'
    BY <1>0, <1>1, <1>2, DirectWrite
  <1>9. Now(t)' \in TypedTables
    BY <1>0, <1>4, <1>7 DEF TypedTables
  <1> QED
    BY <1>3, <1>5, <1>6, <1>7, <1>8, <1>9

\* ... and after it has deleted a row, which nothing refers to then.
LEMMA RowDeleted ==
    ASSUME IInv, NEW t \in Tasks, NEW b \in Ids, NEW B, B = {i \in Items : Files(t)[i] # NoFile /\ Files(t)[i].blob = b},
           Write(t, [i \in B |-> [Files(t)[i] EXCEPT !.blob = NoId]], Row(b, NoRow)), objects' = objects
    PROVE  /\ Now(t)' = [files |-> [i \in Items |-> Unlinked(Files(t)[i], {b})],
                         rows |-> [Rows(t) EXCEPT ![b] = NoRow], objects |-> objects]
           /\ Now(t)' \in TypedTables
           /\ draft'[t].open => draft[t].open /\ files' = files /\ rows' = rows
           /\ ~draft[t].open => Now(t)' = [files |-> files', rows |-> rows', objects |-> objects']
  <1> DEFINE fs == [i \in B |-> [Files(t)[i] EXCEPT !.blob = NoId]]
  <1>0. TablesTyped /\ objects' \subseteq Keys /\ (draft[t].open \/ draft[t] = NoDraft)
    BY DEF IInv, Typed, TablesTyped, StepFits
  <1>1. Files(t) \in [Items -> FileRows \cup {NoFile}] /\ Rows(t) \in [Ids -> StorageRows \cup {NoRow}]
    BY <1>0, ViewFacts
  <1>2. \A i \in B : fs[i] = WithBlob(Files(t)[i], NoId) /\ fs[i] \in FileRows
    <2> SUFFICES ASSUME NEW i \in B
                 PROVE  fs[i] = WithBlob(Files(t)[i], NoId) /\ fs[i] \in FileRows
      OBVIOUS
    <2>1. fs[i] = WithBlob(Files(t)[i], NoId)
      BY DEF WithBlob
    <2>2. Files(t)[i] \in FileRows
      BY <1>1
    <2> QED
      BY <2>1, <2>2, FileRelinked
  <1>3. DOMAIN fs = B /\ B \in SUBSET Items
    OBVIOUS
  <1>4. fs \in [B -> FileRows]
    BY <1>2
  <1> HIDE DEF fs
  <1>5. fs \in Some(Items, FileRows)
    BY <1>3, <1>4, SomeIntro
  <1>6. /\ Row(b, NoRow) \in Some(Ids, StorageRows \cup {NoRow}) /\ DOMAIN Row(b, NoRow) = {b}
        /\ Row(b, NoRow)[b] = NoRow
    <2>1. NoRow \in StorageRows \cup {NoRow}
      OBVIOUS
    <2> QED
      BY <2>1, RowFacts
  <1>7. Write(t, fs, Row(b, NoRow))
    BY DEF fs
  <1>16. /\ TablesTyped' /\ draft'[t].open = draft[t].open
         /\ draft[t] = NoDraft => draft'[t] = NoDraft
         /\ draft[t].open => files' = files /\ rows' = rows
         /\ \A i \in DOMAIN fs : Files(t)'[i] = fs[i]
         /\ \A i \in Items \ DOMAIN fs : Files(t)'[i] = Files(t)[i]
         /\ \A c \in DOMAIN Row(b, NoRow) : Rows(t)'[c] = Row(b, NoRow)[c]
         /\ \A c \in Ids \ DOMAIN Row(b, NoRow) : Rows(t)'[c] = Rows(t)[c]
    BY <1>0, <1>5, <1>6, <1>7, WriteViews
  <1>8. /\ TablesTyped' /\ draft'[t].open = draft[t].open
        /\ draft[t] = NoDraft => draft'[t] = NoDraft
        /\ draft[t].open => files' = files /\ rows' = rows
        /\ \A i \in B : Files(t)'[i] = fs[i]
        /\ \A i \in Items \ B : Files(t)'[i] = Files(t)[i]
        /\ Rows(t)'[b] = NoRow /\ \A c \in Ids \ {b} : Rows(t)'[c] = Rows(t)[c]
    BY <1>3, <1>6, <1>16
  <1>9. Files(t)' \in [Items -> FileRows \cup {NoFile}] /\ Rows(t)' \in [Ids -> StorageRows \cup {NoRow}]
    BY <1>8, ViewNext
  <1>10. Rows(t)' = [Rows(t) EXCEPT ![b] = NoRow]
    BY <1>1, <1>8, <1>9
  <1>11. \A i \in Items : Files(t)'[i] = Unlinked(Files(t)[i], {b})
    BY <1>2, <1>8 DEF Unlinked
  <1>12. Files(t)' = [i \in Items |-> Unlinked(Files(t)[i], {b})]
    BY <1>9, <1>11
  <1>13. Now(t)' = [files |-> Files(t)', rows |-> Rows(t)', objects |-> objects']
    BY DEF Now
  <1>14. ~draft[t].open => Files(t)' = files' /\ Rows(t)' = rows'
    BY <1>0, <1>5, <1>6, <1>7, DirectWrite
  <1>15. Now(t)' \in TypedTables
    BY <1>0, <1>9, <1>13 DEF TypedTables
  <1> QED
    BY <1>8, <1>10, <1>12, <1>13, <1>14, <1>15

-----------------------------------------------------------------------------
(***************************************************************************)
(* The statements of decrement_ref_count.                                  *)
(***************************************************************************)
\* Requests that differ in what a release works out.
SameDuty(q, r) ==
    /\ q.op = r.op /\ q.id = r.id /\ q.old = r.old /\ q.item = r.item /\ q.target = r.target
    /\ q.todo = r.todo /\ q.at = r.at /\ q.hash = r.hash /\ q.expires = r.expires

\* A transaction writes nothing but its draft.
Drafted(t) ==
    /\ draft'[t].open => draft[t].open /\ files' = files /\ rows' = rows
    /\ ~draft[t].open => Now(t)' = [files |-> files', rows |-> rows', objects |-> objects']

\* The release that has begun with the tables P goes on, or is over.
ReleaseOn(t, P) ==
    \E s \in ReleaseSteps, r \in Requests :
        Goto(t, s, r) /\ SameDuty(r, req[t]) /\ Releasing(s, r, P, Now(t)')

ReleaseOver(t, P) == Released(t) /\ Now(t)' = Unref(P, req[t].id)

\* A statement that only reads.
LEMMA ReadDrafted ==
    ASSUME IInv, NEW t \in Tasks, ReadOnly
    PROVE  Drafted(t) /\ Now(t)' = Now(t)
  <1>1. Now(t)' = Now(t) /\ draft' = draft /\ files' = files /\ rows' = rows /\ objects' = objects
    BY DEF ReadOnly, Now, Files, Rows
  <1> QED
    BY <1>1, NowFacts DEF Drafted

\* The count is read.
LEMMA ReadCountReleases ==
    ASSUME IInv, NEW t \in Tasks, NEW P \in TypedTables, Releasing(step[t], req[t], P, Now(t)), ReadCount(t)
    PROVE  ReleaseOn(t, P) /\ Drafted(t)
  <1> DEFINE b == req[t].id
             r == [req[t] EXCEPT !.count = Rows(t)[b].count - 1]
  <1>1. step[t] = "read_count" /\ req[t] \in Requests
    BY ReqTyped DEF ReadCount, At
  <1>2. b \in Ids /\ P.rows[b] # NoRow /\ Rows(t) = P.rows /\ Files(t) = P.files /\ objects = P.objects
    BY <1>1, NowFacts DEF Releasing, ReleaseSteps
  <1>3. P.rows[b] \in StorageRows /\ P.rows[b].count \in Int
    BY <1>2, TableFacts
  <1>4. Goto(t, "lower", r) /\ ReadOnly
    BY <1>2 DEF ReadCount
  <1>5. r \in Requests /\ SameDuty(r, req[t]) /\ r.count = P.rows[b].count - 1
    <2>1. r \in Requests
      BY <1>1, <1>2, <1>3 DEF Requests
    <2>2. SameDuty(r, req[t]) /\ r.count = P.rows[b].count - 1
      BY <1>1, <1>2 DEF Requests, SameDuty
    <2> QED
      BY <2>1, <2>2
  <1>6. r.id = b
    BY <1>5 DEF SameDuty
  <1> HIDE DEF r
  <1>7. Drafted(t) /\ Now(t)' = Now(t)
    BY <1>4, ReadDrafted
  <1>8. Now(t).files = P.files /\ Now(t).rows = P.rows /\ Now(t).objects = P.objects
    BY <1>2, NowFacts
  <1>9. Releasing("lower", r, P, Now(t))
    BY <1>2, <1>5, <1>6, <1>8 DEF Releasing, ReleaseSteps
  <1> QED
    BY <1>4, <1>5, <1>7, <1>9 DEF ReleaseOn, ReleaseSteps

\* It is written, less one.
LEMMA LowerReleases ==
    ASSUME IInv, NEW t \in Tasks, NEW P \in TypedTables, Releasing(step[t], req[t], P, Now(t)), Lower(t)
    PROVE  (ReleaseOn(t, P) \/ ReleaseOver(t, P)) /\ Drafted(t)
  <1> DEFINE b == req[t].id
             row == P.rows[b]
             n == row.count - 1
  <1>1. step[t] = "lower" /\ req[t] \in Requests
    BY ReqTyped DEF Lower, At
  <1>2. /\ b \in Ids /\ P.rows[b] # NoRow /\ Rows(t) = P.rows /\ Files(t) = P.files /\ objects = P.objects
        /\ req[t].count = n
    BY <1>1, NowFacts DEF Releasing, ReleaseSteps
  <1>3. row \in StorageRows /\ row.count \in Int /\ KeyOf(row) \in Keys
    <2>1. row \in StorageRows /\ row.count \in Int /\ row.hash \in Hashes /\ row.name \in Names
      BY <1>2, TableFacts
    <2> QED
      BY <2>1 DEF KeyOf, Keys
  <1>4. WithCount(row, n) = [row EXCEPT !.count = n] /\ WithCount(row, n) \in StorageRows
    <2>1. n \in Int
      BY <1>3
    <2> QED
      BY <2>1, <1>3, RowCounted DEF WithCount
  <1>5. /\ WriteRow(t, b, WithCount(row, n)) /\ objects' = objects
        /\ IF n <= 0 THEN Goto(t, "delete_object", [req[t] EXCEPT !.key = KeyOf(row)]) ELSE Released(t)
    BY <1>2, <1>4 DEF Lower
  <1>6. Drafted(t) /\ Now(t)' = [files |-> P.files, rows |-> [P.rows EXCEPT ![b] = WithCount(row, n)],
                                 objects |-> P.objects]
    BY <1>2, <1>4, <1>5, RowWritten DEF Drafted
  <1>7. CASE n <= 0
    <2> DEFINE r == [req[t] EXCEPT !.key = KeyOf(row)]
    <2>1. r \in Requests /\ SameDuty(r, req[t]) /\ r.key = KeyOf(row) /\ Goto(t, "delete_object", r)
      <3>1. r \in Requests
        BY <1>1, <1>3 DEF Requests
      <3>2. SameDuty(r, req[t]) /\ r.key = KeyOf(row)
        BY <1>1 DEF Requests, SameDuty
      <3> QED
        BY <3>1, <3>2, <1>5, <1>7
    <2> HIDE DEF r
    <2>2. r.id = b
      BY <2>1 DEF SameDuty
    <2>3. /\ Now(t)'.files = P.files /\ Now(t)'.objects = P.objects
          /\ Now(t)'.rows = [P.rows EXCEPT ![b] = WithCount(row, n)]
      BY <1>6
    <2>4. [P.rows EXCEPT ![b] = WithCount(row, n)] = [P.rows EXCEPT ![b] = WithCount(@, @.count - 1)]
      OBVIOUS
    <2>5. Releasing("delete_object", r, P, Now(t)')
      BY <1>2, <1>7, <2>1, <2>2, <2>3, <2>4 DEF Releasing, ReleaseSteps
    <2> QED
      BY <1>6, <2>1, <2>5 DEF ReleaseOn, ReleaseSteps
  <1>8. CASE ~(n <= 0)
    <2>1. Unref(P, b) = [files |-> P.files, rows |-> [P.rows EXCEPT ![b] = WithCount(@, @.count - 1)],
                         objects |-> P.objects]
      BY <1>8 DEF Unref
    <2>2. [P.rows EXCEPT ![b] = WithCount(row, n)] = [P.rows EXCEPT ![b] = WithCount(@, @.count - 1)]
      OBVIOUS
    <2> QED
      BY <1>5, <1>6, <1>8, <2>1, <2>2 DEF ReleaseOver
  <1> QED
    BY <1>7, <1>8

\* The object of a content without references is deleted.
LEMMA DeleteObjectReleases ==
    ASSUME IInv, NEW t \in Tasks, NEW P \in TypedTables, Releasing(step[t], req[t], P, Now(t)), DeleteObject(t)
    PROVE  ReleaseOn(t, P) /\ Drafted(t)
  <1> DEFINE b == req[t].id
  <1>1. step[t] = "delete_object" /\ req[t] \in Requests
    BY ReqTyped DEF DeleteObject, At
  <1>2. /\ b \in Ids /\ P.rows[b] # NoRow /\ P.rows[b].count - 1 <= 0
        /\ Rows(t) = [P.rows EXCEPT ![b] = WithCount(@, @.count - 1)]
        /\ Files(t) = P.files /\ objects = P.objects /\ req[t].key = KeyOf(P.rows[b])
    BY <1>1, NowFacts DEF Releasing, ReleaseSteps
  <1>3. /\ objects' = objects \ {req[t].key} /\ files' = files /\ rows' = rows /\ draft' = draft
        /\ Goto(t, "delete_row", req[t])
    BY DEF DeleteObject
  <1>4. Now(t)' = [files |-> Files(t), rows |-> Rows(t), objects |-> objects']
    BY <1>3 DEF Now, Files, Rows
  <1>5. Drafted(t)
    <2>1. ~draft[t].open => Files(t) = files /\ Rows(t) = rows
      BY ReqTyped
    <2> QED
      BY <2>1, <1>3, <1>4 DEF Drafted
  <1>6. /\ Now(t)'.files = P.files /\ Now(t)'.objects = P.objects \ {KeyOf(P.rows[b])}
        /\ Now(t)'.rows = [P.rows EXCEPT ![b] = WithCount(@, @.count - 1)]
    BY <1>2, <1>3, <1>4
  <1>7. Releasing("delete_row", req[t], P, Now(t)')
    BY <1>2, <1>6 DEF Releasing, ReleaseSteps
  <1>8. SameDuty(req[t], req[t])
    BY DEF SameDuty
  <1> QED
    BY <1>1, <1>3, <1>5, <1>7, <1>8 DEF ReleaseOn, ReleaseSteps

\* Then its row, and the foreign key sets what refers to it to NULL.
LEMMA DeleteRowReleases ==
    ASSUME IInv, NEW t \in Tasks, NEW P \in TypedTables, Releasing(step[t], req[t], P, Now(t)), DeleteRow(t)
    PROVE  ReleaseOver(t, P) /\ Drafted(t)
  <1> DEFINE b == req[t].id
             B == {i \in Items : Files(t)[i] # NoFile /\ Files(t)[i].blob = b}
  <1>1. step[t] = "delete_row" /\ req[t] \in Requests
    BY ReqTyped DEF DeleteRow, At
  <1>2. /\ b \in Ids /\ P.rows[b] # NoRow /\ P.rows[b].count - 1 <= 0
        /\ Rows(t) = [P.rows EXCEPT ![b] = WithCount(@, @.count - 1)]
        /\ Files(t) = P.files /\ objects = P.objects \ {KeyOf(P.rows[b])}
    BY <1>1, NowFacts DEF Releasing, ReleaseSteps
  <1>3. /\ Write(t, [i \in B |-> [Files(t)[i] EXCEPT !.blob = NoId]], Row(b, NoRow)) /\ objects' = objects
        /\ Released(t)
    BY DEF DeleteRow
  <1>4. /\ Drafted(t)
        /\ Now(t)' = [files |-> [i \in Items |-> Unlinked(Files(t)[i], {b})],
                      rows |-> [Rows(t) EXCEPT ![b] = NoRow], objects |-> objects]
    <2>1. B = {i \in Items : Files(t)[i] # NoFile /\ Files(t)[i].blob = b}
      OBVIOUS
    <2> HIDE DEF B
    <2> QED
      BY <2>1, <1>2, <1>3, RowDeleted DEF Drafted
  <1>5. [Rows(t) EXCEPT ![b] = NoRow] = [P.rows EXCEPT ![b] = NoRow]
    <2>1. P.rows \in [Ids -> StorageRows \cup {NoRow}]
      BY TableFacts
    <2> QED
      BY <1>2, <2>1
  <1>6. Unref(P, b) = [files |-> [i \in Items |-> Unlinked(P.files[i], {b})],
                       rows |-> [P.rows EXCEPT ![b] = NoRow], objects |-> P.objects \ {KeyOf(P.rows[b])}]
    BY <1>2 DEF Unref
  <1> QED
    BY <1>2, <1>3, <1>4, <1>5, <1>6 DEF ReleaseOver

\* Every statement of decrement_ref_count goes on, or ends it.
LEMMA Releases ==
    ASSUME IInv, NEW t \in Tasks, NEW P \in TypedTables, Releasing(step[t], req[t], P, Now(t)),
           ReadCount(t) \/ Lower(t) \/ DeleteObject(t) \/ DeleteRow(t)
    PROVE  (ReleaseOn(t, P) \/ ReleaseOver(t, P)) /\ Drafted(t)
  BY ReadCountReleases, LowerReleases, DeleteObjectReleases, DeleteRowReleases

-----------------------------------------------------------------------------
(***************************************************************************)
(* Uploads.                                                                *)
(***************************************************************************)
\* The requests of StorageLifecycle are steps of it.
LEMMA LifecycleSteps ==
    /\ \A p \in Places, h \in Hashes, e \in BOOLEAN :
         Lifecycle!UploadKnown(p, h, e) \/ Lifecycle!UploadNew(p, h, e) => Lifecycle!Next
    /\ \A u \in Users : \A D \in SUBSET Items : Lifecycle!Delete(u, D) => Lifecycle!Next
    /\ \A D \in SUBSET Items : Lifecycle!Expire(D) => Lifecycle!Next
    /\ \A i \in Items, p \in Places : Lifecycle!Rename(i, p) => Lifecycle!Next
    /\ \A i, j \in Items : Lifecycle!RenameOnto(i, j) => Lifecycle!Next
    /\ \A u \in Users, f \in Folders : \A M \in SUBSET Items : Lifecycle!Move(u, M, f) => Lifecycle!Next
    /\ \A u \in Users : \A N \in SUBSET Items :
         (\E src \in [N -> Items], at \in [N -> Places] : Lifecycle!Copy(u, N, src, at)) => Lifecycle!Next
    /\ \A h \in Hashes : Lifecycle!FindThreat(h) \/ Lifecycle!PurgeInfected(h) => Lifecycle!Next
  BY DEF Lifecycle!Next, Lifecycle!Places, Places

\* A request without a transaction has ended: what it sees shows.
LEMMA FinishShows ==
    ASSUME IInv, Alone, NEW t \in Tasks, Finish(t), ~draft[t].open, Drafted(t)
    PROVE  step'[t] = "idle" /\ Shown' = Now(t)'
  <1>1. step'[t] = "idle"
    BY DEF IInv, Typed, Finish, End
  <1> QED
    BY <1>1, ShownLater DEF Drafted

\* What is known while an upload is in progress.
LEMMA UploadBusy ==
    ASSUME Alone, SoleInv, NEW t \in Tasks, req[t].op \in {"upload", "link"}
    PROVE  /\ IInv /\ ~Idle(t) /\ WellFormed(settled) /\ Shown = settled /\ settled \in TypedTables
           /\ UploadFits(step[t], req[t], settled, Now(t))
           /\ ~draft[t].open /\ Files(t) = files /\ Rows(t) = rows
           /\ Now(t) \in TypedTables /\ Now(t) = [files |-> files, rows |-> rows, objects |-> objects]
           /\ req[t] \in Requests /\ req[t].at \in Places /\ req[t].expires \in BOOLEAN
           /\ \A b \in Ids : settled.rows[b] # NoRow => settled.rows[b].count + 1 <= MaxRef
  <1>1. IInv
    BY DEF SoleInv
  <1>2. req[t] \in Requests /\ StepFits(t) /\ (~draft[t].open => Files(t) = files /\ Rows(t) = rows)
    BY <1>1, ReqTyped
  <1>3. ~Idle(t) /\ ~draft[t].open /\ req[t].at \in Places
    BY <1>2 DEF StepFits, Idle, BulkOps
  <1>4. /\ WellFormed(settled) /\ Shown = settled
        /\ Halfway(step[t], req[t], settled, Now(t))
    BY <1>3, BusyFacts
  <1>5. UploadFits(step[t], req[t], settled, Now(t))
    BY <1>4, OpFits
  <1>6. \A b \in Ids : settled.rows[b] # NoRow => settled.rows[b].count + 1 <= MaxRef
    BY <1>5 DEF UploadFits
  <1>7. req[t].expires \in BOOLEAN
    BY <1>2 DEF Requests
  <1> QED
    BY <1>1, <1>2, <1>3, <1>4, <1>5, <1>6, <1>7, NowFacts DEF WellFormed

\* An upload whose content is stored already ...
LEMMA RaiseFits ==
    ASSUME Alone, SoleInv, NEW t \in Tasks, req[t].op \in {"upload", "link"}, Now(t) = settled,
           NEW b \in Ids, rows[b] # NoRow, NEW r, r = [req[t] EXCEPT !.id = b, !.count = rows[b].count + 1],
           Goto(t, "raise", r), ReadOnly
    PROVE  Onward(t)
  <1>1. /\ IInv /\ ~Idle(t) /\ req[t] \in Requests /\ settled.rows = rows
        /\ \A c \in Ids : settled.rows[c] # NoRow => settled.rows[c].count + 1 <= MaxRef
    BY UploadBusy
  <1>2. rows[b].count \in Int
    BY <1>1, ReqTyped DEF StorageRows
  <1>3. r \in Requests /\ r.op = req[t].op /\ r.id = b /\ r.count = rows[b].count + 1
    <2>1. rows[b].count + 1 \in Int /\ b \in Ids \cup {NoId}
      BY <1>2
    <2> DEFINE n == rows[b].count + 1
    <2>2. r \in Requests /\ r.op = req[t].op /\ r.id = b /\ r.count = n
      <3>1. req[t] \in Requests /\ r = [req[t] EXCEPT !.id = b, !.count = n]
        BY <1>1
      <3> HIDE DEF n
      <3>2. n \in Int
        BY <2>1 DEF n
      <3> QED
        BY <2>1, <3>1, <3>2 DEF Requests
    <2>3. r.op = req[t].op /\ r.id = b /\ r.count = rows[b].count + 1
      BY <2>2
    <2> QED
      BY <2>2, <2>3
  <1>4. UploadFits("raise", r, settled, Now(t))
    BY <1>1, <1>3 DEF UploadFits, ReleaseSteps
  <1>5. "raise" \in Steps \ {"idle"}
    BY DEF Steps
  <1> QED
    BY <1>1, <1>3, <1>4, <1>5, ReadsOn DEF Halfway

\* An upload looks for its content.
LEMMA FindContentAdvances ==
    ASSUME Alone, SoleInv, NEW t \in Tasks, FindContent(t)
    PROVE  Onward(t)
  <1>1. step[t] = "find" /\ req[t].op = "upload" /\ IInv
    <2>1. IInv
      BY DEF SoleInv
    <2> QED
      BY <2>1, ReqTyped DEF FindContent, At, StepFits
  <1>2. /\ ~Idle(t) /\ UploadFits(step[t], req[t], settled, Now(t)) /\ req[t] \in Requests
        /\ Now(t) = [files |-> files, rows |-> rows, objects |-> objects]
        /\ \A b \in Ids : settled.rows[b] # NoRow => settled.rows[b].count + 1 <= MaxRef
    BY <1>1, UploadBusy
  <1>3. Now(t) = settled
    BY <1>1, <1>2 DEF UploadFits
  <1>4. ReadOnly
    BY DEF FindContent
  <1>5. CASE \E b \in Holding(req[t].hash) :
               Goto(t, "raise", [req[t] EXCEPT !.id = b, !.count = rows[b].count + 1])
    <2>1. PICK b \in Holding(req[t].hash) :
               Goto(t, "raise", [req[t] EXCEPT !.id = b, !.count = rows[b].count + 1])
      BY <1>5
    <2>2. b \in Ids /\ rows[b] # NoRow
      BY DEF Holding
    <2> QED
      BY <1>1, <1>3, <1>4, <2>1, <2>2, RaiseFits
  <1>6. CASE Holding(req[t].hash) = {} /\ Goto(t, "store", req[t])
    <2>1. ~Stored(settled, req[t].hash)
      BY <1>2, <1>3, <1>6 DEF Stored, Holding
    <2>2. UploadFits("store", req[t], settled, Now(t))
      BY <1>1, <1>2, <1>3, <2>1 DEF UploadFits, ReleaseSteps
    <2>3. "store" \in Steps \ {"idle"}
      BY DEF Steps
    <2> QED
      BY <1>1, <1>2, <1>4, <1>6, <2>2, <2>3, ReadsOn DEF Halfway
  <1> QED
    BY <1>5, <1>6 DEF FindContent

\* A link looks for its row.
LEMMA FindLinkedAdvances ==
    ASSUME Alone, SoleInv, NEW t \in Tasks, FindLinked(t)
    PROVE  Onward(t)
  <1>1. step[t] = "find_linked" /\ req[t].op = "link" /\ req[t].id \in Ids /\ IInv
    <2>1. IInv
      BY DEF SoleInv
    <2> QED
      BY <2>1, ReqTyped DEF FindLinked, At, StepFits
  <1>2. /\ UploadFits(step[t], req[t], settled, Now(t)) /\ req[t] \in Requests
        /\ Now(t) = [files |-> files, rows |-> rows, objects |-> objects]
    BY <1>1, UploadBusy
  <1>3. Now(t) = settled /\ settled.rows[req[t].id] # NoRow
    BY <1>1, <1>2 DEF UploadFits
  <1>4. rows[req[t].id] # NoRow
    BY <1>2, <1>3
  <1>5. Goto(t, "raise", [req[t] EXCEPT !.count = rows[req[t].id].count + 1]) /\ ReadOnly
    BY <1>4 DEF FindLinked
  <1>6. [req[t] EXCEPT !.count = rows[req[t].id].count + 1]
          = [req[t] EXCEPT !.id = req[t].id, !.count = rows[req[t].id].count + 1]
    BY <1>2 DEF Requests
  <1> QED
    BY <1>1, <1>3, <1>4, <1>5, <1>6, RaiseFits

\* The object of a new content is stored.
LEMMA StoreObjectAdvances ==
    ASSUME Alone, SoleInv, NEW t \in Tasks, StoreObject(t)
    PROVE  Onward(t)
  <1>1. step[t] = "store" /\ req[t].op = "upload" /\ IInv
    <2>1. IInv
      BY DEF SoleInv
    <2> QED
      BY <2>1, ReqTyped DEF StoreObject, At, StepFits
  <1>2. /\ UploadFits(step[t], req[t], settled, Now(t)) /\ req[t] \in Requests /\ ~draft[t].open
        /\ Now(t) = [files |-> files, rows |-> rows, objects |-> objects]
        /\ \A b \in Ids : settled.rows[b] # NoRow => settled.rows[b].count + 1 <= MaxRef
        /\ Files(t) = files /\ Rows(t) = rows
    BY <1>1, UploadBusy
  <1>3. Now(t) = settled /\ ~Stored(settled, req[t].hash)
    BY <1>1, <1>2 DEF UploadFits
  <1>4. /\ objects' = objects \cup {<<req[t].hash, req[t].at.name>>}
        /\ Goto(t, "insert_row", req[t]) /\ files' = files /\ rows' = rows /\ draft' = draft
    BY DEF StoreObject
  <1>5. Now(t)' = [files |-> settled.files, rows |-> settled.rows,
                   objects |-> settled.objects \cup {<<req[t].hash, req[t].at.name>>}]
    <2>1. Now(t)' = [files |-> Files(t), rows |-> Rows(t), objects |-> objects']
      BY <1>4 DEF Now, Files, Rows
    <2>2. files = settled.files /\ rows = settled.rows /\ objects = settled.objects
      BY <1>2, <1>3
    <2> QED
      BY <2>1, <2>2, <1>2, <1>4
  <1>6. UploadFits("insert_row", req[t], settled, Now(t)')
    BY <1>1, <1>2, <1>3, <1>5 DEF UploadFits, ReleaseSteps
  <1>7. "insert_row" \in Steps \ {"idle"} /\ ~draft'[t].open
    BY <1>2, <1>4 DEF Steps
  <1> QED
    BY <1>1, <1>2, <1>4, <1>6, <1>7, GoesOn DEF Halfway

\* A content that has been inserted, or counted once more.
LEMMA GainedFile ==
    ASSUME Alone, SoleInv, NEW t \in Tasks, req[t].op \in {"upload", "link"},
           NEW b \in Ids, NEW r \in Requests, r = [req[t] EXCEPT !.id = b], Goto(t, "find_file", r),
           Drafted(t), Now(t)' \in Gains(settled, req[t].at, b)
    PROVE  Onward(t)
  <1>1. /\ IInv /\ ~draft[t].open /\ req[t] \in Requests
        /\ \A c \in Ids : settled.rows[c] # NoRow => settled.rows[c].count + 1 <= MaxRef
    BY UploadBusy
  <1>2. r.op = req[t].op /\ r.at = req[t].at /\ r.id = b
    BY <1>1 DEF Requests
  <1>3. UploadFits("find_file", r, settled, Now(t)')
    BY <1>1, <1>2 DEF UploadFits, ReleaseSteps
  <1>4. "find_file" \in Steps \ {"idle"} /\ ~draft'[t].open
    BY <1>1 DEF Steps, Drafted
  <1> QED
    BY <1>1, <1>3, <1>4, GoesOn DEF Halfway

\* Its row is inserted, as no other request can have inserted one.
LEMMA InsertRowAdvances ==
    ASSUME Alone, SoleInv, NEW t \in Tasks, InsertRow(t)
    PROVE  Onward(t)
  <1>1. step[t] = "insert_row" /\ req[t].op = "upload" /\ req[t].hash \in Hashes /\ IInv
    <2>1. IInv
      BY DEF SoleInv
    <2> QED
      BY <2>1, ReqTyped DEF InsertRow, At, StepFits
  <1>2. /\ UploadFits(step[t], req[t], settled, Now(t)) /\ req[t] \in Requests /\ ~draft[t].open
        /\ Now(t) = [files |-> files, rows |-> rows, objects |-> objects]
        /\ Files(t) = files /\ Rows(t) = rows /\ req[t].at \in Places
    BY <1>1, UploadBusy
  <1>3. /\ Now(t) = [files |-> settled.files, rows |-> settled.rows,
                     objects |-> settled.objects \cup {<<req[t].hash, req[t].at.name>>}]
        /\ ~Stored(settled, req[t].hash)
    BY <1>1, <1>2 DEF UploadFits
  <1>4. /\ files = settled.files /\ rows = settled.rows
        /\ objects = settled.objects \cup {<<req[t].hash, req[t].at.name>>}
    BY <1>2, <1>3
  <1>5. Holding(req[t].hash) = {}
    BY <1>3, <1>4 DEF Stored, Holding
  <1> DEFINE row == [hash |-> req[t].hash, count |-> 1, name |-> req[t].at.name, infected |-> FALSE]
  <1>6. PICK b \in Ids : /\ rows[b] = NoRow /\ WriteRow(t, b, row)
                         /\ Goto(t, "find_file", [req[t] EXCEPT !.id = b])
    BY <1>5 DEF InsertRow
  <1>7. objects' = objects
    BY DEF InsertRow
  <1>8. row \in StorageRows
    BY <1>1, <1>2 DEF StorageRows, Places
  <1> HIDE DEF row
  <1>9. Drafted(t) /\ Now(t)' = [files |-> Files(t), rows |-> [Rows(t) EXCEPT ![b] = row], objects |-> objects]
    BY <1>1, <1>6, <1>7, <1>8, RowWritten DEF Drafted
  <1>10. Now(t)' = [files |-> settled.files, rows |-> [settled.rows EXCEPT ![b] = row],
                    objects |-> settled.objects \cup {<<req[t].hash, req[t].at.name>>}]
    BY <1>2, <1>4, <1>9
  <1>11. Now(t)' \in Gains(settled, req[t].at, b)
    <2>1. settled.rows[b] = NoRow
      BY <1>4, <1>6
    <2>2. req[t].hash \in {g \in Hashes : ~Stored(settled, g)}
      BY <1>1, <1>3
    <2> QED
      BY <1>10, <2>1, <2>2 DEF Gains, row
  <1>12. [req[t] EXCEPT !.id = b] \in Requests
    BY <1>2 DEF Requests
  <1> QED
    BY <1>1, <1>6, <1>9, <1>11, <1>12, GainedFile

\* So no request looks for its content again.
LEMMA RefindNever ==
    ASSUME Alone, SoleInv, NEW t \in Tasks
    PROVE  ~Refind(t)
  <1> SUFFICES ASSUME Refind(t) PROVE FALSE
    OBVIOUS
  <1>1. step[t] = "refind" /\ req[t].op = "upload"
    <2>1. IInv
      BY DEF SoleInv
    <2> QED
      BY <2>1, ReqTyped DEF Refind, At, StepFits
  <1>2. UploadFits(step[t], req[t], settled, Now(t))
    BY <1>1, UploadBusy
  <1> QED
    BY <1>1, <1>2 DEF UploadFits, ReleaseSteps

\* The count of a content that was found is raised.
LEMMA RaiseUpload ==
    ASSUME Alone, SoleInv, NEW t \in Tasks, Raise(t), req[t].op \in {"upload", "link"}
    PROVE  Onward(t)
  <1> DEFINE b == req[t].id
  <1>1. step[t] = "raise" /\ b \in Ids /\ IInv
    <2>1. IInv
      BY DEF SoleInv
    <2> QED
      BY <2>1, ReqTyped DEF Raise, At, StepFits
  <1>2. /\ UploadFits(step[t], req[t], settled, Now(t)) /\ req[t] \in Requests /\ ~draft[t].open
        /\ Now(t) = [files |-> files, rows |-> rows, objects |-> objects]
        /\ Files(t) = files /\ Rows(t) = rows /\ settled \in TypedTables
    BY UploadBusy
  <1>3. Now(t) = settled /\ settled.rows[b] # NoRow /\ req[t].count = settled.rows[b].count + 1
    BY <1>1, <1>2 DEF UploadFits
  <1>4. files = settled.files /\ rows = settled.rows /\ objects = settled.objects
    BY <1>2, <1>3
  <1> DEFINE row == WithCount(settled.rows[b], settled.rows[b].count + 1)
  <1>5. settled.rows[b] \in StorageRows /\ row \in StorageRows
    <2>1. settled.rows[b] \in StorageRows /\ settled.rows[b].count + 1 \in Int
      BY <1>1, <1>2, <1>3, TableFacts
    <2> QED
      BY <2>1, RowCounted
  <1>6. row = [Rows(t)[b] EXCEPT !.count = req[t].count]
    BY <1>2, <1>3, <1>4 DEF WithCount
  <1>7. WriteRow(t, b, row) /\ objects' = objects /\ Goto(t, "find_file", req[t])
    <2>1. Rows(t)[b] # NoRow /\ req[t].op # "bulk_copy"
      BY <1>2, <1>3, <1>4
    <2> QED
      BY <2>1, <1>6 DEF Raise
  <1> HIDE DEF row
  <1>8. Drafted(t) /\ Now(t)' = [files |-> Files(t), rows |-> [Rows(t) EXCEPT ![b] = row], objects |-> objects]
    BY <1>1, <1>5, <1>7, RowWritten DEF Drafted
  <1>9. Now(t)' = [files |-> settled.files, rows |-> [settled.rows EXCEPT ![b] = row], objects |-> settled.objects]
    BY <1>2, <1>4, <1>8
  <1>10. Now(t)' \in Gains(settled, req[t].at, b)
    BY <1>3, <1>9 DEF Gains, row
  <1>11. req[t] = [req[t] EXCEPT !.id = b]
    BY <1>2 DEF Requests
  <1> QED
    BY <1>1, <1>2, <1>7, <1>8, <1>10, <1>11, GainedFile

\* An upload looks for the live file at its place.
LEMMA FindFileAdvances ==
    ASSUME Alone, SoleInv, NEW t \in Tasks, FindFile(t)
    PROVE  Onward(t)
  <1>1. step[t] = "find_file" /\ req[t].op \in {"upload", "link"} /\ req[t].id \in Ids /\ IInv
    <2>1. IInv
      BY DEF SoleInv
    <2> QED
      BY <2>1, ReqTyped DEF FindFile, At, StepFits
  <1>2. /\ UploadFits(step[t], req[t], settled, Now(t)) /\ req[t] \in Requests /\ ~Idle(t)
        /\ Now(t) = [files |-> files, rows |-> rows, objects |-> objects] /\ req[t].at \in Places
        /\ \A b \in Ids : settled.rows[b] # NoRow => settled.rows[b].count + 1 <= MaxRef
        /\ WellFormed(settled) /\ settled \in TypedTables
    BY <1>1, UploadBusy
  <1>3. Now(t) \in Gains(settled, req[t].at, req[t].id)
    BY <1>1, <1>2 DEF UploadFits
  <1>4. files = settled.files
    <2>1. Now(t).files = settled.files
      BY <1>1, <1>2, <1>3, GainsFacts
    <2> QED
      BY <2>1, <1>2
  <1>5. LiveAt(req[t].at) = LiveIn(settled, req[t].at)
    BY <1>4 DEF LiveAt, LiveIn
  <1>6. ReadOnly
    BY DEF FindFile
  <1>7. CASE \E i \in LiveAt(req[t].at) :
               Goto(t, "update_file", [req[t] EXCEPT !.target = i, !.old = files[i].blob])
    <2>1. PICK i \in LiveAt(req[t].at) :
               Goto(t, "update_file", [req[t] EXCEPT !.target = i, !.old = files[i].blob])
      BY <1>7
    <2> DEFINE r == [req[t] EXCEPT !.target = i, !.old = files[i].blob]
    <2>2. i \in Items /\ files[i] # NoFile /\ i \in LiveIn(settled, req[t].at)
      BY <1>5 DEF LiveAt, Live
    <2>3. files[i].blob \in Ids \cup {NoId} /\ files[i].blob = settled.files[i].blob
      BY <1>2, <1>4, <2>2, TableFacts
    <2>4. r \in Requests
      BY <1>2, <2>2, <2>3 DEF Requests
    <2>5. r.op = req[t].op /\ r.id = req[t].id /\ r.at = req[t].at /\ r.target = i /\ r.old = settled.files[i].blob
      BY <1>2, <2>3 DEF Requests
    <2>6. Goto(t, "update_file", r)
      BY <2>1
    <2> HIDE DEF r
    <2>7. UploadFits("update_file", r, settled, Now(t))
      BY <1>1, <1>2, <1>3, <2>2, <2>5 DEF UploadFits, ReleaseSteps
    <2>8. "update_file" \in Steps \ {"idle"}
      BY DEF Steps
    <2> QED
      BY <1>2, <1>6, <2>4, <2>6, <2>7, <2>8, ReadsOn DEF Halfway
  <1>8. CASE LiveAt(req[t].at) = {} /\ Goto(t, "insert_file", req[t])
    <2>1. UploadFits("insert_file", req[t], settled, Now(t))
      BY <1>1, <1>2, <1>3, <1>5, <1>8 DEF UploadFits, ReleaseSteps
    <2>2. "insert_file" \in Steps \ {"idle"}
      BY DEF Steps
    <2> QED
      BY <1>2, <1>6, <1>8, <2>1, <2>2, ReadsOn DEF Halfway
  <1> QED
    BY <1>7, <1>8 DEF FindFile

\* An upload ends with its content at a file that was there.
LEMMA UpdateEnds ==
    ASSUME Alone, SoleInv, NEW t \in Tasks, req[t].op \in {"upload", "link"}, step'[t] = "idle",
           NEW c \in Ids, NEW W, W \in Gains(settled, req[t].at, c), NEW i \in LiveIn(settled, req[t].at),
           Shown' = AfterRelease(settled, Attached(W, i, c, req[t].expires), {j \in {i} : settled.files[j].blob # c})
    PROVE  Ended(t)
  <1>1. /\ WellFormed(settled) /\ Shown = settled /\ req[t].at \in Places /\ req[t].expires \in BOOLEAN
        /\ \A b \in Ids : settled.rows[b] # NoRow => settled.rows[b].count + 1 <= MaxRef
    BY UploadBusy
  <1>2. W.rows[c].hash \in Hashes
    BY <1>1, GainsFacts
  <1>3. \/ Lifecycle!UploadKnown(req[t].at, W.rows[c].hash, req[t].expires)
        \/ Lifecycle!UploadNew(req[t].at, W.rows[c].hash, req[t].expires)
    BY <1>1, UpdateShown
  <1>4. Lifecycle!Next
    BY <1>1, <1>2, <1>3, LifecycleSteps
  <1> QED
    BY <1>4 DEF Ended

\* It gives that file its content.
LEMMA UpdateFileAdvances ==
    ASSUME Alone, SoleInv, NEW t \in Tasks, UpdateFile(t)
    PROVE  Onward(t) \/ Ended(t)
  <1> DEFINE i == req[t].target
             c == req[t].id
             W == Now(t)
             A == Attached(W, i, c, req[t].expires)
             D == {j \in {i} : settled.files[j].blob # c}
  <1>1. step[t] = "update_file" /\ req[t].op \in {"upload", "link"} /\ c \in Ids /\ IInv
    <2>1. IInv
      BY DEF SoleInv
    <2> QED
      BY <2>1, ReqTyped DEF UpdateFile, At, StepFits
  <1>2. /\ UploadFits(step[t], req[t], settled, Now(t)) /\ req[t] \in Requests /\ ~Idle(t)
        /\ W = [files |-> files, rows |-> rows, objects |-> objects] /\ req[t].at \in Places
        /\ \A b \in Ids : settled.rows[b] # NoRow => settled.rows[b].count + 1 <= MaxRef
        /\ WellFormed(settled) /\ settled \in TypedTables /\ ~draft[t].open /\ W \in TypedTables
        /\ Files(t) = files /\ Rows(t) = rows /\ req[t].expires \in BOOLEAN /\ Shown = settled
    BY <1>1, UploadBusy
  <1>3. W \in Gains(settled, req[t].at, c) /\ i \in LiveIn(settled, req[t].at) /\ req[t].old = settled.files[i].blob
    BY <1>1, <1>2 DEF UploadFits
  <1>4. W.files = settled.files /\ W.rows[c] # NoRow /\ Extends(settled, W)
    BY <1>1, <1>2, <1>3, GainsFacts
  <1>5. files = settled.files /\ files = W.files /\ rows = W.rows /\ objects = W.objects
    BY <1>2, <1>4
  <1>6. i \in Items /\ files[i] # NoFile /\ files[i] \in FileRows
    BY <1>2, <1>3, <1>5, TableFacts DEF LiveIn, Live
  <1>7. MayRefer(t, c)
    BY <1>1, <1>2, <1>4, <1>5 DEF MayRefer
  <1>8. /\ WriteFile(t, i, [files[i] EXCEPT !.blob = c, !.expires = req[t].expires]) /\ objects' = objects
        /\ ReleaseOld(t)
    BY <1>6, <1>7 DEF UpdateFile
  <1>9. [files[i] EXCEPT !.blob = c, !.expires = req[t].expires] = Uploaded(W.files[i], c, req[t].expires)
    BY <1>5 DEF Uploaded
  <1>10. Uploaded(W.files[i], c, req[t].expires) \in FileRows
    BY <1>1, <1>2, <1>5, <1>6, UploadedFacts
  <1>11. /\ Now(t)' = [files |-> [Files(t) EXCEPT ![i] = Uploaded(W.files[i], c, req[t].expires)],
                      rows |-> Rows(t), objects |-> objects]
         /\ Drafted(t) /\ Now(t)' \in TypedTables
    BY <1>1, <1>6, <1>8, <1>9, <1>10, FileWritten DEF Drafted
  <1>12. Now(t)' = A
    BY <1>2, <1>5, <1>11 DEF Attached
  <1>13. A \in TypedTables
    BY <1>11, <1>12
  <1>14. req[t].old \in Ids \cup {NoId}
    BY <1>2 DEF Requests
  <1>15. D \in SUBSET Items
    BY <1>6
  <1>16. CASE req[t].old \notin {NoId, c}
    <2> DEFINE r == [req[t] EXCEPT !.id = req[t].old]
    <2>1. Goto(t, "read_count", r)
      BY <1>8, <1>16 DEF ReleaseOld
    <2>2. r \in Requests
      BY <1>2, <1>14 DEF Requests
    <2>3. /\ r.op = req[t].op /\ r.id = req[t].old /\ r.at = req[t].at /\ r.target = i
          /\ r.expires = req[t].expires
      BY <1>2 DEF Requests
    <2> HIDE DEF r
    <2>4. W.rows[req[t].old] # NoRow /\ req[t].old \in Ids
      <3>1. req[t].old \in Ids
        BY <1>14, <1>16
      <3>2. settled.rows[req[t].old] # NoRow
        BY <1>2, <1>3, <1>5, <1>6, <1>16 DEF WellFormed
      <3> QED
        BY <1>4, <3>1, <3>2 DEF Extends
    <2>5. A.rows = W.rows
      BY DEF Attached
    <2>6. Releasing("read_count", r, A, Now(t)')
      BY <1>12, <2>3, <2>4, <2>5 DEF Releasing, ReleaseSteps
    <2> HIDE DEF A, W
    <2>7. Releasing("read_count", r, Attached(W, r.target, c, r.expires), Now(t)')
      BY <2>6, <2>3 DEF A
    <2>8. UploadFits("read_count", r, settled, Now(t)')
      BY <1>1, <1>2, <1>3, <1>16, <2>3, <2>7 DEF UploadFits, ReleaseSteps
    <2>9. "read_count" \in Steps \ {"idle"} /\ ~draft'[t].open
      BY <1>2, <1>11 DEF Steps, Drafted
    <2> QED
      BY <1>1, <2>1, <2>2, <2>8, <2>9, GoesOn DEF Halfway
  <1>17. CASE req[t].old \in {NoId, c}
    <2>1. Finish(t)
      BY <1>8, <1>17 DEF ReleaseOld
    <2> HIDE DEF A, W
    <2>2. step'[t] = "idle" /\ Shown' = A
      BY <1>1, <1>2, <1>11, <1>12, <2>1, FinishShows
    <2>3. AfterRelease(settled, A, {}) = A
      BY <1>13, AfterNone
    <2>4. AfterRelease(settled, A, D) = A
      <3>1. CASE req[t].old = c
        <4>1. D = {}
          BY <3>1, <1>3
        <4> QED
          BY <4>1, <2>3
      <3>2. CASE req[t].old = NoId
        <4>1. settled.files[i].blob = NoId /\ NoId # c
          BY <3>2, <1>1, <1>3, NullAssumption
        <4>2. D = {} \cup {i} /\ i \in Items \ {}
          BY <4>1, <1>6
        <4> HIDE DEF D
        <4>3. AfterRelease(settled, A, {} \cup {i}) = AfterRelease(settled, A, {})
          BY <4>1, <4>2, ReleaseNothing
        <4> QED
          BY <4>2, <4>3, <2>3
      <3> QED
        BY <3>1, <3>2, <1>17
    <2>5. Shown' = AfterRelease(settled, A, D)
      BY <2>2, <2>4
    <2> QED
      BY <1>1, <1>3, <2>2, <2>5, UpdateEnds DEF A
  <1> QED
    BY <1>16, <1>17

\* Or it inserts a file.
LEMMA InsertFileAdvances ==
    ASSUME Alone, SoleInv, NEW t \in Tasks, InsertFile(t)
    PROVE  Ended(t)
  <1> DEFINE c == req[t].id
             W == Now(t)
             file == [at |-> req[t].at, blob |-> c, live |-> TRUE, expires |-> req[t].expires]
  <1>1. step[t] = "insert_file" /\ req[t].op \in {"upload", "link"} /\ c \in Ids /\ IInv
    <2>1. IInv
      BY DEF SoleInv
    <2> QED
      BY <2>1, ReqTyped DEF InsertFile, At, StepFits
  <1>2. /\ UploadFits(step[t], req[t], settled, Now(t)) /\ req[t] \in Requests /\ ~Idle(t)
        /\ W = [files |-> files, rows |-> rows, objects |-> objects] /\ req[t].at \in Places
        /\ \A b \in Ids : settled.rows[b] # NoRow => settled.rows[b].count + 1 <= MaxRef
        /\ WellFormed(settled) /\ settled \in TypedTables /\ ~draft[t].open /\ W \in TypedTables
        /\ Files(t) = files /\ Rows(t) = rows /\ req[t].expires \in BOOLEAN /\ Shown = settled
    BY <1>1, UploadBusy
  <1>3. W \in Gains(settled, req[t].at, c) /\ LiveIn(settled, req[t].at) = {}
    BY <1>1, <1>2 DEF UploadFits
  <1>4. W.files = settled.files /\ W.rows[c] # NoRow /\ W.rows[c].hash \in Hashes
    BY <1>1, <1>2, <1>3, GainsFacts
  <1>5. files = settled.files /\ files = W.files /\ rows = W.rows /\ objects = W.objects
    BY <1>2, <1>4
  <1>6. MayRefer(t, c)
    BY <1>1, <1>2, <1>4, <1>5 DEF MayRefer
  <1>7. PICK i \in Items : FreshItem(i) /\ WriteFile(t, i, file)
    BY <1>6 DEF InsertFile
  <1>8. Finish(t) /\ objects' = objects
    BY <1>6 DEF InsertFile
  <1>9. settled.files[i] = NoFile
    BY <1>5, <1>7 DEF FreshItem
  <1>10. file \in FileRows
    BY <1>1, <1>2 DEF FileRows
  <1> HIDE DEF file
  <1>11. /\ Now(t)' = [files |-> [Files(t) EXCEPT ![i] = file], rows |-> Rows(t), objects |-> objects]
         /\ Drafted(t)
    BY <1>1, <1>7, <1>8, <1>10, FileWritten DEF Drafted
  <1>12. step'[t] = "idle" /\ Shown' = Now(t)'
    BY <1>1, <1>2, <1>8, <1>11, FinishShows
  <1>13. Shown' = [files |-> [W.files EXCEPT ![i] = file], rows |-> W.rows, objects |-> W.objects]
    BY <1>2, <1>5, <1>11, <1>12
  <1> HIDE DEF W
  <1>14. \/ Lifecycle!UploadKnown(req[t].at, W.rows[c].hash, req[t].expires)
         \/ Lifecycle!UploadNew(req[t].at, W.rows[c].hash, req[t].expires)
    BY <1>1, <1>2, <1>3, <1>9, <1>13, InsertShown DEF file
  <1>15. Lifecycle!Next
    BY <1>2, <1>4, <1>14, LifecycleSteps
  <1> QED
    BY <1>12, <1>15 DEF Ended

\* The content that the file had is released.
LEMMA AttachedTyped ==
    ASSUME NEW S, WellFormed(S), NEW p \in Places, NEW c \in Ids, NEW W, W \in Gains(S, p, c),
           \A b \in Ids : S.rows[b] # NoRow => S.rows[b].count + 1 <= MaxRef, NEW e \in BOOLEAN,
           NEW i \in LiveIn(S, p)
    PROVE  Attached(W, i, c, e) \in TypedTables
  <1>1. W \in TypedTables /\ W.files = S.files
    BY GainsFacts
  <1>2. W.files \in [Items -> FileRows \cup {NoFile}]
    BY <1>1, TableFacts
  <1>3. i \in Items /\ W.files[i] \in FileRows
    BY <1>1, <1>2 DEF LiveIn, Live
  <1>4. Uploaded(W.files[i], c, e) \in FileRows
    BY <1>3, UploadedFacts
  <1>5. [W.files EXCEPT ![i] = Uploaded(W.files[i], c, e)] \in [Items -> FileRows \cup {NoFile}]
    BY <1>2, <1>3, <1>4
  <1>6. W.rows \in [Ids -> StorageRows \cup {NoRow}] /\ W.objects \in SUBSET Keys
    BY <1>1, TableFacts
  <1> QED
    BY <1>5, <1>6 DEF Attached, TypedTables

\* The first content that a request releases.
LEMMA FirstRelease ==
    ASSUME NEW S, NEW P \in TypedTables, NEW i \in Items, NEW b \in Ids, S.files[i].blob = b,
           P.rows[b] # NoRow
    PROVE  Unref(P, b) = AfterRelease(S, P, {i})
  <1>1. AfterRelease(S, P, {}) = P
    BY AfterNone
  <1>2. {} \in SUBSET Items /\ i \in Items \ {} /\ {} \cup {i} = {i}
    OBVIOUS
  <1>3. Unref(AfterRelease(S, P, {}), b) = AfterRelease(S, P, {} \cup {i})
    BY <1>1, <1>2, ReleaseOne
  <1> QED
    BY <1>1, <1>2, <1>3

\* The old content of an uploaded file is released.
LEMMA UploadReleases ==
    ASSUME Alone, SoleInv, NEW t \in Tasks, req[t].op \in {"upload", "link"}, step[t] \in ReleaseSteps,
           ReadCount(t) \/ Lower(t) \/ DeleteObject(t) \/ DeleteRow(t)
    PROVE  Onward(t) \/ Ended(t)
  <1> DEFINE i == req[t].target
             b == req[t].id
  <1>1. /\ UploadFits(step[t], req[t], settled, Now(t)) /\ req[t] \in Requests /\ IInv
        /\ WellFormed(settled) /\ ~draft[t].open /\ req[t].at \in Places /\ req[t].expires \in BOOLEAN
        /\ \A c \in Ids : settled.rows[c] # NoRow => settled.rows[c].count + 1 <= MaxRef
    BY UploadBusy
  <1>2. \E c \in Ids : \E W \in Gains(settled, req[t].at, c) :
          /\ i \in LiveIn(settled, req[t].at) /\ settled.files[i].blob = b /\ b # c
          /\ Releasing(step[t], req[t], Attached(W, i, c, req[t].expires), Now(t))
    BY <1>1 DEF UploadFits
  <1>3. PICK c \in Ids : \E W \in Gains(settled, req[t].at, c) :
          /\ i \in LiveIn(settled, req[t].at) /\ settled.files[i].blob = b /\ b # c
          /\ Releasing(step[t], req[t], Attached(W, i, c, req[t].expires), Now(t))
    BY <1>2
  <1>8. PICK W \in Gains(settled, req[t].at, c) :
          /\ i \in LiveIn(settled, req[t].at) /\ settled.files[i].blob = b /\ b # c
          /\ Releasing(step[t], req[t], Attached(W, i, c, req[t].expires), Now(t))
    BY <1>3
  <1> DEFINE P == Attached(W, i, c, req[t].expires)
  <1>4. P \in TypedTables
    BY <1>1, <1>8, AttachedTyped
  <1>5. (ReleaseOn(t, P) \/ ReleaseOver(t, P)) /\ Drafted(t)
    BY <1>1, <1>8, <1>4, Releases
  <1>6. CASE ReleaseOn(t, P)
    <2>1. PICK s \in ReleaseSteps, r \in Requests :
             Goto(t, s, r) /\ SameDuty(r, req[t]) /\ Releasing(s, r, P, Now(t)')
      BY <1>6 DEF ReleaseOn
    <2>2. /\ r.op = req[t].op /\ r.id = b /\ r.at = req[t].at /\ r.target = i
          /\ r.expires = req[t].expires
      BY <2>1 DEF SameDuty
    <2>3. Releasing(s, r, Attached(W, r.target, c, r.expires), Now(t)')
      BY <2>1, <2>2
    <2>4. \E a \in Ids : \E V \in Gains(settled, r.at, a) :
            /\ r.target \in LiveIn(settled, r.at) /\ settled.files[r.target].blob = r.id /\ r.id # a
            /\ Releasing(s, r, Attached(V, r.target, a, r.expires), Now(t)')
      BY <1>8, <2>2, <2>3
    <2>5. UploadFits(s, r, settled, Now(t)')
      BY <1>1, <2>2, <2>4 DEF UploadFits, ReleaseSteps
    <2>6. s \in Steps \ {"idle"} /\ ~draft'[t].open
      BY <1>1, <1>5 DEF Steps, ReleaseSteps, Drafted
    <2> QED
      BY <1>1, <2>1, <2>5, <2>6, GoesOn DEF Halfway
  <1>7. CASE ReleaseOver(t, P)
    <2>1. Finish(t) /\ Now(t)' = Unref(P, b)
      BY <1>7 DEF ReleaseOver, Released, LoopOps, BulkOps
    <2>2. step'[t] = "idle" /\ Shown' = Now(t)'
      BY <1>1, <1>5, <2>1, FinishShows
    <2>3. b \in Ids /\ P.rows[b] # NoRow
      BY <1>8 DEF Releasing
    <2>4. i \in Items
      BY <1>8 DEF LiveIn
    <2> HIDE DEF P
    <2>5. Shown' = AfterRelease(settled, P, {i})
      BY <1>8, <1>4, <2>1, <2>2, <2>3, <2>4, FirstRelease
    <2>6. {j \in {i} : settled.files[j].blob # c} = {i}
      BY <1>8
    <2>7. Shown' = AfterRelease(settled, Attached(W, i, c, req[t].expires), {j \in {i} : settled.files[j].blob # c})
      BY <2>5, <2>6 DEF P
    <2> QED
      BY <1>8, <2>2, <2>7, UpdateEnds
  <1> QED
    BY <1>5, <1>6, <1>7

-----------------------------------------------------------------------------
(***************************************************************************)
(* Renames.                                                                *)
(***************************************************************************)
LEMMA RenameBusy ==
    ASSUME Alone, SoleInv, NEW t \in Tasks, req[t].op = "rename"
    PROVE  /\ IInv /\ ~Idle(t) /\ WellFormed(settled) /\ Shown = settled /\ settled \in TypedTables
           /\ RenameFits(step[t], req[t], settled, Now(t))
           /\ ~draft[t].open /\ Files(t) = files /\ Rows(t) = rows
           /\ Now(t) \in TypedTables /\ Now(t) = [files |-> files, rows |-> rows, objects |-> objects]
           /\ req[t] \in Requests /\ req[t].at \in Places
           /\ req[t].item \in Items /\ Live(settled.files, req[t].item)
           /\ settled.files[req[t].item] \in FileRows
           /\ req[t].at.user = settled.files[req[t].item].at.user
  <1>1. IInv
    BY DEF SoleInv
  <1>2. req[t] \in Requests /\ StepFits(t) /\ (~draft[t].open => Files(t) = files /\ Rows(t) = rows)
    BY <1>1, ReqTyped
  <1>3. ~Idle(t) /\ ~draft[t].open /\ req[t].at \in Places
    BY <1>2 DEF StepFits, Idle, BulkOps
  <1>4. /\ WellFormed(settled) /\ Shown = settled
        /\ Halfway(step[t], req[t], settled, Now(t))
    BY <1>3, BusyFacts
  <1>5. RenameFits(step[t], req[t], settled, Now(t))
    BY <1>4, OpFits
  <1>6. /\ req[t].item \in Items /\ Live(settled.files, req[t].item)
        /\ req[t].at.user = settled.files[req[t].item].at.user
    BY <1>5 DEF RenameFits
  <1>7. settled.files[req[t].item] \in FileRows
    BY <1>4, <1>6, TableFacts DEF WellFormed, Live
  <1> QED
    BY <1>1, <1>2, <1>3, <1>4, <1>5, <1>6, <1>7, NowFacts DEF WellFormed

\* A rename looks for the file at its target.
LEMMA FindTargetAdvances ==
    ASSUME Alone, SoleInv, NEW t \in Tasks, FindTarget(t)
    PROVE  Onward(t)
  <1>1. step[t] = "find_target" /\ req[t].op = "rename" /\ IInv
    <2>1. IInv
      BY DEF SoleInv
    <2> QED
      BY <2>1, ReqTyped DEF FindTarget, At, StepFits
  <1>2. /\ RenameFits(step[t], req[t], settled, Now(t)) /\ req[t] \in Requests /\ ~Idle(t)
        /\ Now(t) = [files |-> files, rows |-> rows, objects |-> objects] /\ settled \in TypedTables
        /\ req[t].item \in Items /\ Live(settled.files, req[t].item)
        /\ req[t].at.user = settled.files[req[t].item].at.user
    BY <1>1, RenameBusy
  <1>3. Now(t) = settled /\ req[t].id = settled.files[req[t].item].blob
    BY <1>1, <1>2 DEF RenameFits, ReleaseSteps
  <1>4. files = settled.files
    BY <1>2, <1>3
  <1>5. LiveAt(req[t].at) = LiveIn(settled, req[t].at)
    BY <1>4 DEF LiveAt, LiveIn
  <1>6. ReadOnly
    BY DEF FindTarget
  <1>7. CASE \E j \in LiveAt(req[t].at) \ {req[t].item} :
               Goto(t, "merge", [req[t] EXCEPT !.target = j, !.old = files[j].blob])
    <2>1. PICK j \in LiveAt(req[t].at) \ {req[t].item} :
               Goto(t, "merge", [req[t] EXCEPT !.target = j, !.old = files[j].blob])
      BY <1>7
    <2> DEFINE r == [req[t] EXCEPT !.target = j, !.old = files[j].blob]
    <2>2. j \in Items /\ files[j] # NoFile /\ j \in LiveIn(settled, req[t].at) \ {req[t].item}
      BY <1>5 DEF LiveAt, Live
    <2>3. files[j].blob \in Ids \cup {NoId} /\ files[j].blob = settled.files[j].blob
      BY <1>2, <1>4, <2>2, TableFacts
    <2>4. r \in Requests
      BY <1>2, <2>2, <2>3 DEF Requests
    <2>5. /\ r.op = req[t].op /\ r.id = req[t].id /\ r.at = req[t].at /\ r.target = j
          /\ r.old = settled.files[j].blob /\ r.item = req[t].item
      BY <1>2, <2>3 DEF Requests
    <2>6. Goto(t, "merge", r)
      BY <2>1
    <2> HIDE DEF r
    <2>7. RenameFits("merge", r, settled, Now(t))
      BY <1>1, <1>2, <1>3, <2>2, <2>5 DEF RenameFits, ReleaseSteps
    <2>8. "merge" \in Steps \ {"idle"}
      BY DEF Steps
    <2> QED
      BY <1>2, <1>6, <2>4, <2>6, <2>7, <2>8, ReadsOn DEF Halfway
  <1>8. CASE LiveAt(req[t].at) \ {req[t].item} = {} /\ Goto(t, "rename_file", req[t])
    <2>1. RenameFits("rename_file", req[t], settled, Now(t))
      BY <1>1, <1>2, <1>3, <1>5, <1>8 DEF RenameFits, ReleaseSteps
    <2>2. "rename_file" \in Steps \ {"idle"}
      BY DEF Steps
    <2> QED
      BY <1>2, <1>6, <1>8, <2>1, <2>2, ReadsOn DEF Halfway
  <1> QED
    BY <1>7, <1>8 DEF FindTarget

\* That file takes the content of the renamed one.
LEMMA MergeIntoAdvances ==
    ASSUME Alone, SoleInv, NEW t \in Tasks, MergeInto(t)
    PROVE  Onward(t)
  <1> DEFINE i == req[t].item
             j == req[t].target
             file == WithBlob(settled.files[j], req[t].id)
  <1>1. step[t] = "merge" /\ req[t].op = "rename" /\ IInv
    <2>1. IInv
      BY DEF SoleInv
    <2> QED
      BY <2>1, ReqTyped DEF MergeInto, At, StepFits
  <1>2. /\ RenameFits(step[t], req[t], settled, Now(t)) /\ req[t] \in Requests /\ ~draft[t].open
        /\ Now(t) = [files |-> files, rows |-> rows, objects |-> objects] /\ settled \in TypedTables
        /\ i \in Items /\ Live(settled.files, i) /\ settled.files[i] \in FileRows
        /\ req[t].at.user = settled.files[i].at.user /\ WellFormed(settled)
        /\ Files(t) = files /\ Rows(t) = rows
    BY <1>1, RenameBusy
  <1>3. /\ Now(t) = settled /\ req[t].id = settled.files[i].blob
        /\ j \in LiveIn(settled, req[t].at) \ {i} /\ req[t].old = settled.files[j].blob
    BY <1>1, <1>2 DEF RenameFits, ReleaseSteps
  <1>4. files = settled.files /\ rows = settled.rows /\ objects = settled.objects
    BY <1>2, <1>3
  <1>5. j \in Items /\ files[j] # NoFile /\ settled.files[j] \in FileRows
    BY <1>2, <1>3, <1>4, TableFacts DEF LiveIn, Live
  <1>6. req[t].id \in Ids \cup {NoId}
    BY <1>2 DEF Requests
  <1>7. MayRefer(t, req[t].id)
    <2>1. req[t].id # NoId => rows[req[t].id] # NoRow
      BY <1>2, <1>3, <1>4 DEF WellFormed, Live
    <2> QED
      BY <1>2, <1>6, <2>1 DEF MayRefer
  <1>8. WriteFile(t, j, [files[j] EXCEPT !.blob = req[t].id]) /\ Goto(t, "retire", req[t]) /\ objects' = objects
    BY <1>5, <1>7 DEF MergeInto
  <1>9. [files[j] EXCEPT !.blob = req[t].id] = file /\ file \in FileRows
    BY <1>4, <1>5, <1>6, FileRelinked DEF WithBlob
  <1> HIDE DEF file
  <1>10. /\ Now(t)' = [files |-> [Files(t) EXCEPT ![j] = file], rows |-> Rows(t), objects |-> objects]
         /\ Drafted(t)
    BY <1>1, <1>5, <1>8, <1>9, FileWritten DEF Drafted
  <1>11. Now(t)' = [files |-> [settled.files EXCEPT ![j] = WithBlob(settled.files[j], req[t].id)],
                    rows |-> settled.rows, objects |-> settled.objects]
    BY <1>2, <1>4, <1>10 DEF file
  <1>12. RenameFits("retire", req[t], settled, Now(t)')
    BY <1>1, <1>2, <1>3, <1>11 DEF RenameFits, ReleaseSteps
  <1>13. "retire" \in Steps \ {"idle"} /\ ~draft'[t].open
    BY <1>2, <1>10 DEF Steps, Drafted
  <1> QED
    BY <1>1, <1>2, <1>8, <1>12, <1>13, GoesOn DEF Halfway

\* Or the file is renamed.
LEMMA RenameFileAdvances ==
    ASSUME Alone, SoleInv, NEW t \in Tasks, RenameFile(t)
    PROVE  Ended(t)
  <1> DEFINE i == req[t].item
             p == req[t].at
             file == Placed(settled.files[i], p)
  <1>1. step[t] = "rename_file" /\ req[t].op = "rename" /\ IInv
    <2>1. IInv
      BY DEF SoleInv
    <2> QED
      BY <2>1, ReqTyped DEF RenameFile, At, StepFits
  <1>2. /\ RenameFits(step[t], req[t], settled, Now(t)) /\ req[t] \in Requests /\ ~draft[t].open
        /\ Now(t) = [files |-> files, rows |-> rows, objects |-> objects] /\ settled \in TypedTables
        /\ i \in Items /\ Live(settled.files, i) /\ settled.files[i] \in FileRows
        /\ p.user = settled.files[i].at.user /\ WellFormed(settled) /\ p \in Places
        /\ Files(t) = files /\ Rows(t) = rows /\ Shown = settled
    BY <1>1, RenameBusy
  <1>3. Now(t) = settled /\ LiveIn(settled, p) \ {i} = {}
    BY <1>1, <1>2 DEF RenameFits, ReleaseSteps
  <1>4. files = settled.files /\ rows = settled.rows /\ objects = settled.objects
    BY <1>2, <1>3
  <1>5. WriteFile(t, i, [files[i] EXCEPT !.at = p]) /\ Finish(t) /\ objects' = objects
    BY <1>2, <1>4 DEF RenameFile, Live
  <1>6. [files[i] EXCEPT !.at = p] = file /\ file \in FileRows
    BY <1>2, <1>4, PlacedFacts DEF Placed
  <1> HIDE DEF file
  <1>7. /\ Now(t)' = [files |-> [Files(t) EXCEPT ![i] = file], rows |-> Rows(t), objects |-> objects]
        /\ Drafted(t) /\ Now(t)' \in TypedTables
    BY <1>1, <1>2, <1>5, <1>6, FileWritten DEF Drafted
  <1>8. step'[t] = "idle" /\ Shown' = Now(t)'
    BY <1>1, <1>2, <1>5, <1>7, FinishShows
  <1>9. settled.files \in [Items -> FileRows \cup {NoFile}]
    BY <1>2, TableFacts
  <1> DEFINE U == [files |-> [settled.files EXCEPT ![i] = file], rows |-> settled.rows,
                   objects |-> settled.objects]
  <1>10. Now(t)' = U
    BY <1>2, <1>4, <1>7
  <1>11. /\ U.rows = settled.rows /\ U.objects = settled.objects
         /\ U.files[i] = Placed(settled.files[i], p) /\ \A k \in Items \ {i} : U.files[k] = settled.files[k]
    BY <1>2, <1>9 DEF file
  <1> HIDE DEF U
  <1>14. U \in TypedTables /\ Shown' = U
    BY <1>7, <1>8, <1>10
  <1>12. Lifecycle!Rename(i, p)
    BY <1>2, <1>3, <1>11, <1>14, RenameShown
  <1>13. Lifecycle!Next
    BY <1>2, <1>12, LifecycleSteps
  <1> QED
    BY <1>8, <1>13 DEF Ended

\* A rename ends with the content of the file at the one that was there.
LEMMA MergeEnds ==
    ASSUME Alone, SoleInv, NEW t \in Tasks, req[t].op = "rename", step'[t] = "idle",
           NEW i \in Items, i = req[t].item, NEW j \in LiveIn(settled, req[t].at) \ {i},
           Shown' = AfterRelease(settled, Merged(settled, i, j),
                                 {k \in {j} : settled.files[k].blob # settled.files[i].blob})
    PROVE  Ended(t)
  <1>1. /\ WellFormed(settled) /\ Shown = settled /\ Live(settled.files, i)
        /\ req[t].at.user = settled.files[i].at.user
    BY RenameBusy
  <1>2. j \in Items /\ i # j /\ Live(settled.files, j) /\ settled.files[j].at = req[t].at
    BY DEF LiveIn
  <1>3. Lifecycle!RenameOnto(i, j)
    BY <1>1, <1>2, MergeShown
  <1>4. Lifecycle!Next
    BY <1>2, <1>3, LifecycleSteps
  <1> QED
    BY <1>4 DEF Ended

\* The renamed file is soft-deleted.
LEMMA RetireAdvances ==
    ASSUME Alone, SoleInv, NEW t \in Tasks, Retire(t)
    PROVE  Onward(t) \/ Ended(t)
  <1> DEFINE i == req[t].item
             j == req[t].target
             file == Gone(settled.files[i])
             A == Merged(settled, i, j)
             D == {k \in {j} : settled.files[k].blob # settled.files[i].blob}
  <1>1. step[t] = "retire" /\ req[t].op = "rename" /\ IInv
    <2>1. IInv
      BY DEF SoleInv
    <2> QED
      BY <2>1, ReqTyped DEF Retire, At, StepFits
  <1>2. /\ RenameFits(step[t], req[t], settled, Now(t)) /\ req[t] \in Requests /\ ~draft[t].open
        /\ Now(t) = [files |-> files, rows |-> rows, objects |-> objects] /\ settled \in TypedTables
        /\ i \in Items /\ Live(settled.files, i) /\ settled.files[i] \in FileRows
        /\ req[t].at.user = settled.files[i].at.user /\ WellFormed(settled)
        /\ Files(t) = files /\ Rows(t) = rows
    BY <1>1, RenameBusy
  <1>3. /\ Now(t) = [files |-> [settled.files EXCEPT ![j] = WithBlob(settled.files[j], req[t].id)],
                     rows |-> settled.rows, objects |-> settled.objects]
        /\ req[t].id = settled.files[i].blob
        /\ j \in LiveIn(settled, req[t].at) \ {i} /\ req[t].old = settled.files[j].blob
    BY <1>1, <1>2 DEF RenameFits, ReleaseSteps
  <1>4. /\ files = [settled.files EXCEPT ![j] = WithBlob(settled.files[j], req[t].id)]
        /\ rows = settled.rows /\ objects = settled.objects
    BY <1>2, <1>3
  <1>5. j \in Items /\ i # j /\ settled.files[j] # NoFile
    BY <1>3 DEF LiveIn, Live
  <1>6. settled.files \in [Items -> FileRows \cup {NoFile}]
    BY <1>2, TableFacts
  <1>7. files[i] = settled.files[i] /\ files[i] # NoFile
    BY <1>2, <1>4, <1>5, <1>6 DEF Live
  <1>8. WriteFile(t, i, [files[i] EXCEPT !.live = FALSE]) /\ ReleaseOld(t) /\ objects' = objects
    BY <1>7 DEF Retire
  <1>9. [files[i] EXCEPT !.live = FALSE] = file /\ file \in FileRows
    BY <1>2, <1>7, FileGone DEF Gone
  <1> HIDE DEF file
  <1>10. /\ Now(t)' = [files |-> [Files(t) EXCEPT ![i] = file], rows |-> Rows(t), objects |-> objects]
         /\ Drafted(t) /\ Now(t)' \in TypedTables
    BY <1>1, <1>2, <1>8, <1>9, FileWritten DEF Drafted
  <1>11. Now(t)' = A
    <2> DEFINE f == settled.files
               g == WithBlob(settled.files[j], settled.files[i].blob)
    <2>1. A = [files |-> [f EXCEPT ![j] = g, ![i] = file], rows |-> settled.rows, objects |-> settled.objects]
      BY DEF Merged, file
    <2>2. [[f EXCEPT ![j] = g] EXCEPT ![i] = file] = [f EXCEPT ![j] = g, ![i] = file]
      OBVIOUS
    <2>3. Files(t) = [f EXCEPT ![j] = g]
      BY <1>2, <1>3, <1>4
    <2> QED
      BY <1>2, <1>4, <1>10, <2>1, <2>2, <2>3
  <1>12. A \in TypedTables /\ A.rows = settled.rows
    BY <1>10, <1>11 DEF Merged
  <1>13. req[t].old \in Ids \cup {NoId}
    BY <1>2 DEF Requests
  <1>14. D \in SUBSET Items
    BY <1>5
  <1> HIDE DEF A
  <1>15. CASE req[t].old \notin {NoId, req[t].id}
    <2> DEFINE r == [req[t] EXCEPT !.id = req[t].old]
    <2>1. Goto(t, "read_count", r)
      BY <1>8, <1>15 DEF ReleaseOld
    <2>2. r \in Requests
      BY <1>2, <1>13 DEF Requests
    <2>3. r.op = req[t].op /\ r.id = req[t].old /\ r.at = req[t].at /\ r.target = j /\ r.item = i
      BY <1>2 DEF Requests
    <2> HIDE DEF r
    <2>4. settled.rows[req[t].old] # NoRow /\ req[t].old \in Ids
      BY <1>2, <1>3, <1>5, <1>13, <1>15 DEF WellFormed
    <2>5. Releasing("read_count", r, A, Now(t)')
      BY <1>11, <1>12, <2>3, <2>4 DEF Releasing, ReleaseSteps
    <2>6. Releasing("read_count", r, Merged(settled, r.item, r.target), Now(t)')
      BY <2>5, <2>3 DEF A
    <2>7. RenameFits("read_count", r, settled, Now(t)')
      BY <1>1, <1>2, <1>3, <1>15, <2>3, <2>6 DEF RenameFits, ReleaseSteps
    <2>8. "read_count" \in Steps \ {"idle"} /\ ~draft'[t].open
      BY <1>2, <1>10 DEF Steps, Drafted
    <2> QED
      BY <1>1, <2>1, <2>2, <2>7, <2>8, GoesOn DEF Halfway
  <1>16. CASE req[t].old \in {NoId, req[t].id}
    <2>1. Finish(t)
      BY <1>8, <1>16 DEF ReleaseOld
    <2>2. step'[t] = "idle" /\ Shown' = A
      BY <1>1, <1>2, <1>10, <1>11, <2>1, FinishShows
    <2>3. AfterRelease(settled, A, {}) = A
      BY <1>12, AfterNone
    <2>4. AfterRelease(settled, A, D) = A
      <3>1. CASE req[t].old = req[t].id
        <4>1. D = {}
          BY <3>1, <1>3
        <4> QED
          BY <4>1, <2>3
      <3>2. CASE req[t].old = NoId /\ req[t].old # req[t].id
        <4>1. settled.files[j].blob = NoId /\ D = {} \cup {j} /\ j \in Items \ {} /\ {} \in SUBSET Items
          BY <3>2, <1>3, <1>5
        <4> HIDE DEF D
        <4>2. AfterRelease(settled, A, {} \cup {j}) = AfterRelease(settled, A, {})
          BY <4>1, ReleaseNothing
        <4> QED
          BY <4>1, <4>2, <2>3
      <3> QED
        BY <3>1, <3>2, <1>16
    <2>5. Shown' = AfterRelease(settled, A, D)
      BY <2>2, <2>4
    <2> QED
      BY <1>1, <1>2, <1>3, <2>2, <2>5, MergeEnds DEF A
  <1> QED
    BY <1>15, <1>16

\* The tables of a merge are typed.
LEMMA MergedTyped ==
    ASSUME NEW S \in TypedTables, NEW i \in Items, NEW j \in Items, Live(S.files, i), Live(S.files, j), i # j
    PROVE  Merged(S, i, j) \in TypedTables
  <1>1. /\ S.files \in [Items -> FileRows \cup {NoFile}] /\ S.rows \in [Ids -> StorageRows \cup {NoRow}]
        /\ S.objects \in SUBSET Keys
        /\ S.files[i] \in FileRows /\ S.files[j] \in FileRows /\ S.files[i].blob \in Ids \cup {NoId}
    BY TableFacts DEF Live
  <1>2. WithBlob(S.files[j], S.files[i].blob) \in FileRows /\ Gone(S.files[i]) \in FileRows
    BY <1>1, FileRelinked, FileGone
  <1>3. [S.files EXCEPT ![j] = WithBlob(S.files[j], S.files[i].blob), ![i] = Gone(S.files[i])]
          \in [Items -> FileRows \cup {NoFile}]
    BY <1>1, <1>2
  <1> QED
    BY <1>1, <1>3 DEF Merged, TypedTables

\* The old content of the other file is released.
LEMMA RenameReleases ==
    ASSUME Alone, SoleInv, NEW t \in Tasks, req[t].op = "rename", step[t] \in ReleaseSteps,
           ReadCount(t) \/ Lower(t) \/ DeleteObject(t) \/ DeleteRow(t)
    PROVE  Onward(t) \/ Ended(t)
  <1> DEFINE i == req[t].item
             j == req[t].target
             b == req[t].id
             P == Merged(settled, i, j)
  <1>1. /\ RenameFits(step[t], req[t], settled, Now(t)) /\ req[t] \in Requests /\ IInv
        /\ WellFormed(settled) /\ settled \in TypedTables /\ ~draft[t].open
        /\ i \in Items /\ Live(settled.files, i) /\ req[t].at.user = settled.files[i].at.user
    BY RenameBusy
  <1>2. /\ j \in LiveIn(settled, req[t].at) \ {i}
        /\ b = settled.files[j].blob /\ b # settled.files[i].blob
        /\ Releasing(step[t], req[t], P, Now(t))
    BY <1>1 DEF RenameFits
  <1>3. j \in Items /\ i # j /\ Live(settled.files, j)
    BY <1>2 DEF LiveIn
  <1>4. P \in TypedTables
    BY <1>1, <1>3, MergedTyped
  <1>5. (ReleaseOn(t, P) \/ ReleaseOver(t, P)) /\ Drafted(t)
    BY <1>1, <1>2, <1>4, Releases
  <1>6. CASE ReleaseOn(t, P)
    <2>1. PICK s \in ReleaseSteps, r \in Requests :
             Goto(t, s, r) /\ SameDuty(r, req[t]) /\ Releasing(s, r, P, Now(t)')
      BY <1>6 DEF ReleaseOn
    <2>2. r.op = req[t].op /\ r.id = b /\ r.at = req[t].at /\ r.target = j /\ r.item = i
      BY <2>1 DEF SameDuty
    <2>3. Releasing(s, r, Merged(settled, r.item, r.target), Now(t)')
      BY <2>1, <2>2
    <2>4. s \notin {"find_target", "merge", "retire", "rename_file"}
      BY DEF ReleaseSteps
    <2>5. RenameFits(s, r, settled, Now(t)')
      BY <1>1, <1>2, <2>2, <2>3, <2>4 DEF RenameFits
    <2>6. s \in Steps \ {"idle"} /\ ~draft'[t].open
      BY <1>1, <1>5 DEF Steps, ReleaseSteps, Drafted
    <2> QED
      BY <1>1, <2>1, <2>5, <2>6, GoesOn DEF Halfway
  <1>7. CASE ReleaseOver(t, P)
    <2>1. Finish(t) /\ Now(t)' = Unref(P, b)
      BY <1>7 DEF ReleaseOver, Released, LoopOps, BulkOps
    <2>2. step'[t] = "idle" /\ Shown' = Now(t)'
      BY <1>1, <1>5, <2>1, FinishShows
    <2>3. b \in Ids /\ P.rows[b] # NoRow
      BY <1>2 DEF Releasing
    <2> HIDE DEF P
    <2>4. Shown' = AfterRelease(settled, P, {j})
      BY <1>2, <1>3, <1>4, <2>1, <2>2, <2>3, FirstRelease
    <2>5. {k \in {j} : settled.files[k].blob # settled.files[i].blob} = {j}
      BY <1>2
    <2>6. Shown' = AfterRelease(settled, Merged(settled, i, j),
                                {k \in {j} : settled.files[k].blob # settled.files[i].blob})
      BY <2>4, <2>5 DEF P
    <2> QED
      BY <1>1, <1>2, <2>2, <2>6, MergeEnds
  <1> QED
    BY <1>5, <1>6, <1>7

-----------------------------------------------------------------------------
(***************************************************************************)
(* Scans and purges.                                                       *)
(***************************************************************************)
LEMMA ReportAdvances ==
    ASSUME Alone, SoleInv, NEW t \in Tasks, Report(t)
    PROVE  Ended(t)
  <1> DEFINE b == req[t].id
             row == [settled.rows[b] EXCEPT !.infected = TRUE]
  <1>1. step[t] = "report" /\ req[t].op = "scan" /\ IInv /\ StepFits(t) /\ req[t] \in Requests
    <2>1. IInv
      BY DEF SoleInv
    <2> QED
      BY <2>1, ReqTyped DEF Report, At, StepFits
  <1>2. ~Idle(t) /\ ~draft[t].open /\ Files(t) = files /\ Rows(t) = rows
    <2>1. ~Idle(t) /\ ~draft[t].open
      BY <1>1 DEF StepFits, Idle, BulkOps
    <2> QED
      BY <2>1, <1>1, ReqTyped
  <1>3. /\ WellFormed(settled) /\ Shown = settled /\ settled \in TypedTables
        /\ ScanFits(step[t], req[t], settled, Now(t))
        /\ Now(t) = [files |-> files, rows |-> rows, objects |-> objects]
    <2>1. WellFormed(settled) /\ Shown = settled /\ Halfway(step[t], req[t], settled, Now(t))
      BY <1>2, BusyFacts
    <2> QED
      BY <1>1, <1>2, <2>1, OpFits, NowFacts DEF WellFormed
  <1>4. Now(t) = settled /\ b \in Ids /\ settled.rows[b] # NoRow /\ ~settled.rows[b].infected
    BY <1>3 DEF ScanFits
  <1>5. files = settled.files /\ rows = settled.rows /\ objects = settled.objects
    BY <1>3, <1>4
  <1>6. WriteRow(t, b, row) /\ Finish(t) /\ objects' = objects
    BY <1>4, <1>5 DEF Report
  <1>7. settled.rows[b] \in StorageRows
    BY <1>3, <1>4, TableFacts
  <1>8. row \in StorageRows /\ row.hash = settled.rows[b].hash
    BY <1>7 DEF StorageRows
  <1> HIDE DEF row
  <1>9. /\ Now(t)' = [files |-> Files(t), rows |-> [Rows(t) EXCEPT ![b] = row], objects |-> objects]
        /\ Drafted(t) /\ Now(t)' \in TypedTables
    BY <1>1, <1>4, <1>6, <1>8, RowWritten DEF Drafted
  <1>10. step'[t] = "idle" /\ Shown' = Now(t)'
    BY <1>1, <1>2, <1>6, <1>9, FinishShows
  <1> DEFINE U == [files |-> settled.files, rows |-> [settled.rows EXCEPT ![b] = row],
                   objects |-> settled.objects]
  <1>11. Now(t)' = U
    BY <1>2, <1>5, <1>9
  <1>12. settled.rows \in [Ids -> StorageRows \cup {NoRow}]
    BY <1>3, TableFacts
  <1>13. /\ U.files = settled.files /\ U.objects = settled.objects
         /\ U.rows[b] = row /\ \A c \in Ids \ {b} : U.rows[c] = settled.rows[c]
    BY <1>4, <1>12
  <1>14. U \in TypedTables /\ Shown' = U
    BY <1>9, <1>10, <1>11
  <1> HIDE DEF U
  <1>15. row # NoRow
    BY <1>8, NullAssumption
  <1>16. WellFormed(U)
    <2>1. \A c \in Ids : /\ U.rows[c] # NoRow <=> settled.rows[c] # NoRow
                         /\ U.rows[c] # NoRow => U.rows[c].hash = settled.rows[c].hash
      BY <1>4, <1>8, <1>13, <1>15
    <2>2. \A i \in Items : settled.files[i] # NoFile => settled.files[i].blob \in Ids \cup {NoId}
      BY <1>3, TableFacts
    <2>3. \A i \in Items : U.files[i] # NoFile /\ U.files[i].blob # NoId => U.rows[U.files[i].blob] # NoRow
      BY <1>3, <1>13, <2>1, <2>2 DEF WellFormed
    <2>4. \A c, d \in Ids :
            U.rows[c] # NoRow /\ U.rows[d] # NoRow /\ U.rows[c].hash = U.rows[d].hash => c = d
      BY <1>3, <2>1 DEF WellFormed
    <2> QED
      BY <1>14, <2>3, <2>4 DEF WellFormed
  <1>17. Lifecycle!FindThreat(settled.rows[b].hash)
    BY <1>3, <1>4, <1>13, <1>14, <1>15, <1>16, ThreatShown DEF row
  <1>18. Lifecycle!Next
    BY <1>7, <1>17, LifecycleSteps DEF StorageRows
  <1> QED
    BY <1>10, <1>18 DEF Ended

\* What is known while a content is being purged.
LEMMA PurgeBusy ==
    ASSUME Alone, SoleInv, NEW t \in Tasks, req[t].op = "purge"
    PROVE  /\ IInv /\ ~Idle(t) /\ WellFormed(settled) /\ Shown = settled /\ settled \in TypedTables
           /\ PurgeFits(step[t], req[t], settled, Now(t))
           /\ ~draft[t].open /\ Files(t) = files /\ Rows(t) = rows
           /\ Now(t) \in TypedTables /\ Now(t) = [files |-> files, rows |-> rows, objects |-> objects]
           /\ req[t] \in Requests
  <1>1. IInv
    BY DEF SoleInv
  <1>2. req[t] \in Requests /\ StepFits(t) /\ (~draft[t].open => Files(t) = files /\ Rows(t) = rows)
    BY <1>1, ReqTyped
  <1>3. ~Idle(t) /\ ~draft[t].open
    BY <1>2 DEF StepFits, Idle, BulkOps
  <1>4. /\ WellFormed(settled) /\ Shown = settled
        /\ Halfway(step[t], req[t], settled, Now(t))
    BY <1>3, BusyFacts
  <1>5. PurgeFits(step[t], req[t], settled, Now(t))
    BY <1>4, OpFits
  <1> QED
    BY <1>1, <1>2, <1>3, <1>4, <1>5, NowFacts DEF WellFormed

\* The object of an infected content is deleted.
LEMMA PurgeObjectAdvances ==
    ASSUME Alone, SoleInv, NEW t \in Tasks, PurgeObject(t)
    PROVE  Onward(t)
  <1>1. step[t] = "purge_object" /\ req[t].op = "purge" /\ IInv
    <2>1. IInv
      BY DEF SoleInv
    <2> QED
      BY <2>1, ReqTyped DEF PurgeObject, At, StepFits
  <1>2. /\ PurgeFits(step[t], req[t], settled, Now(t)) /\ req[t] \in Requests /\ ~draft[t].open
        /\ Now(t) = [files |-> files, rows |-> rows, objects |-> objects]
        /\ Files(t) = files /\ Rows(t) = rows
    BY <1>1, PurgeBusy
  <1>3. /\ objects' = objects \ {req[t].key} /\ Goto(t, "purge_files", req[t])
        /\ files' = files /\ rows' = rows /\ draft' = draft
    BY DEF PurgeObject
  <1>4. Now(t)' = [files |-> files, rows |-> rows, objects |-> objects \ {req[t].key}]
    BY <1>2, <1>3 DEF Now, Files, Rows
  <1>5. PurgeFits("purge_files", req[t], settled, Now(t)')
    BY <1>1, <1>2, <1>4 DEF PurgeFits
  <1>6. "purge_files" \in Steps \ {"idle"} /\ ~draft'[t].open
    BY <1>2, <1>3 DEF Steps
  <1> QED
    BY <1>1, <1>2, <1>3, <1>5, <1>6, GoesOn DEF Halfway

\* Then the files that refer to it.
LEMMA PurgeFilesAdvances ==
    ASSUME Alone, SoleInv, NEW t \in Tasks, PurgeFiles(t)
    PROVE  Onward(t)
  <1>1. step[t] = "purge_files" /\ req[t].op = "purge" /\ IInv
    <2>1. IInv
      BY DEF SoleInv
    <2> QED
      BY <2>1, ReqTyped DEF PurgeFiles, At, StepFits
  <1>2. /\ PurgeFits(step[t], req[t], settled, Now(t)) /\ req[t] \in Requests /\ ~draft[t].open
        /\ Now(t) = [files |-> files, rows |-> rows, objects |-> objects]
        /\ Files(t) = files /\ Rows(t) = rows
    BY <1>1, PurgeBusy
  <1>3. /\ files' = [i \in Items |-> IF files[i] # NoFile /\ files[i].blob = req[t].id THEN NoFile ELSE files[i]]
        /\ Goto(t, "purge_row", req[t]) /\ rows' = rows /\ objects' = objects /\ draft' = draft
    BY DEF PurgeFiles
  <1>4. draft[t] = NoDraft /\ draft'[t] = NoDraft /\ ~draft'[t].open
    BY <1>1, <1>2, <1>3, ReqTyped
  <1>5. TablesTyped'
    <2>1. TablesTyped
      BY <1>1, ReqTyped
    <2>2. files' \in [Items -> FileRows \cup {NoFile}]
      BY <1>3, <2>1 DEF TablesTyped
    <2> QED
      BY <1>3, <2>1, <2>2 DEF TablesTyped
  <1>6. Files(t)' = files' /\ Rows(t)' = rows'
    <2>1. DOMAIN draft'[t].files = {} /\ DOMAIN draft'[t].rows = {}
      BY <1>4, EmptySome DEF NoDraft
    <2>2. files' \in [Items -> FileRows \cup {NoFile}] /\ rows' \in [Ids -> StorageRows \cup {NoRow}]
      BY <1>5 DEF TablesTyped
    <2> QED
      BY <2>1, <2>2, OverNothing DEF Files, Rows
  <1>7. Now(t)' = [files |-> files', rows |-> rows, objects |-> objects]
    BY <1>3, <1>6 DEF Now
  <1>8. /\ files = settled.files /\ rows = settled.rows /\ objects = settled.objects \ {req[t].key}
        /\ req[t].key = KeyOf(settled.rows[req[t].id])
    BY <1>1, <1>2 DEF PurgeFits
  <1>9. Now(t)'.files = [i \in Items |-> IF settled.files[i] # NoFile /\ settled.files[i].blob = req[t].id
                                         THEN NoFile ELSE settled.files[i]]
    BY <1>3, <1>7, <1>8
  <1>10. PurgeFits("purge_row", req[t], settled, Now(t)')
    BY <1>1, <1>2, <1>7, <1>8, <1>9 DEF PurgeFits
  <1>11. "purge_row" \in Steps \ {"idle"}
    BY DEF Steps
  <1> QED
    BY <1>1, <1>2, <1>3, <1>4, <1>10, <1>11, GoesOn DEF Halfway

\* Then its row.
LEMMA PurgeRowAdvances ==
    ASSUME Alone, SoleInv, NEW t \in Tasks, PurgeRow(t)
    PROVE  Ended(t)
  <1> DEFINE b == req[t].id
             B == {i \in Items : files[i] # NoFile /\ files[i].blob = b}
             U == [files |-> [i \in Items |-> Unlinked(files[i], {b})],
                   rows |-> [settled.rows EXCEPT ![b] = NoRow], objects |-> objects]
  <1>1. step[t] = "purge_row" /\ req[t].op = "purge" /\ IInv
    <2>1. IInv
      BY DEF SoleInv
    <2> QED
      BY <2>1, ReqTyped DEF PurgeRow, At, StepFits
  <1>2. /\ PurgeFits(step[t], req[t], settled, Now(t)) /\ req[t] \in Requests /\ ~draft[t].open
        /\ Now(t) = [files |-> files, rows |-> rows, objects |-> objects]
        /\ Files(t) = files /\ Rows(t) = rows /\ WellFormed(settled) /\ Shown = settled /\ settled \in TypedTables
    BY <1>1, PurgeBusy
  <1>3. /\ rows = settled.rows /\ objects = settled.objects \ {KeyOf(settled.rows[b])}
        /\ files = [i \in Items |-> IF settled.files[i] # NoFile /\ settled.files[i].blob = b
                                    THEN NoFile ELSE settled.files[i]]
        /\ b \in Ids /\ settled.rows[b] # NoRow /\ settled.rows[b].infected
    BY <1>1, <1>2 DEF PurgeFits
  <1>4. /\ Write(t, [i \in B |-> [files[i] EXCEPT !.blob = NoId]], Row(b, NoRow)) /\ objects' = objects
        /\ Finish(t)
    BY DEF PurgeRow
  <1>5. /\ Now(t)' = [files |-> [i \in Items |-> Unlinked(Files(t)[i], {b})],
                      rows |-> [Rows(t) EXCEPT ![b] = NoRow], objects |-> objects]
        /\ Drafted(t) /\ Now(t)' \in TypedTables
    <2>1. B = {i \in Items : Files(t)[i] # NoFile /\ Files(t)[i].blob = b}
      BY <1>2
    <2>2. Write(t, [i \in B |-> [Files(t)[i] EXCEPT !.blob = NoId]], Row(b, NoRow))
      BY <1>2, <1>4
    <2> HIDE DEF B
    <2> QED
      BY <2>1, <2>2, <1>1, <1>3, <1>4, RowDeleted DEF Drafted
  <1>6. step'[t] = "idle" /\ Shown' = Now(t)'
    BY <1>1, <1>2, <1>4, <1>5, FinishShows
  <1>7. Now(t)' = U
    BY <1>2, <1>3, <1>5
  <1>8. U \in TypedTables /\ Shown' = U
    BY <1>5, <1>6, <1>7
  <1>9. settled.rows \in [Ids -> StorageRows \cup {NoRow}]
    BY <1>2, TableFacts
  <1>10. /\ U.objects = settled.objects \ {KeyOf(settled.rows[b])}
         /\ U.rows[b] = NoRow /\ \A c \in Ids \ {b} : U.rows[c] = settled.rows[c]
    BY <1>3, <1>9
  <1>11. \A i \in Items : settled.files[i] # NoFile /\ settled.files[i].blob = b => U.files[i] = NoFile
    BY <1>3 DEF Unlinked
  <1>12. \A i \in Items : settled.files[i] = NoFile \/ settled.files[i].blob # b => U.files[i] = settled.files[i]
    BY <1>3 DEF Unlinked
  <1> HIDE DEF U
  <1>13. Lifecycle!PurgeInfected(settled.rows[b].hash)
    BY <1>2, <1>3, <1>8, <1>10, <1>11, <1>12, PurgeShown
  <1>14. settled.rows[b].hash \in Hashes
    BY <1>2, <1>3, TableFacts
  <1>15. Lifecycle!Next
    BY <1>13, <1>14, LifecycleSteps
  <1> QED
    BY <1>6, <1>15 DEF Ended

-----------------------------------------------------------------------------
(***************************************************************************)
(* The loops over several items.                                           *)
(***************************************************************************)
\* What is known while one is in progress.
LEMMA LoopBusy ==
    ASSUME Alone, SoleInv, NEW t \in Tasks, req[t].op \in LoopOps
    PROVE  /\ IInv /\ ~Idle(t) /\ WellFormed(settled) /\ Covered(settled) /\ Shown = settled
           /\ settled \in TypedTables /\ Halfway(step[t], req[t], settled, Now(t))
           /\ draft[t].open => files = settled.files /\ rows = settled.rows
           /\ Now(t) \in TypedTables /\ Now(t).files = Files(t) /\ Now(t).rows = Rows(t)
           /\ Now(t).objects = objects
           /\ req[t] \in Requests /\ StepFits(t) /\ step[t] \in Steps /\ req[t].op \in Ops
  <1>1. IInv
    BY DEF SoleInv
  <1>2. req[t] \in Requests /\ StepFits(t) /\ step[t] \in Steps
    BY <1>1, ReqTyped
  <1>3. ~Idle(t) /\ req[t].op \in Ops
    BY <1>2 DEF StepFits, Idle, LoopOps, BulkOps, Ops
  <1> QED
    BY <1>1, <1>2, <1>3, BusyFacts, NowFacts DEF WellFormed

\* A loop that writes in its transaction, or outside of one, goes on.
LEMMA LoopOn ==
    ASSUME Alone, SoleInv, NEW t \in Tasks, req[t].op \in LoopOps, NEW s \in Steps \ {"idle"},
           NEW r \in Requests, Goto(t, s, r), Drafted(t), Halfway(s, r, settled, Now(t)')
    PROVE  Onward(t)
  <1>1. IInv /\ (draft[t].open => files = settled.files /\ rows = settled.rows)
    BY LoopBusy
  <1>2. draft'[t].open => files' = settled.files /\ rows' = settled.rows
    BY <1>1 DEF Drafted
  <1> QED
    BY <1>1, <1>2, GoesOn

\* The request with nothing in hand.
Freed(r) == [r EXCEPT !.id = NoId, !.item = NoItem]

\* It is typed, and the rest is as it was.
LEMMA FreedFacts ==
    ASSUME NEW r \in Requests
    PROVE  /\ Freed(r) \in Requests /\ Freed(r).op = r.op /\ Freed(r).todo = r.todo /\ Freed(r).at = r.at
           /\ Freed(r).id = NoId
  BY DEF Freed, Requests

\* A loop goes on with its next item.
LEMMA LoopReleased ==
    ASSUME Alone, SoleInv, NEW t \in Tasks, req[t].op \in LoopOps, Released(t), Drafted(t),
           Halfway("next", Freed(req[t]), settled, Now(t)')
    PROVE  Onward(t)
  <1>1. req[t] \in Requests
    BY LoopBusy
  <1>2. Goto(t, "next", Freed(req[t]))
    BY DEF Released, Freed
  <1>3. Freed(req[t]) \in Requests
    BY <1>1, FreedFacts
  <1>4. "next" \in Steps \ {"idle"}
    BY DEF Steps
  <1> QED
    BY <1>2, <1>3, <1>4, LoopOn

\* At the end what the transaction has written shows.
LEMMA CommitShows ==
    ASSUME Alone, SoleInv, NEW t \in Tasks, Commit(t)
    PROVE  /\ step[t] = "next" /\ req[t].op \in LoopOps /\ DOMAIN req[t].todo = {}
           /\ step'[t] = "idle" /\ Shown' = Now(t)
  <1>1. IInv
    BY DEF SoleInv
  <1>2. step[t] = "next" /\ req[t].op \in LoopOps
    BY <1>1, ReqTyped DEF Commit, At, StepFits
  <1>3. DOMAIN req[t].todo = {}
    BY EmptySome DEF Commit
  <1>4. step'[t] = "idle"
    BY <1>1 DEF IInv, Typed, Commit, Finish, End
  <1>5. files' = Files(t) /\ rows' = Rows(t) /\ objects' = objects
    BY DEF Commit
  <1> QED
    BY <1>2, <1>3, <1>4, <1>5, ShownLater DEF Now

-----------------------------------------------------------------------------
(***************************************************************************)
(* Deletions.                                                              *)
(***************************************************************************)
\* A live file that is not deleted yet keeps its content counted.
LEMMA StillCounted ==
    ASSUME NEW S, WellFormed(S), Covered(S), NEW D \in SUBSET Items, \A j \in D : Live(S.files, j),
           NEW i \in Items \ D, Live(S.files, i), NEW b \in Ids, S.files[i].blob = b
    PROVE  S.rows[b] # NoRow /\ b \notin Dead(S, Retired(S, D), D)
  <1>1. S \in TypedTables /\ S.files[i] # NoFile /\ b # NoId
    BY NullAssumption DEF WellFormed, Live
  <1>2. S.rows[b] # NoRow
    BY <1>1 DEF WellFormed
  <1>3. S.rows[b].count \in Int /\ S.rows[b].count >= Cardinality(References(S.files, b))
    BY <1>1, <1>2, TableFacts DEF Covered
  <1>4. Lost(S, D, b) \in SUBSET Items /\ i \notin Lost(S, D, b)
    BY DEF Lost
  <1>5. Lost(S, D, b) \cup {i} \in SUBSET References(S.files, b) /\ References(S.files, b) \in SUBSET Items
    BY DEF Lost, References
  <1>6. Cardinality(Lost(S, D, b) \cup {i}) = Cardinality(Lost(S, D, b)) + 1 /\ Cardinality(Lost(S, D, b)) \in Nat
    <2>1. Lost(S, D, b) \cup {i} \in SUBSET Items /\ (Lost(S, D, b) \cup {i}) \ {i} = Lost(S, D, b)
      BY <1>4
    <2>2. i \in Lost(S, D, b) \cup {i}
      OBVIOUS
    <2>3. Cardinality(Lost(S, D, b) \cup {i}) = Cardinality((Lost(S, D, b) \cup {i}) \ {i}) + 1
      BY <2>1, <2>2, CardOne
    <2> QED
      BY <2>1, <2>3, <1>4, CardOne
  <1>7. Cardinality(Lost(S, D, b) \cup {i}) <= Cardinality(References(S.files, b)) /\ Cardinality(References(S.files, b)) \in Nat
    BY <1>5, CardMono
  <1>8. Retired(S, D).rows = S.rows
    BY <1>1, RetiredFacts DEF Live
  <1>9. Left(S, Retired(S, D), D, b) = S.rows[b].count - Cardinality(Lost(S, D, b))
    BY <1>8 DEF Left
  <1>10. ~(Left(S, Retired(S, D), D, b) <= 0)
    BY <1>3, <1>6, <1>7, <1>9
  <1> QED
    BY <1>2, <1>10 DEF Dead

\* The tables once D is deleted: the other live files are as they were.
LEMMA DeletedView ==
    ASSUME NEW S, WellFormed(S), Covered(S), NEW D \in SUBSET Items, \A j \in D : Live(S.files, j),
           NEW T, T = AfterRelease(S, Retired(S, D), D)
    PROVE  /\ T \in TypedTables /\ Retired(S, D) \in TypedTables
           /\ \A j \in Items : T.files[j] # NoFile <=> S.files[j] # NoFile
           /\ \A j \in Items \ D : Live(T.files, j) => Live(S.files, j)
           /\ \A j \in Items \ D : Live(S.files, j) => T.files[j] = S.files[j]
           /\ \A j \in Items \ D : Live(S.files, j) /\ S.files[j].blob # NoId =>
                S.files[j].blob \in Ids /\ T.rows[S.files[j].blob] # NoRow
  <1> DEFINE W == Retired(S, D)
  <1>1. S \in TypedTables /\ \A j \in D : S.files[j] # NoFile
    BY DEF WellFormed, Live
  <1>2. /\ W \in TypedTables /\ W.rows = S.rows
        /\ \A j \in Items \ D : W.files[j] = S.files[j]
        /\ \A j \in Items : W.files[j] # NoFile <=> S.files[j] # NoFile
    BY <1>1, RetiredFacts
  <1>3. RowsReleased(S, W, D) /\ FilesReleased(S, W, D)
    BY <1>2, AfterRows, AfterFiles
  <1>4. T \in TypedTables /\ \A j \in Items : T.files[j] = Unlinked(W.files[j], Dead(S, W, D))
    BY <1>3 DEF FilesReleased
  <1>5. \A j \in Items : W.files[j] \in FileRows \cup {NoFile}
    BY <1>2, TableFacts
  <1>6. \A j \in Items : /\ T.files[j] # NoFile <=> W.files[j] # NoFile
                         /\ T.files[j] # NoFile => T.files[j].live = W.files[j].live
    BY <1>4, <1>5, UnlinkedFacts
  <1>7. \A j \in Items \ D : Live(T.files, j) => Live(S.files, j)
    BY <1>2, <1>6 DEF Live
  <1>8. ASSUME NEW j \in Items \ D, Live(S.files, j)
        PROVE  /\ T.files[j] = S.files[j]
               /\ S.files[j].blob # NoId => S.files[j].blob \in Ids /\ T.rows[S.files[j].blob] # NoRow
    <2>1. S.files[j] # NoFile /\ S.files[j].blob \in Ids \cup {NoId}
      BY <1>1, <1>8, TableFacts DEF Live
    <2>2. CASE S.files[j].blob = NoId
      <3>1. W.files[j].blob \notin Dead(S, W, D)
        BY <1>2, <2>2, <1>3, NullAssumption DEF FilesReleased
      <3> QED
        BY <2>2, <3>1, <1>2, <1>4, <1>5, UnlinkedFacts
    <2>3. CASE S.files[j].blob # NoId
      <3>1. S.rows[S.files[j].blob] # NoRow /\ S.files[j].blob \notin Dead(S, W, D) /\ S.files[j].blob \in Ids
        BY <1>8, <2>1, <2>3, StillCounted
      <3>2. T.files[j] = S.files[j]
        BY <3>1, <1>2, <1>4, <1>5, UnlinkedFacts
      <3>3. T.rows[S.files[j].blob] # NoRow
        BY <3>1, <1>2, <1>3 DEF RowsReleased
      <3> QED
        BY <3>1, <3>2, <3>3
    <2> QED
      BY <2>2, <2>3
  <1> QED
    BY <1>2, <1>4, <1>6, <1>7, <1>8

\* What is known while a deletion is in progress.
LEMMA DeleteBusy ==
    ASSUME Alone, SoleInv, NEW t \in Tasks, req[t].op \in {"delete_item", "expire", "bulk_delete"}
    PROVE  /\ req[t].op \in LoopOps
           /\ \E D \in SUBSET Items : DeletedFits(step[t], req[t], settled, Now(t), D)
  <1>1. req[t].op \in LoopOps
    BY DEF LoopOps, BulkOps
  <1>2. Halfway(step[t], req[t], settled, Now(t))
    BY <1>1, LoopBusy
  <1>3. DeleteFits(step[t], req[t], settled, Now(t))
    BY <1>2, OpFits
  <1> QED
    BY <1>1, <1>3 DEF DeleteFits

\* A deletion half-way is one.
LEMMA DeletesOn ==
    ASSUME NEW s \in {"next", "soft_delete"} \cup ReleaseSteps, NEW r, NEW S, NEW T,
           r.op \in {"delete_item", "expire", "bulk_delete"},
           NEW D \in SUBSET Items, DeletedFits(s, r, S, T, D)
    PROVE  Halfway(s, r, S, T)
  BY DEF DeleteFits, Halfway

\* The request with item i in hand ...
Taken(r, i) == [r EXCEPT !.item = i, !.todo = Restrict(@, DOMAIN @ \ {i})]

\* ... which has read b with it, or puts it down.
WithId(r, b) == [r EXCEPT !.id = b]
Without(r) == [r EXCEPT !.item = NoItem]

\* The requests with an item taken, and with an id in hand, are typed.
LEMMA TakenFacts ==
    ASSUME IInv, NEW t \in Tasks, NEW i \in DOMAIN req[t].todo, NEW b \in Ids \cup {NoId},
           NEW r, r = Taken(req[t], i)
    PROVE  /\ i \in Items /\ req[t].todo[i] \in Ids \cup {NoId}
           /\ r \in Requests /\ WithId(r, b) \in Requests /\ Without(r) \in Requests
           /\ r.op = req[t].op /\ WithId(r, b).op = req[t].op /\ Without(r).op = req[t].op
           /\ r.at = req[t].at /\ WithId(r, b).at = req[t].at
           /\ r.item = i /\ WithId(r, b).item = i /\ WithId(r, b).id = b
           /\ DOMAIN r.todo = DOMAIN req[t].todo \ {i} /\ WithId(r, b).todo = r.todo /\ Without(r).todo = r.todo
           /\ \A j \in DOMAIN r.todo : r.todo[j] = req[t].todo[j]
  <1> DEFINE left == Restrict(req[t].todo, DOMAIN req[t].todo \ {i})
  <1>1. /\ req[t] \in Requests /\ DOMAIN req[t].todo \in SUBSET Items
        /\ \A j \in DOMAIN req[t].todo : req[t].todo[j] \in Ids \cup {NoId}
    BY ReqTyped, HandIds
  <1>2. left = [j \in DOMAIN req[t].todo \ {i} |-> req[t].todo[j]]
    BY DEF Restrict
  <1>3. /\ DOMAIN left = DOMAIN req[t].todo \ {i}
        /\ \A j \in DOMAIN left : left[j] = req[t].todo[j]
        /\ left \in [DOMAIN req[t].todo \ {i} -> Ids \cup {NoId}]
    BY <1>1, <1>2
  <1>4. DOMAIN req[t].todo \ {i} \in SUBSET Items
    BY <1>1
  <1> HIDE DEF left
  <1>5. left \in Some(Items, Ids \cup {NoId})
    BY <1>3, <1>4, SomeIntro
  <1>6. i \in Items /\ r = [req[t] EXCEPT !.item = i, !.todo = left]
    BY <1>1 DEF Taken, left
  <1>7. r \in Requests /\ r.op = req[t].op /\ r.at = req[t].at /\ r.item = i /\ r.todo = left
    BY <1>1, <1>5, <1>6 DEF Requests
  <1>8. /\ WithId(r, b) \in Requests /\ WithId(r, b).op = r.op /\ WithId(r, b).at = r.at
        /\ WithId(r, b).item = r.item /\ WithId(r, b).id = b /\ WithId(r, b).todo = r.todo
    BY <1>7 DEF Requests, WithId
  <1>9. Without(r) \in Requests /\ Without(r).op = r.op /\ Without(r).todo = r.todo
    BY <1>7 DEF Requests, Without
  <1> QED
    BY <1>1, <1>3, <1>6, <1>7, <1>8, <1>9

\* A deletion takes its next item.
LEMMA NextDeletion ==
    ASSUME Alone, SoleInv, NEW t \in Tasks, req[t].op \in {"delete_item", "expire", "bulk_delete"}, NextItem(t)
    PROVE  Onward(t)
  <1>1. /\ IInv /\ ~Idle(t) /\ WellFormed(settled) /\ Covered(settled) /\ req[t] \in Requests
        /\ Now(t).files = Files(t) /\ req[t].op \in LoopOps /\ step[t] = "next"
        /\ Now(t) \in TypedTables
    BY DeleteBusy, LoopBusy DEF NextItem, At
  <1>2. PICK D \in SUBSET Items : DeletedFits("next", req[t], settled, Now(t), D)
    BY <1>1, DeleteBusy
  <1>3. /\ \A j \in D : Live(settled.files, j)
        /\ D \cap DOMAIN req[t].todo = {}
        /\ Doomed(req[t].op, settled, D \cup DOMAIN req[t].todo)
        /\ req[t].op # "bulk_delete" =>
             \A j \in DOMAIN req[t].todo : Live(settled.files, j) /\ req[t].todo[j] = settled.files[j].blob
        /\ Now(t) = AfterRelease(settled, Retired(settled, D), D)
    BY <1>2 DEF DeletedFits, Pending
  <1>4. /\ \A j \in Items \ D : Live(Files(t), j) => Live(settled.files, j)
        /\ \A j \in Items \ D : Live(settled.files, j) => Files(t)[j] = settled.files[j]
    BY <1>1, <1>3, DeletedView
  <1>5. PICK i \in DOMAIN req[t].todo :
          /\ ReadOnly
          /\ \/ /\ req[t].op \in {"delete_item", "expire"}
                /\ Goto(t, "soft_delete", WithId(Taken(req[t], i), req[t].todo[i]))
             \/ /\ req[t].op = "bulk_delete"
                /\ IF Live(Files(t), i) THEN Goto(t, "soft_delete", WithId(Taken(req[t], i), Files(t)[i].blob))
                   ELSE Goto(t, "next", Without(Taken(req[t], i)))
    BY DEF NextItem, Taken, WithId, Without
  <1>6. i \in Items \ D /\ req[t].todo[i] \in Ids \cup {NoId}
    <2>1. NoId \in Ids \cup {NoId}
      OBVIOUS
    <2>2. i \in Items /\ req[t].todo[i] \in Ids \cup {NoId}
      BY <1>1, <2>1, TakenFacts
    <2> QED
      BY <2>2, <1>3
  <1> DEFINE r == Taken(req[t], i)
  <1>7. ASSUME Live(settled.files, i), Goto(t, "soft_delete", WithId(r, settled.files[i].blob))
        PROVE  Onward(t)
    <2> DEFINE b == settled.files[i].blob
               q == WithId(r, b)
    <2>1. b \in Ids \cup {NoId}
      <3>1. settled \in TypedTables /\ settled.files[i] # NoFile
        BY <1>1, <1>7 DEF WellFormed, Live
      <3> QED
        BY <3>1, <1>6, TableFacts
    <2>2. /\ q \in Requests /\ q.op = req[t].op /\ q.item = i /\ q.id = b
          /\ DOMAIN q.todo = DOMAIN req[t].todo \ {i}
          /\ \A j \in DOMAIN q.todo : q.todo[j] = req[t].todo[j]
      <3>1. IInv /\ r = Taken(req[t], i)
        BY <1>1
      <3> HIDE DEF b, r
      <3>2. /\ WithId(r, b) \in Requests /\ WithId(r, b).op = req[t].op
            /\ WithId(r, b).item = i /\ WithId(r, b).id = b
            /\ DOMAIN r.todo = DOMAIN req[t].todo \ {i} /\ WithId(r, b).todo = r.todo
            /\ \A j \in DOMAIN r.todo : r.todo[j] = req[t].todo[j]
        BY <2>1, <3>1, TakenFacts
      <3> QED
        BY <3>2
    <2>3. Goto(t, "soft_delete", q)
      BY <1>7
    <2> HIDE DEF q, b
    <2>4. Pending("soft_delete", q) = DOMAIN req[t].todo
      BY <2>2 DEF Pending
    <2>5. DeletedFits("soft_delete", q, settled, Now(t), D)
      <3>1. i \notin DOMAIN q.todo /\ \A j \in DOMAIN q.todo : j \in DOMAIN req[t].todo
        BY <2>2
      <3>2. "soft_delete" \notin ReleaseSteps
        BY DEF ReleaseSteps
      <3> QED
        BY <1>3, <1>6, <1>7, <2>2, <2>4, <3>1, <3>2 DEF DeletedFits, b
    <2>6. Halfway("soft_delete", q, settled, Now(t))
      <3>1. "soft_delete" \in {"next", "soft_delete"} \cup ReleaseSteps
        OBVIOUS
      <3>2. q.op \in {"delete_item", "expire", "bulk_delete"}
        BY <2>2
      <3> QED
        BY <2>5, <3>1, <3>2, DeletesOn
    <2>7. "soft_delete" \in Steps \ {"idle"}
      BY DEF Steps
    <2> QED
      BY <1>1, <1>5, <2>2, <2>3, <2>6, <2>7, ReadsOn
  <1>8. CASE req[t].op \in {"delete_item", "expire"}
    <2>1. Live(settled.files, i) /\ req[t].todo[i] = settled.files[i].blob
      BY <1>3, <1>8
    <2>2. Goto(t, "soft_delete", WithId(r, settled.files[i].blob))
      BY <1>5, <1>8, <2>1
    <2> QED
      BY <1>7, <2>1, <2>2
  <1>9. CASE req[t].op = "bulk_delete" /\ Live(Files(t), i)
    <2>1. Live(settled.files, i) /\ Files(t)[i] = settled.files[i]
      BY <1>4, <1>6, <1>9
    <2>2. Goto(t, "soft_delete", WithId(r, settled.files[i].blob))
      BY <1>5, <1>9, <2>1
    <2> QED
      BY <1>7, <2>1, <2>2
  <1>10. CASE req[t].op = "bulk_delete" /\ ~Live(Files(t), i)
    <2> DEFINE p == Without(r)
    <2>1. /\ p \in Requests /\ p.op = req[t].op /\ DOMAIN p.todo = DOMAIN req[t].todo \ {i}
      <3>1. NoId \in Ids \cup {NoId}
        OBVIOUS
      <3> QED
        BY <1>1, <3>1, TakenFacts
    <2>2. Goto(t, "next", p)
      BY <1>5, <1>10
    <2> HIDE DEF p
    <2>3. Doomed(p.op, settled, D \cup DOMAIN p.todo)
      BY <1>3, <1>10, <2>1 DEF Doomed, Owned
    <2>4. "next" \notin ReleaseSteps /\ Pending("next", p) = DOMAIN p.todo
      BY DEF ReleaseSteps, Pending
    <2>5. DeletedFits("next", p, settled, Now(t), D)
      BY <1>3, <1>10, <2>1, <2>3, <2>4 DEF DeletedFits
    <2>6. Halfway("next", p, settled, Now(t))
      BY <1>10, <2>1, <2>5, DeletesOn
    <2>7. "next" \in Steps \ {"idle"}
      BY DEF Steps
    <2> QED
      BY <1>1, <1>5, <2>1, <2>2, <2>6, <2>7, ReadsOn
  <1> QED
    BY <1>8, <1>9, <1>10

\* One item more is deleted.
LEMMA OneDeleted ==
    ASSUME NEW s \in {"soft_delete"} \cup ReleaseSteps, NEW r \in Requests, NEW S, NEW T,
           r.op \in {"delete_item", "expire", "bulk_delete"},
           NEW D \in SUBSET Items, DeletedFits(s, r, S, T, D),
           NEW U, U = AfterRelease(S, Retired(S, D \cup {r.item}), D \cup {r.item})
    PROVE  Halfway("next", Freed(r), S, U)
  <1> DEFINE q == Freed(r)
             E == D \cup {r.item}
  <1>1. s # "next" /\ "next" \notin ReleaseSteps
    BY DEF ReleaseSteps
  <1>2. /\ \A i \in D : Live(S.files, i)
        /\ D \cap (DOMAIN r.todo \cup {r.item}) = {}
        /\ Doomed(r.op, S, D \cup (DOMAIN r.todo \cup {r.item}))
        /\ r.op # "bulk_delete" =>
             \A i \in DOMAIN r.todo : Live(S.files, i) /\ r.todo[i] = S.files[i].blob
        /\ r.item \in Items \ DOMAIN r.todo /\ Live(S.files, r.item)
    BY <1>1 DEF DeletedFits, Pending
  <1>3. q \in Requests /\ q.op = r.op /\ q.todo = r.todo
    BY FreedFacts
  <1> HIDE DEF q
  <1>4. Pending("next", q) = DOMAIN r.todo
    BY <1>3 DEF Pending
  <1>5. D \cup (DOMAIN r.todo \cup {r.item}) = E \cup DOMAIN r.todo
    OBVIOUS
  <1>6. Doomed(r.op, S, E \cup DOMAIN r.todo)
    BY <1>2, <1>5
  <1>7. E \in SUBSET Items /\ E \cap DOMAIN r.todo = {} /\ \A i \in E : Live(S.files, i)
    BY <1>2
  <1> HIDE DEF E
  <1>8. U = AfterRelease(S, Retired(S, E), E)
    BY DEF E
  <1>9. DeletedFits("next", q, S, U, E)
    BY <1>1, <1>2, <1>3, <1>4, <1>6, <1>7, <1>8 DEF DeletedFits
  <1> QED
    BY <1>3, <1>7, <1>9, DeletesOn DEF q

\* The item is soft-deleted.
LEMMA SoftDeleteAdvances ==
    ASSUME Alone, SoleInv, NEW t \in Tasks, SoftDelete(t)
    PROVE  Onward(t)
  <1> DEFINE i == req[t].item
             b == req[t].id
  <1>1. IInv
    BY DEF SoleInv
  <1>2. step[t] = "soft_delete" /\ req[t].op \in {"delete_item", "expire", "bulk_delete"}
    BY <1>1, ReqTyped DEF SoftDelete, At, StepFits
  <1>3. /\ WellFormed(settled) /\ Covered(settled) /\ settled \in TypedTables /\ req[t] \in Requests
        /\ Now(t).files = Files(t) /\ Now(t).rows = Rows(t) /\ Now(t).objects = objects
        /\ req[t].op \in LoopOps
    BY <1>2, DeleteBusy, LoopBusy
  <1>4. PICK D \in SUBSET Items : DeletedFits("soft_delete", req[t], settled, Now(t), D)
    BY <1>2, DeleteBusy
  <1>5. /\ \A j \in D : Live(settled.files, j)
        /\ D \cap Pending("soft_delete", req[t]) = {}
        /\ Doomed(req[t].op, settled, D \cup Pending("soft_delete", req[t]))
        /\ Now(t) = AfterRelease(settled, Retired(settled, D), D)
        /\ i \in Items \ DOMAIN req[t].todo /\ Live(settled.files, i) /\ b = settled.files[i].blob
    BY <1>4 DEF DeletedFits
  <1>6. i \in Items \ D /\ settled.files[i] # NoFile /\ \A j \in D : settled.files[j] # NoFile
    BY <1>5 DEF Pending, Live
  <1>7. settled.files[i] \in FileRows /\ b \in Ids \cup {NoId}
    BY <1>3, <1>5, <1>6, TableFacts
  <1>8. /\ Files(t)[i] = settled.files[i] /\ Now(t) \in TypedTables
        /\ b # NoId => b \in Ids /\ Rows(t)[b] # NoRow
    BY <1>3, <1>5, <1>6, DeletedView
  <1> DEFINE row == Gone(settled.files[i])
             U == [files |-> [Files(t) EXCEPT ![i] = row], rows |-> Rows(t), objects |-> objects]
             E == D \cup {i}
             P == AfterRelease(settled, Retired(settled, E), D)
  <1>9. row \in FileRows
    BY <1>7, FileGone
  <1>10. /\ WriteFile(t, i, row) /\ objects' = objects
         /\ IF b = NoId THEN Released(t) ELSE Goto(t, "read_count", req[t])
    BY <1>6, <1>8 DEF SoftDelete, Gone
  <1>11. Now(t)' = U /\ Now(t)' \in TypedTables /\ Drafted(t)
    BY <1>1, <1>6, <1>9, <1>10, FileWritten DEF Drafted
  <1>12. Now(t)' = P
    <2>1. Files(t) \in [Items -> FileRows \cup {NoFile}]
      BY <1>3, <1>8, TableFacts
    <2>2. /\ U.rows = Rows(t) /\ U.objects = objects /\ U.files[i] = row
          /\ \A j \in Items \ {i} : U.files[j] = Files(t)[j]
      BY <1>6, <2>1
    <2>3. U \in TypedTables
      BY <1>11
    <2> HIDE DEF U, P
    <2>4. /\ U.rows = AfterRelease(settled, Retired(settled, D), D).rows
          /\ U.objects = AfterRelease(settled, Retired(settled, D), D).objects
          /\ U.files[i] = Gone(AfterRelease(settled, Retired(settled, D), D).files[i])
          /\ \A j \in Items \ {i} : U.files[j] = AfterRelease(settled, Retired(settled, D), D).files[j]
      BY <1>3, <1>5, <1>8, <2>2
    <2>5. U = P
      BY <1>3, <1>6, <2>3, <2>4, RetireMore DEF P
    <2> QED
      BY <1>11, <2>5
  <1>13. CASE b = NoId
    <2>1. AfterRelease(settled, Retired(settled, E), E) = P
      BY <1>6, <1>13, <1>5, ReleaseNothing
    <2>2. Now(t)' = AfterRelease(settled, Retired(settled, D \cup {i}), D \cup {i})
      BY <1>12, <2>1
    <2>3. Halfway("next", Freed(req[t]), settled, Now(t)')
      BY <1>2, <1>3, <1>4, <2>2, OneDeleted
    <2> QED
      BY <1>3, <1>10, <1>11, <1>13, <2>3, LoopReleased
  <1>14. CASE b # NoId
    <2>1. P.rows = Rows(t)
      BY <1>11, <1>12
    <2>2. b \in Ids /\ P.rows[b] # NoRow
      BY <1>8, <1>14, <2>1
    <2> HIDE DEF P
    <2>3. Releasing("read_count", req[t], P, Now(t)')
      BY <1>12, <2>2 DEF Releasing, ReleaseSteps
    <2>4. Pending("read_count", req[t]) = Pending("soft_delete", req[t])
      BY DEF Pending
    <2>5. /\ req[t].op # "bulk_delete" =>
               \A j \in DOMAIN req[t].todo : Live(settled.files, j) /\ req[t].todo[j] = settled.files[j].blob
          /\ "read_count" \notin {"next", "soft_delete"}
      BY <1>4 DEF DeletedFits
    <2>6. Releasing("read_count", req[t], AfterRelease(settled, Retired(settled, D \cup {req[t].item}), D), Now(t)')
      BY <2>3 DEF P
    <2>7. DeletedFits("read_count", req[t], settled, Now(t)', D)
      BY <1>5, <2>4, <2>5, <2>6 DEF DeletedFits
    <2>8. Halfway("read_count", req[t], settled, Now(t)')
      BY <1>2, <2>7, DeletesOn DEF ReleaseSteps
    <2>9. "read_count" \in Steps \ {"idle"}
      BY DEF Steps
    <2> QED
      BY <1>3, <1>10, <1>11, <1>14, <2>8, <2>9, LoopOn
  <1> QED
    BY <1>13, <1>14

\* Its content is released.
LEMMA DeletionReleases ==
    ASSUME Alone, SoleInv, NEW t \in Tasks, req[t].op \in {"delete_item", "expire", "bulk_delete"},
           step[t] \in ReleaseSteps, ReadCount(t) \/ Lower(t) \/ DeleteObject(t) \/ DeleteRow(t)
    PROVE  Onward(t)
  <1> DEFINE i == req[t].item
             b == req[t].id
  <1>1. /\ IInv /\ WellFormed(settled) /\ settled \in TypedTables /\ req[t] \in Requests
        /\ req[t].op \in LoopOps
    BY DeleteBusy, LoopBusy
  <1>2. PICK D \in SUBSET Items : DeletedFits(step[t], req[t], settled, Now(t), D)
    BY DeleteBusy
  <1>3. step[t] # "next" /\ step[t] \notin {"next", "soft_delete"}
    BY DEF ReleaseSteps
  <1> DEFINE W == Retired(settled, D \cup {i})
             P == AfterRelease(settled, W, D)
  <1>4. /\ \A j \in D : Live(settled.files, j)
        /\ D \cap Pending(step[t], req[t]) = {}
        /\ Doomed(req[t].op, settled, D \cup Pending(step[t], req[t]))
        /\ i \in Items \ DOMAIN req[t].todo /\ Live(settled.files, i) /\ b = settled.files[i].blob
        /\ req[t].op # "bulk_delete" =>
             \A j \in DOMAIN req[t].todo : Live(settled.files, j) /\ req[t].todo[j] = settled.files[j].blob
        /\ Releasing(step[t], req[t], P, Now(t))
    BY <1>2, <1>3 DEF DeletedFits
  <1>5. i \in Items \ D
    BY <1>3, <1>4 DEF Pending
  <1>6. W \in TypedTables
    <2>1. D \cup {i} \in SUBSET Items /\ \A j \in D \cup {i} : settled.files[j] # NoFile
      BY <1>4 DEF Live
    <2> QED
      BY <1>1, <2>1, RetiredFacts
  <1>7. P \in TypedTables
    <2> HIDE DEF W
    <2> QED
      BY <1>6, AfterFiles DEF FilesReleased
  <1> HIDE DEF P
  <1>8. (ReleaseOn(t, P) \/ ReleaseOver(t, P)) /\ Drafted(t)
    BY <1>1, <1>4, <1>7, Releases
  <1>9. CASE ReleaseOn(t, P)
    <2>1. PICK s \in ReleaseSteps, r \in Requests :
             Goto(t, s, r) /\ SameDuty(r, req[t]) /\ Releasing(s, r, P, Now(t)')
      BY <1>9 DEF ReleaseOn
    <2>2. r.op = req[t].op /\ r.id = b /\ r.item = i /\ r.todo = req[t].todo
      BY <2>1 DEF SameDuty
    <2>3. s \notin {"next", "soft_delete", "idle"} /\ Pending(s, r) = Pending(step[t], req[t])
      BY <1>3, <2>2 DEF ReleaseSteps, Pending
    <2>4. Releasing(s, r, AfterRelease(settled, Retired(settled, D \cup {r.item}), D), Now(t)')
      BY <2>1, <2>2 DEF P
    <2>5. DeletedFits(s, r, settled, Now(t)', D)
      BY <1>4, <2>2, <2>3, <2>4 DEF DeletedFits
    <2>6. Halfway(s, r, settled, Now(t)')
      BY <2>2, <2>5, DeletesOn
    <2>7. s \in Steps \ {"idle"}
      BY <2>3 DEF Steps, ReleaseSteps
    <2> QED
      BY <1>1, <1>8, <2>1, <2>6, <2>7, LoopOn
  <1>10. CASE ReleaseOver(t, P)
    <2>1. Released(t) /\ Now(t)' = Unref(P, b)
      BY <1>10 DEF ReleaseOver
    <2>2. b \in Ids /\ P.rows[b] # NoRow
      BY <1>4 DEF Releasing
    <2> HIDE DEF W
    <2>3. Unref(P, b) = AfterRelease(settled, W, D \cup {i})
      BY <1>4, <1>5, <1>6, <2>2, ReleaseOne DEF P
    <2>4. Now(t)' = AfterRelease(settled, Retired(settled, D \cup {i}), D \cup {i})
      BY <2>1, <2>3 DEF W
    <2>5. Halfway("next", Freed(req[t]), settled, Now(t)')
      <3>1. step[t] \in {"soft_delete"} \cup ReleaseSteps
        OBVIOUS
      <3>2. Now(t)' = AfterRelease(settled, Retired(settled, D \cup {req[t].item}), D \cup {req[t].item})
        BY <2>4
      <3>3. req[t] \in Requests /\ DeletedFits(step[t], req[t], settled, Now(t), D)
        BY <1>1, <1>2
      <3> DEFINE s == step[t]
                 r == req[t]
                 T == Now(t)
                 U == Now(t)'
      <3>4. /\ s \in {"soft_delete"} \cup ReleaseSteps /\ r \in Requests
            /\ r.op \in {"delete_item", "expire", "bulk_delete"}
            /\ DeletedFits(s, r, settled, T, D)
            /\ U = AfterRelease(settled, Retired(settled, D \cup {r.item}), D \cup {r.item})
        BY <3>1, <3>2, <3>3
      <3> HIDE DEF s, r, T, U
      <3>5. Halfway("next", Freed(r), settled, U)
        BY <3>4, OneDeleted
      <3> QED
        BY <3>5 DEF r, U
    <2> QED
      BY <1>1, <1>8, <2>1, <2>5, LoopReleased
  <1> QED
    BY <1>8, <1>9, <1>10

\* The deletions are committed.
LEMMA DeletionEnds ==
    ASSUME Alone, SoleInv, NEW t \in Tasks, req[t].op \in {"delete_item", "expire", "bulk_delete"}, Commit(t)
    PROVE  Ended(t)
  <1>1. WellFormed(settled) /\ Shown = settled /\ settled \in TypedTables
    BY DeleteBusy, LoopBusy
  <1>2. step[t] = "next" /\ DOMAIN req[t].todo = {} /\ step'[t] = "idle" /\ Shown' = Now(t)
    BY CommitShows
  <1>3. PICK D \in SUBSET Items : DeletedFits("next", req[t], settled, Now(t), D)
    BY <1>2, DeleteBusy
  <1>4. /\ \A j \in D : Live(settled.files, j)
        /\ Doomed(req[t].op, settled, D) /\ Shown' = AfterRelease(settled, Retired(settled, D), D)
    <2>1. D \cup Pending("next", req[t]) = D
      BY <1>2 DEF Pending
    <2> QED
      BY <1>2, <1>3, <2>1 DEF DeletedFits
  <1>5. CASE D = {}
    <2>1. Retired(settled, {}) = settled
      <3>1. [i \in Items |-> IF i \in {} THEN Gone(settled.files[i]) ELSE settled.files[i]] = settled.files
        BY <1>1, TableFacts
      <3>2. [settled EXCEPT !.files = settled.files] = settled
        BY <1>1, TableFacts
      <3> QED
        BY <3>1, <3>2 DEF Retired
    <2>2. AfterRelease(settled, settled, {}) = settled
      BY <1>1, AfterNone
    <2>3. Shown' = Shown
      BY <1>1, <1>4, <1>5, <2>1, <2>2
    <2> QED
      BY <1>2, <2>3 DEF Ended
  <1>6. CASE D # {}
    <2>1. /\ \A u : Owned(settled, D, u) => Lifecycle!Delete(u, D)
          /\ (\A i \in D : settled.files[i].expires) => Lifecycle!Expire(D)
      BY <1>1, <1>4, <1>6, DeleteShown
    <2>2. Lifecycle!Next
      <3>1. CASE req[t].op = "expire"
        BY <1>4, <2>1, <3>1, LifecycleSteps DEF Doomed
      <3>2. CASE req[t].op # "expire"
        BY <1>4, <2>1, <3>2, LifecycleSteps DEF Doomed
      <3> QED
        BY <3>1, <3>2
    <2> QED
      BY <1>2, <2>2 DEF Ended
  <1> QED
    BY <1>5, <1>6

-----------------------------------------------------------------------------
(***************************************************************************)
(* Moves.                                                                  *)
(***************************************************************************)
Moved(file, f) == [file EXCEPT !.at = [@ EXCEPT !.folder = f]]

\* A moved file keeps the rest.
LEMMA MovedFile ==
    ASSUME NEW file \in FileRows, NEW f \in Folders
    PROVE  /\ Moved(file, f) \in FileRows /\ Moved(file, f) # NoFile
           /\ Moved(Moved(file, f), f) = Moved(file, f)
           /\ [file EXCEPT !.at.folder = f] = Moved(file, f)
  <1>1. /\ file.at \in Places /\ file.at = [user |-> file.at.user, folder |-> file.at.folder, name |-> file.at.name]
        /\ file.at.user \in Users /\ file.at.name \in Names
        /\ file = [at |-> file.at, blob |-> file.blob, live |-> file.live, expires |-> file.expires]
        /\ file.blob \in Ids \cup {NoId} /\ file.live \in BOOLEAN /\ file.expires \in BOOLEAN
    BY DEF FileRows, Places
  <1> DEFINE p == [user |-> file.at.user, folder |-> f, name |-> file.at.name]
             new == [at |-> p, blob |-> file.blob, live |-> file.live, expires |-> file.expires]
  <1>2. p \in Places /\ new \in FileRows
    BY <1>1 DEF FileRows, Places
  <1>3. [file.at EXCEPT !.folder = f] = p
    BY <1>1
  <1>4. Moved(file, f) = new /\ [file EXCEPT !.at.folder = f] = new
    BY <1>1, <1>3 DEF Moved
  <1>5. [new.at EXCEPT !.folder = f] = p
    OBVIOUS
  <1>6. Moved(new, f) = new
    BY <1>5 DEF Moved
  <1>7. new # NoFile
    BY <1>2, NullAssumption
  <1> HIDE DEF new
  <1> QED
    BY <1>2, <1>4, <1>6, <1>7

\* The tables once M is moved.
MovedTable(S, M, f, T) ==
    /\ T = [files |-> T.files, rows |-> S.rows, objects |-> S.objects]
    /\ T.files \in [Items -> FileRows \cup {NoFile}]
    /\ \A i \in M : T.files[i] = Moved(S.files[i], f)
    /\ \A i \in Items \ M : T.files[i] = S.files[i]
    /\ \A i \in Items : S.files[i] # NoFile => T.files[i] # NoFile

\* Moving files makes such a table.
LEMMA MovedFacts ==
    ASSUME NEW S \in TypedTables, NEW M \in SUBSET Items, \A i \in M : S.files[i] # NoFile, NEW f \in Folders,
           NEW T, T = MovedTo(S, M, f)
    PROVE  MovedTable(S, M, f, T)
  <1>1. /\ S.files \in [Items -> FileRows \cup {NoFile}]
        /\ S = [files |-> S.files, rows |-> S.rows, objects |-> S.objects]
    BY TableFacts
  <1> DEFINE fs == [i \in Items |-> IF i \in M THEN Moved(S.files[i], f) ELSE S.files[i]]
  <1>2. T = [files |-> fs, rows |-> S.rows, objects |-> S.objects]
    BY <1>1 DEF MovedTo, Moved
  <1>3. \A i \in M : S.files[i] \in FileRows /\ Moved(S.files[i], f) \in FileRows /\ Moved(S.files[i], f) # NoFile
    BY <1>1, MovedFile
  <1>4. fs \in [Items -> FileRows \cup {NoFile}]
    BY <1>1, <1>3
  <1> QED
    BY <1>2, <1>3, <1>4 DEF MovedTable

\* What is known while files are being moved.
LEMMA MoveBusy ==
    ASSUME Alone, SoleInv, NEW t \in Tasks, req[t].op = "bulk_move"
    PROVE  /\ req[t].op \in LoopOps /\ step[t] \in {"next", "move_file"} /\ req[t].at.folder \in Folders
           /\ \E M \in SUBSET Items, u \in Users :
                /\ Owned(settled, M \cup Pending(step[t], req[t]), u)
                /\ Now(t) = MovedTo(settled, M, req[t].at.folder)
  <1>1. req[t].op \in LoopOps
    BY DEF LoopOps, BulkOps
  <1>2. Halfway(step[t], req[t], settled, Now(t)) /\ StepFits(t)
    BY <1>1, LoopBusy
  <1>3. MoveFits(step[t], req[t], settled, Now(t))
    BY <1>2, OpFits
  <1>4. req[t].at \in Places
    BY <1>2 DEF StepFits
  <1> QED
    BY <1>1, <1>3, <1>4 DEF MoveFits, Places

\* A move takes its next item.
LEMMA NextMove ==
    ASSUME Alone, SoleInv, NEW t \in Tasks, req[t].op = "bulk_move", NextItem(t)
    PROVE  Onward(t)
  <1> DEFINE f == req[t].at.folder
  <1>1. /\ IInv /\ ~Idle(t) /\ settled \in TypedTables /\ Now(t).files = Files(t)
        /\ step[t] = "next" /\ f \in Folders
    BY MoveBusy, LoopBusy DEF NextItem, At
  <1>2. PICK M \in SUBSET Items, u \in Users :
          Owned(settled, M \cup Pending("next", req[t]), u) /\ Now(t) = MovedTo(settled, M, f)
    BY <1>1, MoveBusy
  <1>3. Owned(settled, M \cup DOMAIN req[t].todo, u)
    BY <1>2 DEF Pending
  <1>4. PICK i \in DOMAIN req[t].todo :
          \/ Files(t)[i] # NoFile /\ Goto(t, "move_file", Taken(req[t], i)) /\ ReadOnly
          \/ Files(t)[i] = NoFile
    BY DEF NextItem, Taken
  <1> DEFINE r == Taken(req[t], i)
  <1>5. /\ i \in Items /\ r \in Requests /\ r.op = "bulk_move" /\ r.at = req[t].at /\ r.item = i
        /\ DOMAIN r.todo = DOMAIN req[t].todo \ {i}
    <2>1. NoId \in Ids \cup {NoId}
      OBVIOUS
    <2> QED
      BY <1>1, <2>1, TakenFacts
  <1> HIDE DEF r
  <1>6. settled.files[i] # NoFile /\ \A j \in M : settled.files[j] # NoFile
    BY <1>3 DEF Owned
  <1>7. Files(t)[i] # NoFile
    <2> HIDE DEF f
    <2>1. MovedTable(settled, M, f, Now(t))
      BY <1>1, <1>2, <1>6, MovedFacts
    <2> QED
      BY <2>1, <1>1, <1>5, <1>6 DEF MovedTable
  <1>8. Pending("move_file", r) = DOMAIN req[t].todo
    BY <1>5 DEF Pending
  <1>9. MoveFits("move_file", r, settled, Now(t))
    BY <1>2, <1>3, <1>5, <1>8 DEF MoveFits
  <1>10. "move_file" \in Steps \ {"idle"}
    BY DEF Steps
  <1> QED
    BY <1>1, <1>4, <1>5, <1>7, <1>9, <1>10, ReadsOn DEF Halfway, r

\* The item is moved.
LEMMA MoveFileAdvances ==
    ASSUME Alone, SoleInv, NEW t \in Tasks, MoveFile(t)
    PROVE  Onward(t)
  <1> DEFINE i == req[t].item
             f == req[t].at.folder
  <1>1. IInv
    BY DEF SoleInv
  <1>2. step[t] = "move_file" /\ req[t].op = "bulk_move" /\ i \in Items
    BY <1>1, ReqTyped DEF MoveFile, At, StepFits
  <1>3. /\ settled \in TypedTables /\ Now(t).files = Files(t) /\ Now(t).rows = Rows(t)
        /\ Now(t).objects = objects /\ f \in Folders /\ req[t].op \in LoopOps /\ req[t] \in Requests
    BY <1>2, MoveBusy, LoopBusy
  <1>4. PICK M \in SUBSET Items, u \in Users :
          Owned(settled, M \cup Pending("move_file", req[t]), u) /\ Now(t) = MovedTo(settled, M, f)
    BY <1>2, MoveBusy
  <1>5. Owned(settled, (M \cup {i}) \cup DOMAIN req[t].todo, u)
    BY <1>4 DEF Pending, Owned
  <1>6. settled.files[i] # NoFile /\ settled.files[i] \in FileRows /\ \A j \in M \cup {i} : settled.files[j] # NoFile
    BY <1>2, <1>3, <1>5, TableFacts DEF Owned
  <1>7. /\ Now(t) = [files |-> Files(t), rows |-> settled.rows, objects |-> settled.objects]
        /\ Files(t) \in [Items -> FileRows \cup {NoFile}] /\ Files(t)[i] # NoFile
        /\ \A j \in M : Files(t)[j] = Moved(settled.files[j], f)
        /\ \A j \in Items \ M : Files(t)[j] = settled.files[j]
    <2> HIDE DEF f
    <2>1. \A j \in M : settled.files[j] # NoFile
      BY <1>6
    <2>2. MovedTable(settled, M, f, Now(t))
      BY <1>3, <1>4, <2>1, MovedFacts
    <2> QED
      BY <2>2, <1>2, <1>3, <1>6 DEF MovedTable
  <1>8. Rows(t) = settled.rows /\ objects = settled.objects
    BY <1>3, <1>7
  <1> DEFINE row == Moved(settled.files[i], f)
  <1>9. /\ [Files(t)[i] EXCEPT !.at.folder = f] = row /\ row \in FileRows
    <2>1. row \in FileRows /\ Moved(row, f) = row
      BY <1>3, <1>6, MovedFile
    <2>2. [Files(t)[i] EXCEPT !.at.folder = f] = Moved(Files(t)[i], f)
      BY <1>2, <1>3, <1>7, MovedFile
    <2>3. Files(t)[i] = row \/ Files(t)[i] = settled.files[i]
      BY <1>2, <1>7
    <2> QED
      BY <2>1, <2>2, <2>3
  <1>10. WriteFile(t, i, row) /\ Released(t) /\ objects' = objects
    BY <1>7, <1>9 DEF MoveFile
  <1> DEFINE U == MovedTo(settled, M \cup {i}, f)
  <1>11. /\ U = [files |-> U.files, rows |-> settled.rows, objects |-> settled.objects]
         /\ U.files \in [Items -> FileRows \cup {NoFile}]
         /\ U.files[i] = row /\ \A j \in M : U.files[j] = Moved(settled.files[j], f)
         /\ \A j \in Items \ (M \cup {i}) : U.files[j] = settled.files[j]
    <2>1. M \cup {i} \in SUBSET Items
      BY <1>2
    <2> HIDE DEF U, f
    <2>2. U = MovedTo(settled, M \cup {i}, f)
      BY DEF U
    <2>3. MovedTable(settled, M \cup {i}, f, U)
      BY <1>3, <1>6, <2>1, <2>2, MovedFacts
    <2> QED
      BY <2>3 DEF MovedTable
  <1> HIDE DEF U, row
  <1>12. /\ Now(t)' = [files |-> [Files(t) EXCEPT ![i] = row], rows |-> Rows(t), objects |-> objects] /\ Drafted(t)
    BY <1>1, <1>2, <1>9, <1>10, FileWritten DEF Drafted
  <1>13. \A j \in Items : [Files(t) EXCEPT ![i] = row][j] = U.files[j]
    BY <1>2, <1>7, <1>11
  <1>14. [Files(t) EXCEPT ![i] = row] \in [Items -> FileRows \cup {NoFile}]
    BY <1>7, <1>9
  <1>15. [Files(t) EXCEPT ![i] = row] = U.files
    BY <1>11, <1>13, <1>14
  <1>16. Now(t)' = U
    BY <1>8, <1>11, <1>12, <1>15
  <1> DEFINE q == Freed(req[t])
  <1>17. q.op = "bulk_move" /\ q.todo = req[t].todo /\ q.at = req[t].at
    BY <1>2, <1>3, FreedFacts
  <1> HIDE DEF q
  <1>18. Pending("next", q) = DOMAIN req[t].todo
    BY <1>17 DEF Pending
  <1>19. M \cup {i} \in SUBSET Items /\ Now(t)' = MovedTo(settled, M \cup {i}, q.at.folder)
    BY <1>2, <1>16, <1>17 DEF U
  <1>20. MoveFits("next", q, settled, Now(t)')
    BY <1>5, <1>17, <1>18, <1>19 DEF MoveFits
  <1>21. Halfway("next", Freed(req[t]), settled, Now(t)')
    BY <1>20 DEF Halfway, q
  <1> QED
    BY <1>3, <1>10, <1>12, <1>21, LoopReleased

\* The moves are committed.
LEMMA MoveEnds ==
    ASSUME Alone, SoleInv, NEW t \in Tasks, req[t].op = "bulk_move", Commit(t)
    PROVE  Ended(t)
  <1> DEFINE f == req[t].at.folder
  <1>1. WellFormed(settled) /\ Shown = settled /\ settled \in TypedTables /\ f \in Folders
    BY MoveBusy, LoopBusy
  <1>2. step[t] = "next" /\ DOMAIN req[t].todo = {} /\ step'[t] = "idle" /\ Shown' = Now(t)
    BY CommitShows
  <1>3. PICK M \in SUBSET Items, u \in Users :
          Owned(settled, M \cup Pending("next", req[t]), u) /\ Now(t) = MovedTo(settled, M, f)
    BY <1>2, MoveBusy
  <1>4. Owned(settled, M, u)
    BY <1>3 DEF Owned
  <1>5. CASE M = {}
    <2> DEFINE U == MovedTo(settled, M, f)
    <2>1. /\ U = [files |-> U.files, rows |-> settled.rows, objects |-> settled.objects]
          /\ U.files \in [Items -> FileRows \cup {NoFile}]
          /\ \A i \in Items : U.files[i] = settled.files[i]
      <3> HIDE DEF f, U
      <3>1. (\A i \in M : settled.files[i] # NoFile) /\ U = MovedTo(settled, M, f)
        BY <1>5 DEF U
      <3>2. MovedTable(settled, M, f, U)
        BY <1>1, <3>1, MovedFacts
      <3> QED
        BY <3>2, <1>5 DEF MovedTable
    <2>2. /\ settled = [files |-> settled.files, rows |-> settled.rows, objects |-> settled.objects]
          /\ settled.files \in [Items -> FileRows \cup {NoFile}]
      BY <1>1, TableFacts
    <2>3. U = settled
      <3> HIDE DEF U
      <3>1. U.files = settled.files
        BY <2>1, <2>2
      <3> QED
        BY <2>1, <2>2, <3>1
    <2> QED
      BY <1>1, <1>2, <1>3, <2>3 DEF Ended
  <1>6. CASE M # {}
    <2>1. Shown' = MovedTo(settled, M, f)
      BY <1>2, <1>3
    <2> HIDE DEF f
    <2>2. Lifecycle!Move(u, M, f)
      BY <1>1, <1>4, <1>6, <2>1, MoveShown
    <2> QED
      BY <1>1, <1>2, <2>2, LifecycleSteps DEF Ended
  <1> QED
    BY <1>5, <1>6

-----------------------------------------------------------------------------
(***************************************************************************)
(* Copies.                                                                 *)
(***************************************************************************)
LEMMA GainFacts ==
    ASSUME NEW s, NEW r, NEW T, NEW N \in SUBSET Items, NEW b
    PROVE  /\ Gain(s, r, T, N, b) \in Int
           /\ Uncounted(s, r, b) \in Int
           /\ Cardinality({n \in N : T.files[n].blob = b}) \in Nat
  <1>1. Cardinality({n \in N : T.files[n].blob = b}) \in Nat
    <2>1. {n \in N : T.files[n].blob = b} \in SUBSET N
      OBVIOUS
    <2> QED
      BY <2>1, CardMono
  <1>2. Uncounted(s, r, b) \in Int
    BY DEF Uncounted
  <1> QED
    BY <1>1, <1>2 DEF Gain

\* The rows of copied contents are typed, and the others as they were.
LEMMA CopiedRowFacts ==
    ASSUME NEW s, NEW r, NEW S \in TypedTables, NEW T, NEW N \in SUBSET Items, NEW R, R = CopiedRows(s, r, S, T, N)
    PROVE  /\ R \in [Ids -> StorageRows \cup {NoRow}]
           /\ \A b \in Ids : S.rows[b] = NoRow => R[b] = NoRow
           /\ \A b \in Ids : S.rows[b] # NoRow =>
                /\ R[b] = WithCount(S.rows[b], S.rows[b].count + Gain(s, r, T, N, b))
                /\ R[b] \in StorageRows /\ R[b] # NoRow
                /\ R[b].count = S.rows[b].count + Gain(s, r, T, N, b)
  <1>1. ASSUME NEW b \in Ids, S.rows[b] # NoRow
        PROVE  /\ R[b] = WithCount(S.rows[b], S.rows[b].count + Gain(s, r, T, N, b))
               /\ R[b] \in StorageRows /\ R[b] # NoRow
               /\ R[b].count = S.rows[b].count + Gain(s, r, T, N, b)
    <2>1. R[b] = WithCount(S.rows[b], S.rows[b].count + Gain(s, r, T, N, b))
      BY <1>1 DEF CopiedRows
    <2>2. S.rows[b] \in StorageRows /\ S.rows[b].count \in Int /\ Gain(s, r, T, N, b) \in Int
      BY <1>1, TableFacts, GainFacts
    <2>3. S.rows[b].count + Gain(s, r, T, N, b) \in Int
      BY <2>2
    <2> QED
      BY <2>1, <2>2, <2>3, RowCounted
  <1>2. \A b \in Ids : S.rows[b] = NoRow => R[b] = NoRow
    BY DEF CopiedRows
  <1>3. R = [b \in Ids |-> R[b]]
    BY DEF CopiedRows
  <1>4. \A b \in Ids : R[b] \in StorageRows \cup {NoRow}
    BY <1>1, <1>2
  <1> HIDE DEF CopiedRows
  <1>5. R \in [Ids -> StorageRows \cup {NoRow}]
    BY <1>3, <1>4
  <1> QED
    BY <1>1, <1>2, <1>5

\* The copies count alike if as many references are counted.
LEMMA SameCopied ==
    ASSUME NEW s, NEW r, NEW q, NEW v, NEW S, NEW T, NEW U, NEW N, NEW M,
           \A b \in Ids : Gain(s, r, T, N, b) = Gain(q, v, U, M, b)
    PROVE  CopiedRows(s, r, S, T, N) = CopiedRows(q, v, S, U, M)
  BY DEF CopiedRows

\* What is known while files are being copied.
LEMMA CopyBusy ==
    ASSUME Alone, SoleInv, NEW t \in Tasks, req[t].op = "bulk_copy"
    PROVE  /\ req[t].op \in LoopOps /\ step[t] \in {"next", "insert_copy", "copy_count", "raise"}
           /\ req[t].at \in Places /\ draft[t].open /\ files = settled.files
           /\ DOMAIN req[t].todo \in SUBSET Items
           /\ \E N \in SUBSET Items, u \in Users : CopiedFits(step[t], req[t], settled, Now(t), N, u)
  <1>1. req[t].op \in LoopOps
    BY DEF LoopOps, BulkOps
  <1>2. /\ IInv /\ Halfway(step[t], req[t], settled, Now(t)) /\ StepFits(t)
        /\ draft[t].open => files = settled.files
    BY <1>1, LoopBusy
  <1>3. CopyFits(step[t], req[t], settled, Now(t))
    BY <1>2, OpFits
  <1>4. req[t].at \in Places /\ draft[t].open
    BY <1>2 DEF StepFits, BulkOps
  <1>5. DOMAIN req[t].todo \in SUBSET Items
    <2>1. req[t].todo \in Some(Items, Ids \cup {NoId})
      BY <1>2, ReqTyped DEF Requests
    <2> QED
      BY <2>1, SomeFacts
  <1> QED
    BY <1>1, <1>2, <1>3, <1>4, <1>5 DEF CopyFits

\* A copy of this progress is a request of this progress.
LEMMA CopiesOn ==
    ASSUME NEW s \in {"next", "insert_copy", "copy_count", "raise"}, NEW r, NEW S, NEW T, r.op = "bulk_copy",
           NEW N \in SUBSET Items, NEW u \in Users, CopiedFits(s, r, S, T, N, u)
    PROVE  Halfway(s, r, S, T)
  BY DEF CopyFits, Halfway

\* The parts of CopiedFits: whose the copies are, which files and rows they have written, ...
CopiesOf(r, S, T, N, u) ==
    /\ r.at.user = u
    /\ Owned(S, DOMAIN r.todo, u)
    /\ \A n \in N :
         /\ S.files[n] = NoFile
         /\ T.files[n] # NoFile /\ T.files[n].live /\ ~T.files[n].expires /\ T.files[n].at.user = u
         /\ \E m \in Items : Owned(S, {m}, u) /\ S.files[m].blob = T.files[n].blob
    /\ \A i \in Items \ N : T.files[i] = S.files[i]
    /\ T.objects = S.objects

\* ... what the request has in hand, ...
CopyHands(s, r, S, T, u) ==
    /\ s = "insert_copy" => r.item \in Items /\ Owned(S, {r.item}, u) /\ r.id = S.files[r.item].blob
    /\ s \in {"copy_count", "raise"} => r.id \in Ids /\ S.rows[r.id] # NoRow
    /\ s = "raise" => r.count = T.rows[r.id].count + 1

\* ... and that it stays within the bound.
CopyRoom(s, r, S, N) ==
    \A b \in Ids : S.rows[b] # NoRow =>
        S.rows[b].count + Cardinality(N) + Cardinality(DOMAIN r.todo)
          + (IF s = "insert_copy" THEN 1 ELSE 0) <= MaxRef

\* They are its parts.
LEMMA CopiedParts ==
    ASSUME NEW s, NEW r, NEW S, NEW T, NEW N, NEW u
    PROVE  CopiedFits(s, r, S, T, N, u) <=>
             /\ CopiesOf(r, S, T, N, u) /\ T.rows = CopiedRows(s, r, S, T, N)
             /\ CopyHands(s, r, S, T, u) /\ CopyRoom(s, r, S, N)
  BY Zenon DEF CopiedFits, CopiesOf, CopyHands, CopyRoom

\* A copy takes its next item.
LEMMA NextCopy ==
    ASSUME Alone, SoleInv, NEW t \in Tasks, req[t].op = "bulk_copy", NextItem(t)
    PROVE  Onward(t)
  <1>1. /\ IInv /\ ~Idle(t) /\ settled \in TypedTables /\ Now(t).files = Files(t) /\ step[t] = "next"
        /\ DOMAIN req[t].todo \in SUBSET Items
    BY CopyBusy, LoopBusy DEF NextItem, At
  <1>2. PICK N \in SUBSET Items, u \in Users : CopiedFits("next", req[t], settled, Now(t), N, u)
    BY <1>1, CopyBusy
  <1>3. /\ CopiesOf(req[t], settled, Now(t), N, u) /\ CopyRoom("next", req[t], settled, N)
        /\ Now(t).rows = CopiedRows("next", req[t], settled, Now(t), N)
    BY <1>2, CopiedParts
  <1>4. PICK i \in DOMAIN req[t].todo :
          \/ /\ Files(t)[i] # NoFile /\ ReadOnly
             /\ Goto(t, "insert_copy", WithId(Taken(req[t], i), Files(t)[i].blob))
          \/ Files(t)[i] = NoFile
    BY DEF NextItem, Taken, WithId
  <1>5. /\ settled.files[i] # NoFile /\ Owned(settled, {i}, u) /\ i \in Items
        /\ Files(t)[i] = settled.files[i]
    BY <1>1, <1>3 DEF CopiesOf, Owned
  <1> DEFINE b == settled.files[i].blob
             r == WithId(Taken(req[t], i), b)
  <1>6. b \in Ids \cup {NoId}
    BY <1>1, <1>5, TableFacts
  <1>7. /\ r \in Requests /\ r.op = "bulk_copy" /\ r.at = req[t].at /\ r.item = i /\ r.id = b
        /\ DOMAIN r.todo = DOMAIN req[t].todo \ {i}
    <2> DEFINE a == Taken(req[t], i)
    <2> HIDE DEF b
    <2>1. /\ WithId(a, b) \in Requests /\ WithId(a, b).op = req[t].op /\ WithId(a, b).at = req[t].at
          /\ WithId(a, b).item = i /\ WithId(a, b).id = b /\ WithId(a, b).todo = a.todo
          /\ DOMAIN a.todo = DOMAIN req[t].todo \ {i}
      BY <1>1, <1>6, TakenFacts
    <2> QED
      BY <2>1
  <1>8. Goto(t, "insert_copy", r) /\ ReadOnly
    BY <1>4, <1>5
  <1> HIDE DEF r
  <1>9. CopiesOf(r, settled, Now(t), N, u)
    BY <1>3, <1>7 DEF CopiesOf, Owned
  <1>10. Now(t).rows = CopiedRows("insert_copy", r, settled, Now(t), N)
    <2>1. \A c \in Ids : Gain("next", req[t], Now(t), N, c) = Gain("insert_copy", r, Now(t), N, c)
      BY DEF Gain, Uncounted
    <2> QED
      BY <1>3, <2>1, SameCopied
  <1>11. CopyHands("insert_copy", r, settled, Now(t), u)
    BY <1>5, <1>7 DEF CopyHands
  <1>12. CopyRoom("insert_copy", r, settled, N)
    <2>1. /\ Cardinality(DOMAIN req[t].todo) = Cardinality(DOMAIN req[t].todo \ {i}) + 1
          /\ Cardinality(DOMAIN req[t].todo \ {i}) \in Nat /\ Cardinality(N) \in Nat
      BY <1>1, <1>5, CardOne
    <2>2. \A c \in Ids : settled.rows[c] # NoRow => settled.rows[c].count \in Int
      BY <1>1, TableFacts
    <2> QED
      BY <1>3, <1>7, <2>1, <2>2, MaxRefAssumption DEF CopyRoom
  <1>13. Halfway("insert_copy", r, settled, Now(t))
    <2>1. CopiedFits("insert_copy", r, settled, Now(t), N, u)
      BY <1>9, <1>10, <1>11, <1>12, CopiedParts
    <2> QED
      BY <1>7, <2>1, CopiesOn
  <1>14. "insert_copy" \in Steps \ {"idle"}
    BY DEF Steps
  <1> QED
    BY <1>1, <1>7, <1>8, <1>13, <1>14, ReadsOn

\* The copies N that refer to c.
CopiesWith(T, N, c) == {n \in N : T.files[n].blob = c}

\* What the copies gain is their number, less the one to be counted yet.
LEMMA GainIs ==
    ASSUME NEW s, NEW r, NEW T, NEW N \in SUBSET Items, NEW b
    PROVE  /\ Gain(s, r, T, N, b) = Cardinality(CopiesWith(T, N, b)) - Uncounted(s, r, b)
           /\ Cardinality(CopiesWith(T, N, b)) \in Nat
  <1>1. Gain(s, r, T, N, b) = Cardinality(CopiesWith(T, N, b)) - Uncounted(s, r, b)
    BY Zenon DEF Gain, CopiesWith
  <1>2. CopiesWith(T, N, b) \in SUBSET N
    BY DEF CopiesWith
  <1> QED
    BY <1>1, <1>2, CardMono

\* The new file is inserted.
LEMMA InsertCopyAdvances ==
    ASSUME Alone, SoleInv, NEW t \in Tasks, InsertCopy(t)
    PROVE  Onward(t)
  <1> DEFINE b == req[t].id
  <1>1. IInv
    BY DEF SoleInv
  <1>2. step[t] = "insert_copy" /\ req[t].op = "bulk_copy"
    BY <1>1, ReqTyped DEF InsertCopy, At, StepFits
  <1>3. /\ WellFormed(settled) /\ settled \in TypedTables /\ Now(t) \in TypedTables
        /\ Now(t).files = Files(t) /\ Now(t).rows = Rows(t) /\ Now(t).objects = objects
        /\ req[t] \in Requests /\ req[t].at \in Places /\ files = settled.files /\ req[t].op \in LoopOps
        /\ DOMAIN req[t].todo \in SUBSET Items
    BY <1>2, CopyBusy, LoopBusy
  <1>4. PICK N \in SUBSET Items, u \in Users : CopiedFits("insert_copy", req[t], settled, Now(t), N, u)
    BY <1>2, CopyBusy
  <1>5. /\ CopiesOf(req[t], settled, Now(t), N, u) /\ CopyRoom("insert_copy", req[t], settled, N)
        /\ CopyHands("insert_copy", req[t], settled, Now(t), u)
        /\ Now(t).rows = CopiedRows("insert_copy", req[t], settled, Now(t), N)
    BY <1>4, CopiedParts
  <1>6. /\ req[t].item \in Items /\ Owned(settled, {req[t].item}, u) /\ b = settled.files[req[t].item].blob
        /\ settled.files[req[t].item] # NoFile
    BY <1>5 DEF CopyHands, Owned
  <1>7. b \in Ids \cup {NoId} /\ (b # NoId => b \in Ids /\ settled.rows[b] # NoRow)
    BY <1>3, <1>6, TableFacts DEF WellFormed
  <1>8. b # NoId => Rows(t)[b] # NoRow
    BY <1>3, <1>5, <1>7, CopiedRowFacts
  <1>9. MayRefer(t, b)
    BY <1>7, <1>8 DEF MayRefer
  <1>10. PICK i \in Items, n \in Names :
           /\ FreshItem(i)
           /\ WriteFile(t, i, [at |-> [req[t].at EXCEPT !.name = n], blob |-> b, live |-> TRUE, expires |-> FALSE])
           /\ IF b = NoId THEN Released(t) ELSE Goto(t, "copy_count", req[t])
           /\ objects' = objects
    BY <1>9 DEF InsertCopy
  <1> DEFINE row == [at |-> [req[t].at EXCEPT !.name = n], blob |-> b, live |-> TRUE, expires |-> FALSE]
             U == [files |-> [Files(t) EXCEPT ![i] = row], rows |-> Rows(t), objects |-> objects]
             M == N \cup {i}
  <1>11. row \in FileRows /\ row.blob = b /\ row.live /\ ~row.expires /\ row.at.user = u
    <2>1. [req[t].at EXCEPT !.name = n] \in Places /\ [req[t].at EXCEPT !.name = n].user = req[t].at.user
      BY <1>3 DEF Places
    <2>2. req[t].at.user = u
      BY <1>5 DEF CopiesOf
    <2> HIDE DEF b
    <2> QED
      BY <1>7, <2>1, <2>2 DEF FileRows
  <1>12. Now(t)' = U /\ Drafted(t)
    BY <1>1, <1>10, <1>11, FileWritten DEF Drafted
  <1>13. /\ U.files[i] = row /\ U.rows = Rows(t) /\ U.objects = objects
         /\ \A j \in Items \ {i} : U.files[j] = Files(t)[j]
    <2>1. Files(t) \in [Items -> FileRows \cup {NoFile}]
      BY <1>3, TableFacts
    <2> QED
      BY <2>1
  <1>14. settled.files[i] = NoFile /\ i \in Items \ N
    <2>1. files[i] = NoFile /\ i \notin DOMAIN draft[t].files
      BY <1>10 DEF FreshItem
    <2>2. TablesTyped
      BY <1>1, ReqTyped
    <2>3. Files(t)[i] = NoFile
      BY <2>1, <2>2, ViewFacts
    <2> QED
      BY <2>1, <2>3, <1>3, <1>5 DEF CopiesOf
  <1>15. row # NoFile
    BY <1>11, NullAssumption
  <1> HIDE DEF U, row
  <1>16. ASSUME NEW r, r.at = req[t].at, r.todo = req[t].todo
         PROVE  CopiesOf(r, settled, U, M, u)
    <2>1. ASSUME NEW m \in M
          PROVE  /\ settled.files[m] = NoFile
                 /\ U.files[m] # NoFile /\ U.files[m].live /\ ~U.files[m].expires /\ U.files[m].at.user = u
                 /\ \E k \in Items : Owned(settled, {k}, u) /\ settled.files[k].blob = U.files[m].blob
      <3>1. CASE m = i
        BY <3>1, <1>6, <1>11, <1>13, <1>14, <1>15
      <3>2. CASE m # i
        <4>1. m \in N /\ U.files[m] = Now(t).files[m]
          BY <3>2, <1>3, <1>13
        <4> QED
          BY <4>1, <1>5 DEF CopiesOf
      <3> QED
        BY <3>1, <3>2
    <2>2. \A j \in Items \ M : U.files[j] = settled.files[j]
      BY <1>3, <1>5, <1>13 DEF CopiesOf
    <2> QED
      BY <2>1, <2>2, <1>3, <1>5, <1>13, <1>16 DEF CopiesOf
  <1>17. /\ Cardinality(M) = Cardinality(N) + 1 /\ Cardinality(N) \in Nat
         /\ \A c \in Ids : Cardinality(CopiesWith(U, M, c)) =
                 Cardinality(CopiesWith(Now(t), N, c)) + (IF b = c THEN 1 ELSE 0)
    <2>1. \A m \in N : U.files[m] = Now(t).files[m]
      BY <1>3, <1>13, <1>14
    <2>2. U.files[i].blob = b
      BY <1>11, <1>13
    <2>3. ASSUME NEW c \in Ids
          PROVE  Cardinality(CopiesWith(U, M, c)) =
                   Cardinality(CopiesWith(Now(t), N, c)) + (IF b = c THEN 1 ELSE 0)
      <3> DEFINE A == CopiesWith(Now(t), N, c)
                 B == CopiesWith(U, M, c)
      <3>1. B = IF b = c THEN A \cup {i} ELSE A
        BY <2>1, <2>2 DEF CopiesWith
      <3>2. A \in SUBSET Items /\ i \in Items \ A
        BY <1>14 DEF CopiesWith
      <3> HIDE DEF A, B
      <3>3. A \cup {i} \in SUBSET Items /\ (A \cup {i}) \ {i} = A /\ i \in A \cup {i}
        BY <3>2
      <3>4. Cardinality(A \cup {i}) = Cardinality(A) + 1 /\ Cardinality(A) \in Nat
        BY <3>2, <3>3, CardOne
      <3>5. Cardinality(B) = Cardinality(A) + (IF b = c THEN 1 ELSE 0)
        BY <3>1, <3>4
      <3> QED
        BY <3>5 DEF A, B
    <2>4. Cardinality(M) = Cardinality(N) + 1 /\ Cardinality(N) \in Nat
      <3>1. M \in SUBSET Items /\ M \ {i} = N /\ i \in M
        BY <1>14
      <3> QED
        BY <3>1, CardOne
    <2> QED
      BY <2>3, <2>4
  <1>18. M \in SUBSET Items
    OBVIOUS
  <1> HIDE DEF M
  <1>19. ASSUME NEW r, r.todo = req[t].todo, NEW s \in {"next", "copy_count"}
         PROVE  CopyRoom(s, r, settled, M)
    <2>1. Cardinality(DOMAIN req[t].todo) \in Nat
      BY <1>3, CardMono
    <2>2. \A c \in Ids : settled.rows[c] # NoRow => settled.rows[c].count \in Int
      BY <1>3, TableFacts
    <2> QED
      BY <1>5, <1>17, <1>19, <2>1, <2>2, MaxRefAssumption DEF CopyRoom
  <1>20. ASSUME NEW c \in Ids
         PROVE  /\ Gain("insert_copy", req[t], Now(t), N, c) = Cardinality(CopiesWith(Now(t), N, c))
                /\ Cardinality(CopiesWith(Now(t), N, c)) \in Nat
    <2>1. Uncounted("insert_copy", req[t], c) = 0
      BY DEF Uncounted
    <2>2. /\ Gain("insert_copy", req[t], Now(t), N, c) =
               Cardinality(CopiesWith(Now(t), N, c)) - Uncounted("insert_copy", req[t], c)
          /\ Cardinality(CopiesWith(Now(t), N, c)) \in Nat
      BY GainIs
    <2> QED
      BY <2>1, <2>2
  <1>21. CASE b = NoId
    <2> DEFINE q == Freed(req[t])
    <2>1. q.op = "bulk_copy" /\ q.todo = req[t].todo /\ q.at = req[t].at
      BY <1>2, <1>3, FreedFacts
    <2> HIDE DEF q
    <2>2. ASSUME NEW c \in Ids
          PROVE  Gain("insert_copy", req[t], Now(t), N, c) = Gain("next", q, U, M, c)
      <3>1. Uncounted("next", q, c) = 0 /\ b # c
        BY <1>21, NullAssumption DEF Uncounted
      <3>2. Gain("next", q, U, M, c) = Cardinality(CopiesWith(U, M, c)) - Uncounted("next", q, c)
        BY <1>18, GainIs
      <3> QED
        BY <3>1, <3>2, <1>17, <1>20
    <2>3. U.rows = CopiedRows("next", q, settled, U, M)
      <3>1. CopiedRows("insert_copy", req[t], settled, Now(t), N) = CopiedRows("next", q, settled, U, M)
        BY <2>2, SameCopied
      <3> QED
        BY <1>3, <1>5, <1>13, <3>1
    <2>4. CopyHands("next", q, settled, U, u)
      BY DEF CopyHands
    <2>5. CopiedFits("next", q, settled, U, M, u)
      BY <1>16, <1>19, <2>1, <2>3, <2>4, CopiedParts
    <2>6. Halfway("next", q, settled, U)
      BY <1>18, <2>1, <2>5, CopiesOn
    <2> QED
      BY <1>3, <1>10, <1>12, <1>21, <2>6, LoopReleased DEF q
  <1>22. CASE b # NoId
    <2>2. ASSUME NEW c \in Ids
          PROVE  Gain("insert_copy", req[t], Now(t), N, c) = Gain("copy_count", req[t], U, M, c)
      <3>1. Uncounted("copy_count", req[t], c) = IF b = c THEN 1 ELSE 0
        BY DEF Uncounted
      <3>2. Gain("copy_count", req[t], U, M, c) =
              Cardinality(CopiesWith(U, M, c)) - Uncounted("copy_count", req[t], c)
        BY <1>18, GainIs
      <3> QED
        BY <3>1, <3>2, <1>17, <1>20
    <2>3. U.rows = CopiedRows("copy_count", req[t], settled, U, M)
      <3>1. CopiedRows("insert_copy", req[t], settled, Now(t), N) = CopiedRows("copy_count", req[t], settled, U, M)
        BY <2>2, SameCopied
      <3> QED
        BY <1>3, <1>5, <1>13, <3>1
    <2>4. CopyHands("copy_count", req[t], settled, U, u)
      BY <1>7, <1>22 DEF CopyHands
    <2>5. CopiedFits("copy_count", req[t], settled, U, M, u)
      BY <1>16, <1>19, <2>3, <2>4, CopiedParts
    <2>6. Halfway("copy_count", req[t], settled, U)
      BY <1>2, <1>18, <2>5, CopiesOn
    <2>7. "copy_count" \in Steps \ {"idle"}
      BY DEF Steps
    <2> QED
      BY <1>3, <1>10, <1>12, <1>22, <2>6, <2>7, LoopOn
  <1> QED
    BY <1>21, <1>22

-----------------------------------------------------------------------------
\* The request with the count to write.
Counting(r, n) == [r EXCEPT !.count = n]

\* It is typed, and the rest is as it was.
LEMMA CountingFacts ==
    ASSUME NEW r \in Requests, NEW n \in Int
    PROVE  /\ Counting(r, n) \in Requests /\ Counting(r, n).op = r.op /\ Counting(r, n).todo = r.todo
           /\ Counting(r, n).at = r.at /\ Counting(r, n).id = r.id /\ Counting(r, n).count = n
  BY DEF Counting, Requests

\* The count of a new reference is read.
LEMMA CopyCountAdvances ==
    ASSUME Alone, SoleInv, NEW t \in Tasks, CopyCount(t)
    PROVE  Onward(t)
  <1> DEFINE b == req[t].id
             r == Counting(req[t], Rows(t)[b].count + 1)
  <1>1. IInv
    BY DEF SoleInv
  <1>2. step[t] = "copy_count" /\ req[t].op = "bulk_copy"
    BY <1>1, ReqTyped DEF CopyCount, At, StepFits
  <1>3. /\ ~Idle(t) /\ settled \in TypedTables /\ Now(t) \in TypedTables /\ Now(t).rows = Rows(t)
        /\ req[t] \in Requests
    BY <1>2, CopyBusy, LoopBusy
  <1>4. PICK N \in SUBSET Items, u \in Users : CopiedFits("copy_count", req[t], settled, Now(t), N, u)
    BY <1>2, CopyBusy
  <1>5. /\ CopiesOf(req[t], settled, Now(t), N, u) /\ CopyRoom("copy_count", req[t], settled, N)
        /\ CopyHands("copy_count", req[t], settled, Now(t), u)
        /\ Now(t).rows = CopiedRows("copy_count", req[t], settled, Now(t), N)
    BY <1>4, CopiedParts
  <1>6. b \in Ids /\ settled.rows[b] # NoRow
    BY <1>5 DEF CopyHands
  <1>7. Rows(t)[b].count \in Int
    <2> DEFINE R == Now(t).rows
    <2>1. R = CopiedRows("copy_count", req[t], settled, Now(t), N)
      BY <1>5
    <2>2. R = Rows(t)
      BY <1>3
    <2> HIDE DEF R, b
    <2>3. R[b] \in StorageRows
      BY <1>3, <1>6, <2>1, CopiedRowFacts
    <2> QED
      BY <2>2, <2>3 DEF StorageRows
  <1>8. /\ r \in Requests /\ r.op = "bulk_copy" /\ r.todo = req[t].todo /\ r.at = req[t].at
        /\ r.id = b /\ r.count = Rows(t)[b].count + 1
    <2> HIDE DEF b
    <2>1. Rows(t)[b].count + 1 \in Int
      BY <1>7
    <2> QED
      BY <1>2, <1>3, <2>1, CountingFacts DEF b
  <1>9. Goto(t, "raise", r) /\ ReadOnly
    BY DEF CopyCount, Counting
  <1> HIDE DEF r
  <1>10. CopiesOf(r, settled, Now(t), N, u)
    BY <1>5, <1>8 DEF CopiesOf
  <1>11. Now(t).rows = CopiedRows("raise", r, settled, Now(t), N)
    <2>1. \A c \in Ids : Gain("copy_count", req[t], Now(t), N, c) = Gain("raise", r, Now(t), N, c)
      BY <1>8 DEF Gain, Uncounted
    <2> QED
      BY <1>5, <2>1, SameCopied
  <1>12. CopyHands("raise", r, settled, Now(t), u)
    BY <1>3, <1>6, <1>8 DEF CopyHands
  <1>13. CopyRoom("raise", r, settled, N)
    BY <1>5, <1>8 DEF CopyRoom
  <1>14. Halfway("raise", r, settled, Now(t))
    <2>1. CopiedFits("raise", r, settled, Now(t), N, u)
      BY <1>10, <1>11, <1>12, <1>13, CopiedParts
    <2> QED
      BY <1>8, <2>1, CopiesOn
  <1>15. "raise" \in Steps \ {"idle"}
    BY DEF Steps
  <1> QED
    BY <1>3, <1>8, <1>9, <1>14, <1>15, ReadsOn

\* ... and written.
LEMMA RaiseCopy ==
    ASSUME Alone, SoleInv, NEW t \in Tasks, Raise(t), req[t].op = "bulk_copy"
    PROVE  Onward(t)
  <1> DEFINE b == req[t].id
  <1>1. IInv
    BY DEF SoleInv
  <1>2. step[t] = "raise"
    BY DEF Raise, At
  <1>3. /\ settled \in TypedTables /\ Now(t) \in TypedTables /\ Now(t).files = Files(t) /\ Now(t).rows = Rows(t)
        /\ Now(t).objects = objects /\ req[t] \in Requests /\ req[t].op \in LoopOps
    BY CopyBusy, LoopBusy
  <1>4. PICK N \in SUBSET Items, u \in Users : CopiedFits("raise", req[t], settled, Now(t), N, u)
    BY <1>2, CopyBusy
  <1>5. /\ CopiesOf(req[t], settled, Now(t), N, u) /\ CopyRoom("raise", req[t], settled, N)
        /\ CopyHands("raise", req[t], settled, Now(t), u)
        /\ Now(t).rows = CopiedRows("raise", req[t], settled, Now(t), N)
    BY <1>4, CopiedParts
  <1>6. b \in Ids /\ settled.rows[b] # NoRow /\ req[t].count = Rows(t)[b].count + 1
    BY <1>3, <1>5 DEF CopyHands
  <1> DEFINE g == Gain("raise", req[t], Now(t), N, b)
             n == settled.rows[b].count + (g + 1)
             row == WithCount(settled.rows[b], n)
             q == Freed(req[t])
  <1>7. /\ Rows(t) \in [Ids -> StorageRows \cup {NoRow}]
        /\ Rows(t)[b] = WithCount(settled.rows[b], settled.rows[b].count + g) /\ Rows(t)[b] # NoRow
        /\ Rows(t)[b].count = settled.rows[b].count + g
    <2> DEFINE R == Now(t).rows
    <2>1. R = CopiedRows("raise", req[t], settled, Now(t), N)
      BY <1>5
    <2>2. R = Rows(t)
      BY <1>3
    <2> HIDE DEF R, b
    <2>3. R \in [Ids -> StorageRows \cup {NoRow}]
      BY <1>3, <2>1, CopiedRowFacts
    <2>4. \A c \in Ids : settled.rows[c] # NoRow =>
            /\ R[c] = WithCount(settled.rows[c], settled.rows[c].count + Gain("raise", req[t], Now(t), N, c))
            /\ R[c] \in StorageRows /\ R[c] # NoRow
            /\ R[c].count = settled.rows[c].count + Gain("raise", req[t], Now(t), N, c)
      BY <1>3, <2>1, CopiedRowFacts
    <2> QED
      BY <1>6, <2>2, <2>3, <2>4
  <1>8. settled.rows[b] \in StorageRows /\ settled.rows[b].count \in Int /\ g \in Int
    BY <1>3, <1>6, TableFacts, GainFacts
  <1> HIDE DEF g
  <1>9. n \in Int /\ req[t].count = n /\ settled.rows[b].count + g \in Int
    BY <1>6, <1>7, <1>8
  <1>10. row \in StorageRows /\ row = [Rows(t)[b] EXCEPT !.count = req[t].count]
    <2> HIDE DEF n, b
    <2>1. row \in StorageRows
      BY <1>8, <1>9, RowCounted
    <2>2. WithCount(WithCount(settled.rows[b], settled.rows[b].count + g), n) = row
      BY <1>8, <1>9, RowCounted
    <2>3. [Rows(t)[b] EXCEPT !.count = req[t].count] = WithCount(Rows(t)[b], n)
      BY <1>9 DEF WithCount
    <2> QED
      BY <1>7, <2>1, <2>2, <2>3
  <1>11. WriteRow(t, b, row) /\ Released(t) /\ objects' = objects
    <2> HIDE DEF row
    <2> QED
      BY <1>7, <1>10 DEF Raise
  <1> HIDE DEF row
  <1>12. Drafted(t) /\ Now(t)' = [files |-> Files(t), rows |-> [Rows(t) EXCEPT ![b] = row], objects |-> objects]
    BY <1>1, <1>6, <1>10, <1>11, RowWritten DEF Drafted
  <1>13. q.op = "bulk_copy" /\ q.todo = req[t].todo /\ q.at = req[t].at
    BY <1>3, FreedFacts
  <1> HIDE DEF q
  <1> DEFINE U == [files |-> Files(t), rows |-> [Rows(t) EXCEPT ![b] = row], objects |-> objects]
  <1>14. /\ U.files = Files(t) /\ U.objects = objects /\ U.rows = [Rows(t) EXCEPT ![b] = row]
         /\ Now(t)' = U
    BY <1>12
  <1> HIDE DEF U
  <1>15. CopiesOf(q, settled, U, N, u)
    <2>1. U.files = Now(t).files /\ U.objects = Now(t).objects
      BY <1>3, <1>14
    <2> DEFINE T == Now(t)
    <2>2. CopiesOf(req[t], settled, T, N, u) /\ U.files = T.files /\ U.objects = T.objects
      BY <1>5, <2>1
    <2> HIDE DEF T
    <2> DEFINE r == req[t]
    <2>3. CopiesOf(r, settled, T, N, u) /\ q.op = r.op /\ q.todo = r.todo /\ q.at = r.at
      BY <1>3, <1>13, <2>2
    <2> HIDE DEF r
    <2> QED
      BY <1>13, <2>2, <2>3 DEF CopiesOf
  <1>16. ASSUME NEW c \in Ids
         PROVE  Gain("next", q, U, N, c) = Gain("raise", req[t], Now(t), N, c) + (IF c = b THEN 1 ELSE 0)
    <2>1. CopiesWith(U, N, c) = CopiesWith(Now(t), N, c)
      BY <1>3, <1>14 DEF CopiesWith
    <2>2. Uncounted("next", q, c) = 0 /\ Uncounted("raise", req[t], c) = IF c = b THEN 1 ELSE 0
      BY DEF Uncounted
    <2>3. Gain("next", q, U, N, c) = Cardinality(CopiesWith(U, N, c)) - Uncounted("next", q, c)
      BY GainIs
    <2>4. /\ Gain("raise", req[t], Now(t), N, c) = Cardinality(CopiesWith(Now(t), N, c)) - Uncounted("raise", req[t], c)
          /\ Cardinality(CopiesWith(Now(t), N, c)) \in Nat
      BY GainIs
    <2> HIDE DEF b
    <2> QED
      BY <2>1, <2>2, <2>3, <2>4
  <1>17. U.rows = CopiedRows("next", q, settled, U, N)
    <2> DEFINE R == CopiedRows("raise", req[t], settled, Now(t), N)
               V == CopiedRows("next", q, settled, U, N)
    <2>1. /\ V \in [Ids -> StorageRows \cup {NoRow}]
          /\ \A c \in Ids : settled.rows[c] = NoRow => V[c] = NoRow
          /\ \A c \in Ids : settled.rows[c] # NoRow =>
               V[c] = WithCount(settled.rows[c], settled.rows[c].count + Gain("next", q, U, N, c))
      <3> HIDE DEF V
      <3>1. V = CopiedRows("next", q, settled, U, N)
        BY DEF V
      <3>2. V \in [Ids -> StorageRows \cup {NoRow}]
        BY <1>3, <3>1, CopiedRowFacts
      <3>3. \A c \in Ids : settled.rows[c] = NoRow => V[c] = NoRow
        BY <1>3, <3>1, CopiedRowFacts
      <3>4. \A c \in Ids : settled.rows[c] # NoRow =>
               V[c] = WithCount(settled.rows[c], settled.rows[c].count + Gain("next", q, U, N, c))
        BY <1>3, <3>1, CopiedRowFacts
      <3> QED
        BY <3>2, <3>3, <3>4
    <2>2. /\ \A c \in Ids : settled.rows[c] = NoRow => R[c] = NoRow
          /\ \A c \in Ids : settled.rows[c] # NoRow =>
               R[c] = WithCount(settled.rows[c], settled.rows[c].count + Gain("raise", req[t], Now(t), N, c))
      <3> HIDE DEF R
      <3>1. R = CopiedRows("raise", req[t], settled, Now(t), N)
        BY DEF R
      <3> QED
        BY <1>3, <3>1, CopiedRowFacts
    <2>3. R = Rows(t)
      BY <1>3, <1>5
    <2> HIDE DEF R, V
    <2>4. V[b] = row
      <3>1. Gain("next", q, U, N, b) = g + 1
        BY <1>6, <1>16 DEF g
      <3> QED
        BY <1>6, <2>1, <3>1 DEF row
    <2>5. \A c \in Ids \ {b} : V[c] = Rows(t)[c]
      <3>1. ASSUME NEW c \in Ids \ {b}
            PROVE  V[c] = Rows(t)[c]
        <4>1. Gain("next", q, U, N, c) = Gain("raise", req[t], Now(t), N, c)
          <5>1. Gain("raise", req[t], Now(t), N, c) \in Int
            BY GainFacts
          <5> QED
            BY <5>1, <1>16
        <4> QED
          BY <2>1, <2>2, <2>3, <4>1
      <3> QED
        BY <3>1
    <2>6. V = [Rows(t) EXCEPT ![b] = row]
      <3> HIDE DEF b
      <3> QED
        BY <1>6, <1>7, <2>1, <2>4, <2>5
    <2> QED
      BY <1>14, <2>6 DEF V
  <1>18. CopyHands("next", q, settled, U, u)
    BY DEF CopyHands
  <1>19. CopyRoom("next", q, settled, N)
    BY <1>5, <1>13 DEF CopyRoom
  <1>20. Halfway("next", Freed(req[t]), settled, Now(t)')
    <2>1. CopiedFits("next", q, settled, U, N, u)
      BY <1>15, <1>17, <1>18, <1>19, CopiedParts
    <2>2. Halfway("next", q, settled, U)
      BY <1>13, <2>1, CopiesOn
    <2> QED
      BY <1>14, <2>2 DEF q
  <1> QED
    BY <1>3, <1>11, <1>12, <1>20, LoopReleased

\* The copies are committed.
LEMMA CopyEnds ==
    ASSUME Alone, SoleInv, NEW t \in Tasks, req[t].op = "bulk_copy", Commit(t)
    PROVE  Ended(t)
  <1> DEFINE T == Now(t)
  <1>1. WellFormed(settled) /\ Shown = settled /\ settled \in TypedTables /\ T \in TypedTables
    BY CopyBusy, LoopBusy
  <1>2. step[t] = "next" /\ DOMAIN req[t].todo = {} /\ step'[t] = "idle" /\ Shown' = T
    BY CommitShows
  <1> HIDE DEF T
  <1>3. PICK N \in SUBSET Items, u \in Users : CopiedFits("next", req[t], settled, T, N, u)
    BY <1>2, CopyBusy DEF T
  <1>4. /\ CopiesOf(req[t], settled, T, N, u) /\ CopyRoom("next", req[t], settled, N)
        /\ T.rows = CopiedRows("next", req[t], settled, T, N)
    BY <1>3, CopiedParts
  <1>5. ASSUME NEW c \in Ids
        PROVE  /\ Gain("next", req[t], T, N, c) = Cardinality({n \in N : T.files[n].blob = c})
               /\ Cardinality({n \in N : T.files[n].blob = c}) \in Nat
    <2>1. Uncounted("next", req[t], c) = 0
      BY DEF Uncounted
    <2>2. Cardinality({n \in N : T.files[n].blob = c}) \in Nat
      <3>1. {n \in N : T.files[n].blob = c} \in SUBSET N
        OBVIOUS
      <3> QED
        BY <3>1, CardMono
    <2> QED
      BY <2>1, <2>2 DEF Gain
  <1>6. /\ \A c \in Ids : settled.rows[c] = NoRow => T.rows[c] = NoRow
        /\ \A c \in Ids : settled.rows[c] # NoRow =>
             T.rows[c] = WithCount(settled.rows[c], settled.rows[c].count + Gain("next", req[t], T, N, c))
    <2> DEFINE R == T.rows
    <2>1. R = CopiedRows("next", req[t], settled, T, N)
      BY <1>4
    <2> HIDE DEF R
    <2>2. /\ \A c \in Ids : settled.rows[c] = NoRow => R[c] = NoRow
          /\ \A c \in Ids : settled.rows[c] # NoRow =>
               R[c] = WithCount(settled.rows[c], settled.rows[c].count + Gain("next", req[t], T, N, c))
      BY <1>1, <2>1, CopiedRowFacts
    <2> QED
      BY <2>2 DEF R
  <1>7. CASE N = {}
    <2>1. /\ T.files = settled.files /\ T.objects = settled.objects
      <3>1. \A i \in Items : T.files[i] = settled.files[i]
        BY <1>4, <1>7 DEF CopiesOf
      <3>2. T.files \in [Items -> FileRows \cup {NoFile}] /\ settled.files \in [Items -> FileRows \cup {NoFile}]
        BY <1>1, TableFacts
      <3> QED
        BY <3>1, <3>2, <1>4 DEF CopiesOf
    <2>2. T.rows = settled.rows
      <3>1. ASSUME NEW c \in Ids
            PROVE  T.rows[c] = settled.rows[c]
        <4>1. CASE settled.rows[c] = NoRow
          BY <4>1, <1>6
        <4>2. CASE settled.rows[c] # NoRow
          <5>1. {n \in N : T.files[n].blob = c} = {}
            BY <1>7
          <5>2. Cardinality({n \in N : T.files[n].blob = c}) = 0
            BY <5>1, FS_EmptySet
          <5>3. settled.rows[c] \in StorageRows /\ settled.rows[c].count \in Int
            BY <1>1, <4>2, TableFacts
          <5>4. settled.rows[c].count + Gain("next", req[t], T, N, c) = settled.rows[c].count
            BY <1>5, <5>2, <5>3
          <5>5. T.rows[c] = WithCount(settled.rows[c], settled.rows[c].count)
            BY <1>6, <4>2, <5>4
          <5> QED
            BY <5>3, <5>5, RowCounted
        <4> QED
          BY <4>1, <4>2
      <3>2. T.rows \in [Ids -> StorageRows \cup {NoRow}] /\ settled.rows \in [Ids -> StorageRows \cup {NoRow}]
        BY <1>1, TableFacts
      <3> QED
        BY <3>1, <3>2
    <2>3. /\ T = [files |-> T.files, rows |-> T.rows, objects |-> T.objects]
          /\ settled = [files |-> settled.files, rows |-> settled.rows, objects |-> settled.objects]
      BY <1>1, TableFacts
    <2>4. T = settled
      BY <2>1, <2>2, <2>3
    <2> QED
      BY <1>1, <1>2, <2>4 DEF Ended
  <1>8. CASE N # {}
    <2>1. ASSUME NEW c \in Ids, settled.rows[c] # NoRow
          PROVE  /\ T.rows[c] = WithCount(settled.rows[c],
                                          settled.rows[c].count + Cardinality({n \in N : T.files[n].blob = c}))
                 /\ settled.rows[c].count + Cardinality(N) <= MaxRef
      <3>1. settled.rows[c].count + Cardinality(N) <= MaxRef
        <4>1. Cardinality(DOMAIN req[t].todo) = 0
          BY <1>2, FS_EmptySet
        <4>2. settled.rows[c].count \in Int /\ Cardinality(N) \in Nat
          BY <1>1, <2>1, TableFacts, CardMono
        <4> QED
          BY <1>4, <2>1, <4>1, <4>2, MaxRefAssumption DEF CopyRoom
      <3> QED
        BY <1>5, <1>6, <2>1, <3>1
    <2>2. /\ T.objects = settled.objects /\ \A i \in Items \ N : T.files[i] = settled.files[i]
          /\ \A n \in N :
               /\ settled.files[n] = NoFile /\ T.files[n] # NoFile
               /\ T.files[n].live /\ ~T.files[n].expires /\ T.files[n].at.user = u
               /\ \E m \in Items : Owned(settled, {m}, u) /\ settled.files[m].blob = T.files[n].blob
      BY <1>4 DEF CopiesOf
    <2>3. \E src \in [N -> Items], at \in [N -> Places] : Lifecycle!Copy(u, N, src, at)
      <3>1. WellFormed(settled) /\ Shown = settled /\ T \in TypedTables /\ Shown' = T
        BY <1>1, <1>2
      <3>2. \A c \in Ids : settled.rows[c] # NoRow =>
              /\ T.rows[c] = WithCount(settled.rows[c],
                                       settled.rows[c].count + Cardinality({n \in N : T.files[n].blob = c}))
              /\ settled.rows[c].count + Cardinality(N) <= MaxRef
        BY <2>1
      <3>3. Copied(settled, T, N, u)
        BY <1>6, <2>2, <3>2 DEF Copied
      <3> QED
        BY <1>8, <3>1, <3>3, CopyShown
    <2> QED
      BY <1>2, <2>3, LifecycleSteps DEF Ended
  <1> QED
    BY <1>7, <1>8

-----------------------------------------------------------------------------
(***************************************************************************)
(* The steps of a request that has the server for itself.                  *)
(***************************************************************************)
\* decrement_ref_count, of any request.
LEMMA ReleaseAdvances ==
    ASSUME Alone, SoleInv, NEW t \in Tasks, ReadCount(t) \/ Lower(t) \/ DeleteObject(t) \/ DeleteRow(t)
    PROVE  Onward(t) \/ Ended(t)
  <1>1. IInv
    BY DEF SoleInv
  <1>2. step[t] \in ReleaseSteps
    BY DEF ReadCount, Lower, DeleteObject, DeleteRow, At, ReleaseSteps
  <1>3. req[t].op \in {"upload", "link", "rename"} \cup LoopOps
    BY <1>1, <1>2, ReqTyped DEF StepFits, ReleaseSteps
  <1>4. req[t].op \notin {"bulk_move", "bulk_copy"}
    BY <1>2, MoveBusy, CopyBusy DEF ReleaseSteps
  <1>5. req[t].op \in {"upload", "link", "rename", "delete_item", "expire", "bulk_delete"}
    BY <1>3, <1>4 DEF LoopOps, BulkOps
  <1>6. CASE req[t].op \in {"upload", "link"}
    BY <1>2, <1>6, UploadReleases
  <1>7. CASE req[t].op = "rename"
    BY <1>2, <1>7, RenameReleases
  <1>8. CASE req[t].op \in {"delete_item", "expire", "bulk_delete"}
    BY <1>2, <1>8, DeletionReleases
  <1> QED
    BY <1>5, <1>6, <1>7, <1>8

\* The loops, and their ends.
LEMMA LoopAdvances ==
    ASSUME Alone, SoleInv, NEW t \in Tasks, NextItem(t) \/ Commit(t)
    PROVE  Onward(t) \/ Ended(t)
  <1>1. IInv
    BY DEF SoleInv
  <1>2. req[t].op \in LoopOps
    BY <1>1, ReqTyped DEF NextItem, Commit, At, StepFits
  <1>3. CASE req[t].op \in {"delete_item", "expire", "bulk_delete"}
    BY <1>3, NextDeletion, DeletionEnds
  <1>4. CASE req[t].op = "bulk_move"
    BY <1>4, NextMove, MoveEnds
  <1>5. CASE req[t].op = "bulk_copy"
    BY <1>5, NextCopy, CopyEnds
  <1> QED
    BY <1>2, <1>3, <1>4, <1>5 DEF LoopOps, BulkOps

\* A content that is found is counted once more.
LEMMA RaiseAdvances ==
    ASSUME Alone, SoleInv, NEW t \in Tasks, Raise(t)
    PROVE  Onward(t)
  <1>1. IInv
    BY DEF SoleInv
  <1>2. req[t].op \in {"upload", "link", "bulk_copy"}
    BY <1>1, ReqTyped DEF Raise, At, StepFits
  <1> QED
    BY <1>2, RaiseUpload, RaiseCopy

\* Every statement brings its request on, or to its end.
LEMMA WorkAdvances ==
    ASSUME Alone, SoleInv, NEW t \in Tasks, Work(t)
    PROVE  Onward(t) \/ Ended(t)
  <1>1. CASE FindContent(t) \/ FindLinked(t) \/ StoreObject(t) \/ InsertRow(t) \/ Refind(t) \/ Raise(t)
    BY <1>1, FindContentAdvances, FindLinkedAdvances, StoreObjectAdvances, InsertRowAdvances, RefindNever,
       RaiseAdvances
  <1>2. CASE FindFile(t) \/ UpdateFile(t) \/ InsertFile(t)
    BY <1>2, FindFileAdvances, UpdateFileAdvances, InsertFileAdvances
  <1>3. CASE ReadCount(t) \/ Lower(t) \/ DeleteObject(t) \/ DeleteRow(t)
    BY <1>3, ReleaseAdvances
  <1>4. CASE NextItem(t) \/ Commit(t)
    BY <1>4, LoopAdvances
  <1>5. CASE SoftDelete(t) \/ InsertCopy(t) \/ CopyCount(t) \/ MoveFile(t)
    BY <1>5, SoftDeleteAdvances, InsertCopyAdvances, CopyCountAdvances, MoveFileAdvances
  <1>6. CASE FindTarget(t) \/ MergeInto(t) \/ Retire(t) \/ RenameFile(t)
    BY <1>6, FindTargetAdvances, MergeIntoAdvances, RetireAdvances, RenameFileAdvances
  <1>7. CASE Report(t) \/ PurgeObject(t) \/ PurgeFiles(t) \/ PurgeRow(t)
    BY <1>7, ReportAdvances, PurgeObjectAdvances, PurgeFilesAdvances, PurgeRowAdvances
  <1> QED
    BY <1>1, <1>2, <1>3, <1>4, <1>5, <1>6, <1>7 DEF Work

\* Nothing else happens to it: it waits for nobody and does not fail.
LEMMA NothingElse ==
    ASSUME Alone, SoleInv, NEW t \in Tasks
    PROVE  ~AbortDeadlocked(t) /\ ~Fail(t)
  <1>1. ASSUME AbortDeadlocked(t)
        PROVE  FALSE
    <2>1. Waits(t)
      BY <1>1 DEF AbortDeadlocked
    <2> QED
      BY <2>1 DEF Waits, Alone
  <1>2. ASSUME Fail(t)
        PROVE  FALSE
    <2>1. spent.faults \in Nat
      BY DEF SoleInv, IInv, Typed
    <2> QED
      BY <1>2, <2>1 DEF Fail, Alone
  <1> QED
    BY <1>1, <1>2

-----------------------------------------------------------------------------
\* What is in the tables and the bucket.
Tables == [files |-> files, rows |-> rows, objects |-> objects]

\* Between two requests they show.
LEMMA IdleTables ==
    ASSUME Alone, SoleInv, NEW t \in Tasks, Idle(t)
    PROVE  /\ Tables \in TypedTables /\ WellFormed(Tables) /\ Covered(Tables) /\ Shown = Tables
           /\ \A u \in Tasks : Idle(u)
           /\ Tables.files = files /\ Tables.rows = rows /\ Tables.objects = objects
  <1>1. IInv
    BY DEF SoleInv
  <1>2. /\ files \in [Items -> FileRows \cup {NoFile}] /\ rows \in [Ids -> StorageRows \cup {NoRow}]
        /\ objects \subseteq Keys /\ OneRowPerHash /\ Linked /\ Counted
    BY <1>1, ReqTyped DEF IInv
  <1>3. Tables \in TypedTables /\ Tables.files = files /\ Tables.rows = rows /\ Tables.objects = objects
    BY <1>2 DEF Tables, TypedTables
  <1>4. \A u \in Tasks : Idle(u) /\ req[u].touched = {}
    <2>1. StepFits(t)
      BY <1>1, ReqTyped
    <2>2. req[t] = NoReq
      BY <2>1 DEF StepFits, Idle
    <2>3. req[t].touched = {}
      BY <2>2 DEF NoReq
    <2> QED
      BY <2>3 DEF Alone
  <1>5. Shown = Tables
    BY <1>4 DEF Shown, Tables
  <1>6. WellFormed(Tables)
    BY <1>2, <1>3 DEF WellFormed, OneRowPerHash, Linked
  <1>7. Covered(Tables)
    BY <1>2, <1>3, <1>4 DEF Covered, Counted, Exempt
  <1> QED
    BY <1>3, <1>4, <1>5, <1>6, <1>7

\* The progress after a step.
LEMMA ProgressNext ==
    ASSUME NEW t \in Tasks
    PROVE  Progress(t)' <=>
             (step'[t] # "idle" =>
                /\ WellFormed(settled') /\ Covered(settled')
                /\ draft'[t].open => files' = settled'.files /\ rows' = settled'.rows
                /\ Halfway(step'[t], req'[t], settled', Now(t)'))
  BY DEF Progress, Idle

\* A request arrives.
LEMMA BeginAdvances ==
    ASSUME Alone, SoleInv, NEW t \in Tasks, NEW s \in Steps \ {"idle"}, NEW r \in Requests,
           NEW d \in {NoDraft, Begun}, Begin(t, s, r, d), Halfway(s, r, Tables, Tables)
    PROVE  Progress(t)' /\ Shown' = Shown
  <1>1. IInv /\ Idle(t)
    BY DEF SoleInv, Begin
  <1>2. /\ WellFormed(Tables) /\ Covered(Tables) /\ Shown = Tables /\ \A u \in Tasks : Idle(u)
        /\ Tables.files = files /\ Tables.rows = rows
    BY <1>1, IdleTables
  <1>3. /\ step'[t] = s /\ SameHands(req'[t], r) /\ req'[t].at = r.at /\ req'[t].hash = r.hash
        /\ req'[t].key = r.key /\ Files(t)' = files /\ Rows(t)' = rows
        /\ files' = files /\ rows' = rows /\ objects' = objects
    BY <1>1, BeginFacts
  <1>4. settled' = Tables
    BY <1>2 DEF Begin, Tables
  <1>5. Now(t)' = Tables
    BY <1>3 DEF Now, Tables
  <1>6. SameRequest(req'[t], r)
    <2>1. req'[t] = [r EXCEPT !.touched = Contents(r)]
      BY <1>1 DEF Begin, IInv, Typed
    <2> QED
      BY <1>3, <2>1 DEF SameRequest, Requests
  <1>7. Halfway(s, req'[t], Tables, Tables)
    BY <1>6, SameHalfway
  <1>8. Progress(t)'
    BY <1>2, <1>3, <1>4, <1>5, <1>7, ProgressNext
  <1>9. Shown' = settled'
    BY <1>3 DEF Shown, Idle, Alone
  <1> QED
    BY <1>2, <1>4, <1>8, <1>9

-----------------------------------------------------------------------------
\* The room that a request has found.
LEMMA RoomFound ==
    ASSUME Alone, SoleInv, NEW t \in Tasks, Idle(t), NEW n \in Nat, RoomFor(n)
    PROVE  \A b \in Ids : Tables.rows[b] # NoRow =>
             Tables.rows[b].count \in Int /\ Tables.rows[b].count + n <= MaxRef
  BY IdleTables, TableFacts DEF RoomFor

\* An upload arrives.
LEMMA UploadBegins ==
    ASSUME Alone, SoleInv, NEW t \in Tasks, NEW p \in Places, NEW h \in Hashes, NEW e \in Expiries,
           BeginUpload(t, p, h, e)
    PROVE  Progress(t)' /\ Shown' = Shown
  <1> DEFINE r == [NoReq EXCEPT !.op = "upload", !.at = p, !.hash = h, !.expires = e]
  <1>1. Begin(t, "find", r, NoDraft) /\ RoomFor(1) /\ Idle(t)
    BY DEF BeginUpload, Begin
  <1>2. "find" \in Steps \ {"idle"} /\ NoDraft \in {NoDraft, Begun} /\ e \in BOOLEAN
    BY ExpiriesAssumption DEF Steps
  <1>3. r \in Requests /\ r.op = "upload"
    BY <1>2, NoReqTyped DEF NoReq, Requests, Ops
  <1> HIDE DEF r
  <1>4. UploadFits("find", r, Tables, Tables)
    BY <1>1, <1>3, RoomFound DEF UploadFits, ReleaseSteps
  <1> QED
    BY <1>1, <1>2, <1>3, <1>4, BeginAdvances DEF Halfway

\* A link arrives.
LEMMA LinkBegins ==
    ASSUME Alone, SoleInv, NEW t \in Tasks, NEW p \in Places, NEW c \in Ids, NEW e \in Expiries,
           BeginLink(t, p, c, e)
    PROVE  Progress(t)' /\ Shown' = Shown
  <1> DEFINE r == [NoReq EXCEPT !.op = "link", !.at = p, !.id = c, !.expires = e]
  <1>1. Begin(t, "find_linked", r, NoDraft) /\ RoomFor(1) /\ Idle(t) /\ rows[c] # NoRow
    BY DEF BeginLink, Begin
  <1>2. "find_linked" \in Steps \ {"idle"} /\ NoDraft \in {NoDraft, Begun} /\ e \in BOOLEAN
    BY ExpiriesAssumption DEF Steps
  <1>3. r \in Requests /\ r.op = "link" /\ r.id = c
    BY <1>2, NoReqTyped DEF NoReq, Requests, Ops
  <1> HIDE DEF r
  <1>4. Tables.rows = rows
    BY DEF Tables
  <1>5. UploadFits("find_linked", r, Tables, Tables)
    BY <1>1, <1>3, <1>4, RoomFound DEF UploadFits, ReleaseSteps
  <1> QED
    BY <1>1, <1>2, <1>3, <1>5, BeginAdvances DEF Halfway

\* Nothing is deleted yet.
LEMMA DeletionBegins ==
    ASSUME NEW S \in TypedTables, NEW r \in Requests, r.op \in {"delete_item", "expire", "bulk_delete"},
           Doomed(r.op, S, DOMAIN r.todo),
           r.op # "bulk_delete" => \A i \in DOMAIN r.todo : Live(S.files, i) /\ r.todo[i] = S.files[i].blob
    PROVE  Halfway("next", r, S, S)
  <1>1. Retired(S, {}) = S
    <2>1. [i \in Items |-> IF i \in {} THEN Gone(S.files[i]) ELSE S.files[i]] = S.files
      BY TableFacts
    <2>2. [S EXCEPT !.files = S.files] = S
      BY TableFacts
    <2> QED
      BY <2>1, <2>2 DEF Retired
  <1>2. AfterRelease(S, Retired(S, {}), {}) = S
    BY <1>1, AfterNone
  <1>3. Pending("next", r) = DOMAIN r.todo
    BY DEF Pending
  <1>4. DeletedFits("next", r, S, S, {})
    BY <1>2, <1>3 DEF DeletedFits, ReleaseSteps
  <1>5. {} \in SUBSET Items
    OBVIOUS
  <1> QED
    BY <1>4, <1>5 DEF DeleteFits, Halfway

\* The deletion of an item arrives.
LEMMA DeleteItemBegins ==
    ASSUME Alone, SoleInv, NEW t \in Tasks, NEW i \in Items, BeginDeleteItem(t, i)
    PROVE  Progress(t)' /\ Shown' = Shown
  <1> DEFINE todo == Row(i, files[i].blob)
             r == [NoReq EXCEPT !.op = "delete_item", !.todo = todo]
  <1>1. Begin(t, "next", r, Begun) /\ Live(files, i) /\ Idle(t)
    BY DEF BeginDeleteItem, Begin
  <1>2. Tables \in TypedTables /\ Tables.files = files
    BY <1>1, IdleTables
  <1>3. /\ files[i] # NoFile /\ files[i].blob \in Ids \cup {NoId}
        /\ files[i].at \in Places /\ files[i].at.user \in Users
    BY <1>1, <1>2, TableFacts DEF Live, Places
  <1>4. todo \in Some(Items, Ids \cup {NoId}) /\ DOMAIN todo = {i} /\ todo[i] = files[i].blob
    <2>1. Row(i, files[i].blob) \in Some(Items, Ids \cup {NoId})
      BY <1>3, RowFacts
    <2> QED
      BY <2>1 DEF Row
  <1> HIDE DEF todo
  <1>5. r \in Requests
    BY <1>4, NoReqTyped DEF NoReq, Requests, Ops
  <1>6. r.op = "delete_item" /\ r.todo = todo
    BY DEF NoReq
  <1> HIDE DEF r
  <1>7. Doomed(r.op, Tables, DOMAIN r.todo)
    <2>1. Owned(Tables, {i}, files[i].at.user)
      BY <1>2, <1>3 DEF Owned
    <2> QED
      BY <1>3, <1>4, <1>6, <2>1 DEF Doomed
  <1>8. Halfway("next", r, Tables, Tables)
    <2>1. \A j \in DOMAIN r.todo : Live(Tables.files, j) /\ r.todo[j] = Tables.files[j].blob
      BY <1>1, <1>2, <1>4, <1>6
    <2> QED
      BY <1>2, <1>5, <1>6, <1>7, <2>1, DeletionBegins
  <1>9. Begun \in {NoDraft, Begun} /\ "next" \in Steps \ {"idle"}
    BY DEF Steps
  <1> QED
    BY <1>1, <1>5, <1>8, <1>9, BeginAdvances

\* The worker takes up what has expired.
LEMMA ExpireBegins ==
    ASSUME Alone, SoleInv, NEW t \in Tasks, BeginExpire(t)
    PROVE  Progress(t)' /\ Shown' = Shown
  <1> DEFINE due == {i \in Items : Live(files, i) /\ files[i].expires}
             todo == [i \in due |-> files[i].blob]
             r == [NoReq EXCEPT !.op = "expire", !.todo = todo]
  <1>1. Begin(t, "next", r, NoDraft) /\ Idle(t) /\ IInv
    BY DEF BeginExpire, Begin, SoleInv
  <1>2. Tables \in TypedTables /\ Tables.files = files
    BY <1>1, IdleTables
  <1>3. due \in SUBSET Items /\ \A i \in due : files[i] # NoFile /\ Live(files, i) /\ files[i].expires
    BY DEF Live
  <1>4. todo \in Some(Items, Ids \cup {NoId}) /\ DOMAIN todo = due /\ \A i \in due : todo[i] = files[i].blob
    <2> HIDE DEF due
    <2> QED
      BY <1>1, <1>3, BlobsRead
  <1> HIDE DEF todo, due
  <1>5. r \in Requests
    BY <1>4, NoReqTyped DEF NoReq, Requests, Ops
  <1>6. r.op = "expire" /\ r.todo = todo
    BY DEF NoReq
  <1> HIDE DEF r
  <1>7. Doomed(r.op, Tables, DOMAIN r.todo)
    BY <1>2, <1>3, <1>4, <1>6 DEF Doomed
  <1>8. Halfway("next", r, Tables, Tables)
    <2>1. \A j \in DOMAIN r.todo : Live(Tables.files, j) /\ r.todo[j] = Tables.files[j].blob
      BY <1>2, <1>3, <1>4, <1>6
    <2> QED
      BY <1>2, <1>5, <1>6, <1>7, <2>1, DeletionBegins
  <1>9. NoDraft \in {NoDraft, Begun} /\ "next" \in Steps \ {"idle"}
    BY DEF Steps
  <1> QED
    BY <1>1, <1>5, <1>8, <1>9, BeginAdvances

\* Nothing is moved yet.
LEMMA MovingBegins ==
    ASSUME NEW S \in TypedTables, NEW r \in Requests, r.op = "bulk_move", r.at \in Places,
           NEW u \in Users, Owned(S, DOMAIN r.todo, u)
    PROVE  Halfway("next", r, S, S)
  <1> DEFINE f == r.at.folder
             T == MovedTo(S, {}, f)
  <1>1. f \in Folders
    BY DEF Places
  <1>2. MovedTable(S, {}, f, T)
    <2> HIDE DEF T, f
    <2>1. T = MovedTo(S, {}, f) /\ {} \in SUBSET Items
      BY DEF T
    <2> QED
      BY <1>1, <2>1, MovedFacts
  <1> HIDE DEF T
  <1>3. /\ T = [files |-> T.files, rows |-> S.rows, objects |-> S.objects]
        /\ T.files \in [Items -> FileRows \cup {NoFile}] /\ \A i \in Items : T.files[i] = S.files[i]
    BY <1>2 DEF MovedTable
  <1>4. /\ S = [files |-> S.files, rows |-> S.rows, objects |-> S.objects]
        /\ S.files \in [Items -> FileRows \cup {NoFile}]
    BY TableFacts
  <1>5. T = S
    <2>1. T.files = S.files
      BY <1>3, <1>4
    <2> QED
      BY <1>3, <1>4, <2>1
  <1>6. Owned(S, {} \cup Pending("next", r), u) /\ {} \in SUBSET Items
    BY DEF Pending, Owned
  <1>7. MoveFits("next", r, S, S)
    BY <1>5, <1>6 DEF MoveFits, T
  <1> QED
    BY <1>7 DEF Halfway

\* Nothing is copied yet.
LEMMA CopyingBegins ==
    ASSUME NEW S \in TypedTables, NEW r \in Requests, r.op = "bulk_copy", NEW u \in Users, r.at.user = u,
           Owned(S, DOMAIN r.todo, u), Cardinality(DOMAIN r.todo) \in Nat,
           \A b \in Ids : S.rows[b] # NoRow =>
             S.rows[b].count \in Int /\ S.rows[b].count + Cardinality(DOMAIN r.todo) <= MaxRef
    PROVE  Halfway("next", r, S, S)
  <1>1. Cardinality({}) = 0 /\ {} \in SUBSET Items
    BY FS_EmptySet
  <1>2. CopiesOf(r, S, S, {}, u)
    BY DEF CopiesOf
  <1>3. S.rows = CopiedRows("next", r, S, S, {})
    <2> DEFINE R == CopiedRows("next", r, S, S, {})
    <2>1. ASSUME NEW b \in Ids
          PROVE  Gain("next", r, S, {}, b) = 0
      <3>1. CopiesWith(S, {}, b) = {}
        BY DEF CopiesWith
      <3>2. Uncounted("next", r, b) = 0
        BY DEF Uncounted
      <3>3. Gain("next", r, S, {}, b) = Cardinality(CopiesWith(S, {}, b)) - Uncounted("next", r, b)
        BY <1>1, GainIs
      <3> QED
        BY <1>1, <3>1, <3>2, <3>3
    <2>2. /\ R \in [Ids -> StorageRows \cup {NoRow}]
          /\ \A b \in Ids : S.rows[b] = NoRow => R[b] = NoRow
          /\ \A b \in Ids : S.rows[b] # NoRow => R[b] = WithCount(S.rows[b], S.rows[b].count + Gain("next", r, S, {}, b))
      <3>1. R = CopiedRows("next", r, S, S, {})
        OBVIOUS
      <3> HIDE DEF R
      <3>2. R \in [Ids -> StorageRows \cup {NoRow}]
        BY <1>1, <3>1, CopiedRowFacts
      <3>3. \A b \in Ids : S.rows[b] = NoRow => R[b] = NoRow
        BY <1>1, <3>1, CopiedRowFacts
      <3>4. \A b \in Ids : S.rows[b] # NoRow =>
              R[b] = WithCount(S.rows[b], S.rows[b].count + Gain("next", r, S, {}, b))
        BY <1>1, <3>1, CopiedRowFacts
      <3> QED
        BY <3>2, <3>3, <3>4
    <2> HIDE DEF R
    <2>3. \A b \in Ids : R[b] = S.rows[b]
      <3>1. ASSUME NEW b \in Ids, S.rows[b] # NoRow
            PROVE  R[b] = S.rows[b]
        <4>1. S.rows[b] \in StorageRows /\ S.rows[b].count \in Int
          BY <3>1, TableFacts
        <4>2. S.rows[b].count + Gain("next", r, S, {}, b) = S.rows[b].count
          BY <2>1, <4>1
        <4>3. R[b] = WithCount(S.rows[b], S.rows[b].count)
          BY <2>2, <3>1, <4>2
        <4> QED
          BY <4>1, <4>3, RowCounted
      <3> QED
        BY <2>2, <3>1
    <2>4. S.rows \in [Ids -> StorageRows \cup {NoRow}]
      BY TableFacts
    <2>5. R = S.rows
      BY <2>2, <2>3, <2>4
    <2> QED
      BY <2>5 DEF R
  <1>4. CopyHands("next", r, S, S, u)
    BY DEF CopyHands
  <1>5. CopyRoom("next", r, S, {})
    BY <1>1 DEF CopyRoom
  <1>6. CopiedFits("next", r, S, S, {}, u)
    BY <1>2, <1>3, <1>4, <1>5, CopiedParts
  <1> QED
    BY <1>1, <1>6, CopiesOn

\* A bulk operation arrives.
LEMMA BulkBegins ==
    ASSUME Alone, SoleInv, NEW t \in Tasks, NEW op \in BulkOps, NEW u \in Users, NEW D,
           NEW p \in Places \cup {NoPlace}, op # "bulk_delete" => p \in Places /\ p.user = u,
           BeginBulk(t, op, u, D, p)
    PROVE  Progress(t)' /\ Shown' = Shown
  <1> DEFINE todo == [i \in D |-> files[i].blob]
             r == [NoReq EXCEPT !.op = op, !.lock = u, !.at = p, !.todo = todo]
  <1>1. /\ Begin(t, "next", r, Begun) /\ Idle(t) /\ D \in SUBSET Items /\ IInv
        /\ \A i \in D : files[i] # NoFile /\ files[i].at.user = u
        /\ op = "bulk_copy" => RoomFor(Cardinality(D))
    BY DEF BeginBulk, OwnedBy, Begin, SoleInv
  <1>2. Tables \in TypedTables /\ Tables.files = files
    BY <1>1, IdleTables
  <1>3. todo \in Some(Items, Ids \cup {NoId}) /\ DOMAIN todo = D
    BY <1>1, BlobsRead
  <1> HIDE DEF todo
  <1>4. op \in Ops \cup {"none"}
    BY DEF Ops
  <1>5. r \in Requests
    BY <1>3, <1>4, NoReqTyped DEF NoReq, Requests
  <1>6. r.op = op /\ r.at = p /\ r.todo = todo
    BY DEF NoReq
  <1> HIDE DEF r
  <1>7. Owned(Tables, DOMAIN r.todo, u)
    BY <1>1, <1>2, <1>3, <1>6 DEF Owned
  <1>8. CASE op = "bulk_delete"
    <2>1. Doomed(r.op, Tables, DOMAIN r.todo)
      BY <1>6, <1>7, <1>8 DEF Doomed
    <2> QED
      <3>1. Halfway("next", r, Tables, Tables)
        BY <1>2, <1>5, <1>6, <1>8, <2>1, DeletionBegins
      <3>2. Begun \in {NoDraft, Begun} /\ "next" \in Steps \ {"idle"}
        BY DEF Steps
      <3> QED
        BY <1>1, <1>5, <3>1, <3>2, BeginAdvances
  <1>9. CASE op # "bulk_delete"
    <2>1. Cardinality(D) \in Nat
      BY <1>1, CardMono
    <2>2. CASE op = "bulk_move"
      <3>1. Halfway("next", r, Tables, Tables)
        BY <1>2, <1>5, <1>6, <1>7, <1>9, <2>2, MovingBegins
      <3>2. Begun \in {NoDraft, Begun} /\ "next" \in Steps \ {"idle"}
        BY DEF Steps
      <3> QED
        BY <1>1, <1>5, <3>1, <3>2, BeginAdvances
    <2>3. CASE op = "bulk_copy"
      <3>1. \A b \in Ids : Tables.rows[b] # NoRow =>
              Tables.rows[b].count \in Int /\ Tables.rows[b].count + Cardinality(DOMAIN r.todo) <= MaxRef
        BY <1>1, <1>3, <1>6, <2>1, <2>3, RoomFound
      <3>2. Halfway("next", r, Tables, Tables)
        BY <1>2, <1>3, <1>5, <1>6, <1>7, <1>9, <2>1, <2>3, <3>1, CopyingBegins
      <3>3. Begun \in {NoDraft, Begun} /\ "next" \in Steps \ {"idle"}
        BY DEF Steps
      <3> QED
        BY <1>1, <1>5, <3>2, <3>3, BeginAdvances
    <2> QED
      BY <1>9, <2>2, <2>3 DEF BulkOps
  <1> QED
    BY <1>8, <1>9

\* A rename arrives.
LEMMA RenameBegins ==
    ASSUME Alone, SoleInv, NEW t \in Tasks, NEW i \in Items, NEW p \in Places, BeginRename(t, i, p)
    PROVE  Progress(t)' /\ Shown' = Shown
  <1> DEFINE c == files[i].blob
             r == [NoReq EXCEPT !.op = "rename", !.at = p, !.item = i, !.id = c]
  <1>1. Begin(t, "find_target", r, NoDraft) /\ Idle(t) /\ Live(files, i) /\ p.user = files[i].at.user
    BY DEF BeginRename, Begin
  <1>2. Tables \in TypedTables /\ Tables.files = files
    BY <1>1, IdleTables
  <1>3. c \in Ids \cup {NoId}
    BY <1>1, <1>2, TableFacts DEF Live
  <1>4. r \in Requests
    BY <1>3, NoReqTyped DEF NoReq, Requests, Ops
  <1>5. /\ r.op = "rename" /\ r.at = p /\ r.item = i /\ r.id = c
    BY DEF NoReq
  <1> HIDE DEF r
  <1>6. RenameFits("find_target", r, Tables, Tables)
    BY <1>1, <1>2, <1>5 DEF RenameFits, ReleaseSteps
  <1>7. NoDraft \in {NoDraft, Begun} /\ "find_target" \in Steps \ {"idle"}
    BY DEF Steps
  <1> QED
    BY <1>1, <1>4, <1>6, <1>7, BeginAdvances DEF Halfway

\* A scan has found a threat.
LEMMA ReportBegins ==
    ASSUME Alone, SoleInv, NEW t \in Tasks, NEW c \in Ids, BeginReport(t, c)
    PROVE  Progress(t)' /\ Shown' = Shown
  <1> DEFINE r == [NoReq EXCEPT !.op = "scan", !.id = c]
  <1>1. Begin(t, "report", r, NoDraft) /\ Idle(t) /\ rows[c] # NoRow /\ ~rows[c].infected
    BY DEF BeginReport, Begin
  <1>2. Tables.rows = rows
    BY DEF Tables
  <1>3. r \in Requests /\ r.op = "scan" /\ r.id = c
    BY NoReqTyped DEF NoReq, Requests, Ops
  <1> HIDE DEF r
  <1>4. ScanFits("report", r, Tables, Tables)
    BY <1>1, <1>2, <1>3 DEF ScanFits
  <1>5. NoDraft \in {NoDraft, Begun} /\ "report" \in Steps \ {"idle"}
    BY DEF Steps
  <1> QED
    BY <1>1, <1>3, <1>4, <1>5, BeginAdvances DEF Halfway

\* The worker takes up an infected content.
LEMMA PurgeBegins ==
    ASSUME Alone, SoleInv, NEW t \in Tasks, NEW c \in Ids, BeginPurge(t, c)
    PROVE  Progress(t)' /\ Shown' = Shown
  <1> DEFINE key == KeyOf(rows[c])
             r == [NoReq EXCEPT !.op = "purge", !.id = c, !.key = key]
  <1>1. Begin(t, "purge_object", r, NoDraft) /\ Idle(t) /\ rows[c] # NoRow /\ rows[c].infected /\ IInv
    BY DEF BeginPurge, Begin, SoleInv
  <1>2. Tables.rows = rows
    BY DEF Tables
  <1>3. key \in Keys
    BY <1>1, ReqTyped DEF StorageRows, KeyOf, Keys
  <1>4. r \in Requests
    BY <1>3, NoReqTyped DEF NoReq, Requests, Ops
  <1>5. r.op = "purge" /\ r.id = c /\ r.key = key
    BY DEF NoReq
  <1> HIDE DEF r
  <1>6. PurgeFits("purge_object", r, Tables, Tables)
    BY <1>1, <1>2, <1>5 DEF PurgeFits
  <1>7. NoDraft \in {NoDraft, Begun} /\ "purge_object" \in Steps \ {"idle"}
    BY DEF Steps
  <1> QED
    BY <1>1, <1>4, <1>6, <1>7, BeginAdvances DEF Halfway

\* Every request that arrives has done nothing yet, and shows nothing.
LEMMA ArriveAdvances ==
    ASSUME Alone, SoleInv, NEW t \in Tasks, Arrive(t)
    PROVE  Progress(t)' /\ Shown' = Shown
  <1>1. CASE \E p \in Places, h \in Hashes, e \in Expiries : BeginUpload(t, p, h, e)
    BY <1>1, UploadBegins
  <1>2. CASE \E p \in Places, b \in Ids, e \in Expiries : BeginLink(t, p, b, e)
    BY <1>2, LinkBegins
  <1>3. CASE \E i \in Items : BeginDeleteItem(t, i)
    BY <1>3, DeleteItemBegins
  <1>4. CASE \E u \in Users : \E D \in SUBSET OwnedBy(u) : BeginBulk(t, "bulk_delete", u, D, NoPlace)
    <2>1. "bulk_delete" \in BulkOps /\ NoPlace \in Places \cup {NoPlace}
      BY DEF BulkOps
    <2> QED
      BY <1>4, <2>1, BulkBegins
  <1>5. CASE \E p \in Places : \E D \in SUBSET OwnedBy(p.user), op \in {"bulk_move", "bulk_copy"} :
               BeginBulk(t, op, p.user, D, p)
    <2>1. PICK p \in Places : \E D \in SUBSET OwnedBy(p.user), op \in {"bulk_move", "bulk_copy"} :
               BeginBulk(t, op, p.user, D, p)
      BY <1>5
    <2>2. PICK D \in SUBSET OwnedBy(p.user), op \in {"bulk_move", "bulk_copy"} : BeginBulk(t, op, p.user, D, p)
      BY <2>1
    <2>3. op \in BulkOps /\ p \in Places \cup {NoPlace} /\ p.user \in Users
      BY DEF BulkOps, Places
    <2> QED
      BY <2>2, <2>3, BulkBegins
  <1>6. CASE BeginExpire(t)
    BY <1>6, ExpireBegins
  <1>7. CASE \E i \in Items, p \in Places : BeginRename(t, i, p)
    BY <1>7, RenameBegins
  <1>8. CASE \E b \in Ids : BeginReport(t, b)
    BY <1>8, ReportBegins
  <1>9. CASE \E b \in Ids : BeginPurge(t, b)
    BY <1>9, PurgeBegins
  <1> QED
    BY <1>1, <1>2, <1>3, <1>4, <1>5, <1>6, <1>7, <1>8, <1>9 DEF Arrive

-----------------------------------------------------------------------------
\* A request with a statement to run is in progress.
LEMMA WorkBusy ==
    ASSUME NEW t \in Tasks, Work(t)
    PROVE  ~Idle(t)
  <1>1. \E s \in Steps \ {"idle"} : At(t, s)
    BY DEF Work, FindContent, FindLinked, StoreObject, InsertRow, Refind, Raise, FindFile, UpdateFile, InsertFile,
           ReadCount, Lower, DeleteObject, DeleteRow, NextItem, Commit, SoftDelete, InsertCopy, CopyCount, MoveFile,
           FindTarget, MergeInto, Retire, RenameFile, Report, PurgeObject, PurgeFiles, PurgeRow, Steps
  <1> QED
    BY <1>1 DEF At, Idle

\* One step of the only request keeps what is known of it, and is one of StorageLifecycle or shows
\* nothing.
LEMMA SoleStep ==
    ASSUME Alone, SoleInv, [Next]_vars
    PROVE  SoleInv' /\ (Lifecycle!Next \/ Shown' = Shown)
  <1>1. IInv'
    BY NextIInv DEF SoleInv
  <1>2. ASSUME NEW t \in Tasks, Arrive(t) \/ Work(t) \/ AbortDeadlocked(t) \/ Fail(t)
        PROVE  (\A u \in Tasks : Progress(u)') /\ (Lifecycle!Next \/ Shown' = Shown)
    <2>1. CASE Arrive(t)
      <3>1. Progress(t)' /\ Shown' = Shown
        BY <2>1, ArriveAdvances
      <3>2. ASSUME NEW u \in Tasks
            PROVE  Progress(u)'
        <4>1. u = t
          BY DEF Alone
        <4> QED
          BY <3>1, <4>1
      <3> QED
        BY <3>1, <3>2
    <2>2. CASE Work(t)
      <3>1. /\ WellFormed(settled) /\ Covered(settled) /\ Shown = settled
        BY <2>2, WorkBusy, BusyFacts
      <3>2. Progress(t)' /\ (Lifecycle!Next \/ Shown' = Shown)
        <4>1. CASE Onward(t)
          <5>1. /\ step'[t] # "idle" /\ settled' = settled
                /\ draft'[t].open => files' = settled.files /\ rows' = settled.rows
                /\ Halfway(step'[t], req'[t], settled, Now(t)')
            BY <4>1 DEF Onward
          <5>2. Progress(t)'
            BY <3>1, <5>1, ProgressNext
          <5>3. Shown' = settled'
            BY <5>1 DEF Shown, Idle
          <5> QED
            BY <3>1, <5>1, <5>2, <5>3
        <4>2. CASE Ended(t)
          BY <4>2, ProgressNext DEF Ended
        <4> QED
          BY <2>2, <4>1, <4>2, WorkAdvances
      <3>3. ASSUME NEW u \in Tasks
            PROVE  Progress(u)'
        <4>1. u = t
          BY DEF Alone
        <4> QED
          BY <3>2, <4>1
      <3> QED
        BY <3>2, <3>3
    <2> QED
      BY <1>2, <2>1, <2>2, NothingElse
  <1>3. CASE UNCHANGED vars
    <2>1. /\ files' = files /\ rows' = rows /\ objects' = objects /\ draft' = draft /\ step' = step
          /\ req' = req /\ settled' = settled
      BY <1>3 DEF vars
    <2>2. Shown' = Shown
      BY <2>1 DEF Shown, Idle
    <2>3. ASSUME NEW t \in Tasks
          PROVE  Progress(t)'
      <3>1. Now(t)' = Now(t)
        BY <2>1 DEF Now, Files, Rows
      <3>2. Progress(t)
        BY DEF SoleInv
      <3> QED
        BY <2>1, <3>1, <3>2, ProgressNext DEF Progress, Idle
    <2> QED
      BY <1>1, <2>2, <2>3 DEF SoleInv
  <1> QED
    BY <1>1, <1>2, <1>3 DEF Next, SoleInv

\* At the start no request is in progress.
LEMMA InitSole == Init => SoleInv
  BY InitIInv DEF SoleInv, Progress, Init, Idle

\* At the start both are empty.
LEMMA InitShown == Init => Lifecycle!Init
  <1> SUFFICES ASSUME Init
               PROVE  Lifecycle!Init
    OBVIOUS
  <1>1. Shown = [files |-> files, rows |-> rows, objects |-> objects]
    BY DEF Init, Shown, Idle
  <1>2. /\ Shown.objects = {} /\ \A i \in Items : Shown.files[i] = NoFile
        /\ \A b \in Ids : Shown.rows[b] = NoRow
    BY <1>1 DEF Init
  <1>3. \A i \in Items : ShownFile(i) = NoFile
    BY <1>2 DEF ShownFile
  <1>4. \A h \in Hashes : ShownRow(h) = NoRow
    <2>1. \A h : {b \in Ids : Shown.rows[b] # NoRow /\ Shown.rows[b].hash = h} = {}
      BY <1>2
    <2> QED
      BY <2>1 DEF ShownRow
  <1> QED
    BY <1>2, <1>3, <1>4 DEF Lifecycle!Init

\* A step of which nothing shows stutters.
LEMMA ShownStays ==
    ASSUME Shown' = Shown
    PROVE  UNCHANGED Lifecycle!vars
  <1>1. \A i : ShownFile(i)' = ShownFile(i)
    BY DEF ShownFile
  <1>2. \A h : ShownRow(h)' = ShownRow(h)
    BY DEF ShownRow
  <1> QED
    BY <1>1, <1>2 DEF Lifecycle!vars

\* Requests that do not overlap, and do not fail, are the whole requests of StorageLifecycle:
\* statement by statement, each of them brings the tables and the bucket to what its one step
\* does there, and nothing of it is seen before (file_service, cleanup and bulk handlers).
THEOREM StorageTasksRefine ==
    ASSUME MaxFaults = 0, \A t, u \in Tasks : t = u
    PROVE  Spec => RefinesLifecycle
  <1>1. SoleInv /\ [Next]_vars => SoleInv'
    BY SoleStep DEF Alone
  <1>2. SoleInv /\ [Next]_vars => [Lifecycle!Next]_(Lifecycle!vars)
    BY SoleStep, ShownStays DEF Alone
  <1> QED
    BY <1>1, <1>2, InitSole, InitShown, PTL DEF Spec, RefinesLifecycle, Lifecycle!Spec
=============================================================================
