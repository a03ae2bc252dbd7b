------------------------- MODULE StorageTasksProofs -------------------------
(***************************************************************************)
(* Requests that overlap, for any numbers of requests, tasks, contents and *)
(* files, and any failures: they spoil counts and objects only of contents *)
(* that two of them, or one that failed, had in hand.  A request that has  *)
(* the server for itself deletes no object that a live file refers to.     *)
(***************************************************************************)
EXTENDS StorageTasks, TLAPS, FiniteSetTheorems

Some(keys, values) == UNION {[K -> values] : K \in SUBSET keys}

Transactions == [open : BOOLEAN, files : Some(Items, FileRows),
                 rows : Some(Ids, StorageRows \cup {NoRow})]

Requests == [op : Ops \cup {"none"}, lock : Users \cup {NoUser}, at : Places \cup {NoPlace},
             hash : Hashes \cup {NoHash}, expires : BOOLEAN, id : Ids \cup {NoId},
             old : Ids \cup {NoId}, item : Items \cup {NoItem}, target : Items \cup {NoItem},
             count : Int, key : Keys \cup {NoKey}, todo : Some(Items, Ids \cup {NoId}),
             touched : SUBSET Hashes]

TablesTyped ==
    /\ files \in [Items -> FileRows \cup {NoFile}]
    /\ rows \in [Ids -> StorageRows \cup {NoRow}]
    /\ objects \subseteq Keys
    /\ draft \in [Tasks -> Transactions]

Typed ==
    /\ TablesTyped
    /\ step \in [Tasks -> Steps]
    /\ req \in [Tasks -> Requests]
    /\ spent \in [requests : Nat, faults : Nat]
    /\ disturbed \subseteq Hashes

\* One request at a time, and none that fails.
Alone == MaxFaults = 0 /\ \A t, u \in Tasks : t = u

\* The contents that requests may have spoilt.
Exempt == IF Alone THEN {} ELSE disturbed

-----------------------------------------------------------------------------
\* Which statements a request runs, and with what in its hands.
StepFits(t) ==
    LET s == step[t]
        r == req[t]
    IN  /\ s = "idle" => r = NoReq
        /\ r.op = "none" <=> s = "idle"
        /\ ~draft[t].open => draft[t] = NoDraft
        /\ draft[t].open <=> r.op \in BulkOps \cup {"delete_item"}
        /\ s \in {"find", "store", "insert_row", "refind"} => r.op = "upload" /\ r.hash \in Hashes
        /\ s = "find_linked" => r.op = "link" /\ r.id \in Ids
        /\ s = "raise" => r.op \in {"upload", "link", "bulk_copy"} /\ r.id \in Ids
        /\ s \in {"find_file", "update_file", "insert_file"} => r.op \in {"upload", "link"} /\ r.id \in Ids
        /\ s \in {"update_file", "merge"} => r.target \in Items
        /\ s \in {"read_count", "lower", "delete_object", "delete_row"} =>
             r.op \in {"upload", "link", "rename"} \cup LoopOps /\ r.id \in Ids
        /\ s = "next" => r.op \in LoopOps
        /\ s = "soft_delete" => r.op \in {"delete_item", "expire", "bulk_delete"} /\ r.item \in Items \ DOMAIN r.todo
        /\ s \in {"insert_copy", "copy_count"} => r.op = "bulk_copy"
        /\ s = "copy_count" => r.id \in Ids /\ \E i \in DOMAIN draft[t].files : draft[t].files[i].blob = r.id
        /\ s = "insert_copy" => r.item \in Items
        /\ s = "move_file" => r.op = "bulk_move" /\ r.item \in Items
        /\ s \in {"find_target", "merge", "retire", "rename_file"} => r.op = "rename" /\ r.item \in Items
        /\ s = "report" => r.op = "scan" /\ r.id \in Ids
        /\ s \in {"purge_object", "purge_files", "purge_row"} => r.op = "purge" /\ r.id \in Ids
        /\ s \in {"delete_object", "purge_object"} => r.key \in Keys /\ r.key[1] \in r.touched
        /\ r.op \notin LoopOps => DOMAIN r.todo = {}
        /\ r.op \in {"upload", "link", "rename", "bulk_move", "bulk_copy"} => r.at \in Places
        /\ draft[t].open /\ s \in {"delete_object", "delete_row"} =>
             r.id \in DOMAIN draft[t].rows /\ draft[t].rows[r.id] # NoRow

\* What a request has in hand it is known to have touched; scans count nothing.
HandsKnown(t) ==
    /\ Contents(req[t]) \subseteq req[t].touched
    /\ req[t].op = "scan" => req[t].touched = {}

\* Two requests that have touched one content have disturbed it.
MeetingsRecorded ==
    \A t, u \in Tasks : t # u => req[t].touched \cap req[u].touched \subseteq disturbed

\* storage_files.hash is UNIQUE.
OneRowPerHash ==
    \A b, c \in Ids : rows[b] # NoRow /\ rows[c] # NoRow /\ rows[b].hash = rows[c].hash => b = c

\* A transaction changes no hash and no name, and gives no file to a content that is not known.
DraftKnown(t, known) ==
    /\ \A b \in DOMAIN draft[t].rows :
         /\ rows[b] # NoRow /\ rows[b].hash \in known
         /\ draft[t].rows[b] # NoRow => KeyOf(draft[t].rows[b]) = KeyOf(rows[b])
    /\ \A i \in DOMAIN draft[t].files :
         LET row == draft[t].files[i]
         IN  row.live /\ row.blob # NoId /\ rows[row.blob].hash \notin known =>
                 Live(files, i) /\ files[i].blob = row.blob

\* ... and it has locked what it has written.
DraftFits(t) ==
    /\ DraftKnown(t, req[t].touched)
    /\ \A u \in Tasks \ {t} :
         /\ DOMAIN draft[t].files \cap DOMAIN draft[u].files = {}
         /\ DOMAIN draft[t].rows \cap DOMAIN draft[u].rows = {}

\* The foreign key, in the tables and in what the transactions have written.
Linked ==
    /\ \A i \in Items : files[i] # NoFile /\ files[i].blob # NoId => rows[files[i].blob] # NoRow
    /\ \A t \in Tasks : \A i \in DOMAIN draft[t].files :
         draft[t].files[i].blob # NoId => rows[draft[t].files[i].blob] # NoRow
    /\ \A u \in Tasks : \A b \in DOMAIN draft[u].rows : draft[u].rows[b] = NoRow =>
         /\ \A i \in Items : files[i] # NoFile /\ files[i].blob = b => i \in DOMAIN draft[u].files
         /\ \A t \in Tasks : \A i \in DOMAIN draft[t].files : draft[t].files[i].blob # b

-----------------------------------------------------------------------------
\* The items whose reference to b a request is about to release, as it has read ...
Entries(r, b) == IF r.op \in {"delete_item", "expire"} THEN {i \in DOMAIN r.todo : r.todo[i] = b} ELSE {}

\* ... and the one it is about to take from b.
Leaving(s, r, b) ==
    {i \in Items :
        \/ s \in {"soft_delete", "find_target", "merge", "retire"} /\ r.id = b /\ i = r.item
        \/ s \in {"update_file", "merge"} /\ r.old = b /\ r.id # b /\ i = r.target}

\* By how much the count of b is ahead of the references.
Ahead(s, r, b) ==
    IF /\ s \in {"soft_delete", "find_file", "update_file", "insert_file", "read_count", "lower",
                 "find_target", "merge"}
       /\ r.id = b
    THEN 1
    ELSE IF s \in {"update_file", "merge", "retire"} /\ r.old = b /\ r.id # b THEN 1
    ELSE IF (s = "copy_count" \/ (s = "raise" /\ r.op = "bulk_copy")) /\ r.id = b THEN -1
    ELSE 0

Covers(s, r, fs, n, b) ==
    n >= Cardinality(References(fs, b) \ (Entries(r, b) \cup Leaving(s, r, b)))
         + Cardinality(Entries(r, b)) + Ahead(s, r, b)

\* What a request at statement s with local variables r knows of the count of row b,
\* if it alone has its content in hand.
CountsAs(s, r, fs, rs, b) ==
    rs[b] # NoRow =>
        /\ Covers(s, r, fs, rs[b].count, b)
        /\ r.id = b =>
             /\ s = "raise" => r.count = rs[b].count + 1
             /\ s = "lower" => r.count = rs[b].count - 1
             /\ s = "delete_object" => rs[b].count <= 0

CountFits(t, b) == CountsAs(step[t], req[t], Files(t), Rows(t), b)

Counted ==
    \A b \in Ids : rows[b] # NoRow /\ rows[b].hash \notin Exempt =>
        /\ (\A t \in Tasks : rows[b].hash \notin req[t].touched) =>
             rows[b].count >= Cardinality(References(files, b))
        /\ \A t \in Tasks : rows[b].hash \in req[t].touched => CountFits(t, b)

\* The request that is to delete row b has deleted its bytes.
Missing(t, b) ==
    \/ Rows(t)[b] = NoRow
    \/ req[t].id = b /\ step[t] \in {"delete_row", "purge_files", "purge_row"}

\* The bytes of every content are there, or that.
BytesKept ==
    \A b \in Ids : rows[b] # NoRow /\ rows[b].hash \notin disturbed =>
        KeyOf(rows[b]) \in objects \/ \E t \in Tasks : Missing(t, b)

\* The bytes of a row to insert are there, the key to delete is that of the row in hand.
KeysFit(t) ==
    /\ step[t] = "insert_row" /\ req[t].hash \notin disturbed =>
         <<req[t].hash, req[t].at.name>> \in objects
    /\ step[t] \in {"delete_object", "purge_object"} /\ req[t].key[1] \notin Exempt =>
         rows[req[t].id] # NoRow /\ KeyOf(rows[req[t].id]) = req[t].key

\* A request that has the server for itself can be rolled back, and what it renames is there.
AloneFits(t) ==
    Alone =>
        /\ draft[t].open => \A b \in Ids : rows[b] # NoRow =>
                               rows[b].count >= Cardinality(References(files, b))
        /\ step[t] \in {"find_target", "merge", "retire", "rename_file"} => files[req[t].item] # NoFile

IInv ==
    /\ Typed
    /\ \A t \in Tasks : StepFits(t) /\ HandsKnown(t) /\ DraftFits(t) /\ KeysFit(t) /\ AloneFits(t)
    /\ MeetingsRecorded /\ OneRowPerHash /\ Linked
    /\ Counted /\ BytesKept

-----------------------------------------------------------------------------
\* Tables of some rows.
LEMMA SomeFacts ==
    ASSUME NEW K, NEW V, NEW f \in Some(K, V)
    PROVE  DOMAIN f \in SUBSET K /\ f \in [DOMAIN f -> V]
  BY DEF Some

\* A function on some keys is such a table.
LEMMA SomeIntro ==
    ASSUME NEW K, NEW V, NEW D \in SUBSET K, NEW f \in [D -> V]
    PROVE  f \in Some(K, V)
  BY DEF Some

\* The empty table is one.
LEMMA EmptySome ==
    ASSUME NEW K, NEW V
    PROVE  <<>> \in Some(K, V) /\ DOMAIN <<>> = {}
  <1>1. DOMAIN <<>> = {} /\ <<>> \in [{} -> V]
    OBVIOUS
  <1> QED
    BY <1>1, SomeIntro

\* So is a table of one row.
LEMMA RowFacts ==
    ASSUME NEW K, NEW V, NEW k \in K, NEW v \in V
    PROVE  Row(k, v) \in Some(K, V) /\ DOMAIN Row(k, v) = {k} /\ Row(k, v)[k] = v
  <1>1. Row(k, v) \in [{k} -> V]
    BY DEF Row
  <1> QED
    BY <1>1, SomeIntro DEF Row

\* Tables of some rows written over one another.
LEMMA OverSome ==
    ASSUME NEW K, NEW V, NEW f \in Some(K, V), NEW g \in Some(K, V)
    PROVE  Over(f, g) \in Some(K, V)
  <1>1. DOMAIN f \in SUBSET K /\ f \in [DOMAIN f -> V] /\ DOMAIN g \in SUBSET K /\ g \in [DOMAIN g -> V]
    BY SomeFacts
  <1>2. Over(f, g) \in [DOMAIN f \cup DOMAIN g -> V]
    BY <1>1 DEF Over
  <1> QED
    BY <1>1, <1>2, SomeIntro

\* What is written is read, and the rest stays.
LEMMA OverDomain ==
    ASSUME NEW f, NEW g
    PROVE  /\ DOMAIN Over(f, g) = DOMAIN f \cup DOMAIN g
           /\ \A k \in DOMAIN f : Over(f, g)[k] = f[k]
           /\ \A k \in DOMAIN g \ DOMAIN f : Over(f, g)[k] = g[k]
  BY DEF Over

\* Some rows written over a whole table.
LEMMA OverTable ==
    ASSUME NEW K, NEW V, NEW W, V \subseteq W, NEW f \in Some(K, V), NEW g \in [K -> W]
    PROVE  Over(f, g) \in [K -> W]
  <1>1. DOMAIN f \in SUBSET K /\ f \in [DOMAIN f -> V]
    BY SomeFacts
  <1> QED
    BY <1>1 DEF Over

\* Nothing written over a table.
LEMMA OverNothing ==
    ASSUME NEW K, NEW W, NEW g \in [K -> W], NEW f, DOMAIN f = {}
    PROVE  Over(f, g) = g
  BY DEF Over

\* What a task sees is typed as the tables are.
LEMMA ViewFacts ==
    ASSUME TablesTyped, NEW t \in Tasks
    PROVE  /\ draft[t] \in Transactions
           /\ DOMAIN draft[t].files \in SUBSET Items /\ draft[t].files \in [DOMAIN draft[t].files -> FileRows]
           /\ DOMAIN draft[t].rows \in SUBSET Ids
           /\ draft[t].rows \in [DOMAIN draft[t].rows -> StorageRows \cup {NoRow}]
           /\ Files(t) \in [Items -> FileRows \cup {NoFile}]
           /\ Rows(t) \in [Ids -> StorageRows \cup {NoRow}]
           /\ \A i \in DOMAIN draft[t].files : Files(t)[i] = draft[t].files[i]
           /\ \A i \in Items \ DOMAIN draft[t].files : Files(t)[i] = files[i]
           /\ \A b \in DOMAIN draft[t].rows : Rows(t)[b] = draft[t].rows[b]
           /\ \A b \in Ids \ DOMAIN draft[t].rows : Rows(t)[b] = rows[b]
  <1>1. /\ draft[t] \in Transactions
        /\ files \in [Items -> FileRows \cup {NoFile}] /\ rows \in [Ids -> StorageRows \cup {NoRow}]
    BY DEF TablesTyped
  <1>2. draft[t].files \in Some(Items, FileRows) /\ draft[t].rows \in Some(Ids, StorageRows \cup {NoRow})
    BY <1>1 DEF Transactions
  <1>3. /\ DOMAIN draft[t].files \in SUBSET Items /\ draft[t].files \in [DOMAIN draft[t].files -> FileRows]
        /\ DOMAIN draft[t].rows \in SUBSET Ids
        /\ draft[t].rows \in [DOMAIN draft[t].rows -> StorageRows \cup {NoRow}]
    BY <1>2, SomeFacts
  <1>4. Files(t) \in [Items -> FileRows \cup {NoFile}] /\ Rows(t) \in [Ids -> StorageRows \cup {NoRow}]
    BY <1>1, <1>2, OverTable DEF Files, Rows
  <1>5. DOMAIN files = Items /\ DOMAIN rows = Ids
    BY <1>1
  <1>6. /\ \A i \in DOMAIN draft[t].files : Files(t)[i] = draft[t].files[i]
        /\ \A i \in Items \ DOMAIN draft[t].files : Files(t)[i] = files[i]
    BY <1>3, <1>5, OverDomain DEF Files
  <1>7. /\ \A b \in DOMAIN draft[t].rows : Rows(t)[b] = draft[t].rows[b]
        /\ \A b \in Ids \ DOMAIN draft[t].rows : Rows(t)[b] = rows[b]
    BY <1>3, <1>5, OverDomain DEF Rows
  <1> QED
    BY <1>1, <1>3, <1>4, <1>6, <1>7

\* The same after a step.
LEMMA ViewNext ==
    ASSUME TablesTyped', NEW t \in Tasks
    PROVE  /\ draft'[t] \in Transactions
           /\ DOMAIN draft'[t].files \in SUBSET Items /\ draft'[t].files \in [DOMAIN draft'[t].files -> FileRows]
           /\ DOMAIN draft'[t].rows \in SUBSET Ids
           /\ draft'[t].rows \in [DOMAIN draft'[t].rows -> StorageRows \cup {NoRow}]
           /\ Files(t)' \in [Items -> FileRows \cup {NoFile}]
           /\ Rows(t)' \in [Ids -> StorageRows \cup {NoRow}]
           /\ \A i \in DOMAIN draft'[t].files : Files(t)'[i] = draft'[t].files[i]
           /\ \A i \in Items \ DOMAIN draft'[t].files : Files(t)'[i] = files'[i]
           /\ \A b \in DOMAIN draft'[t].rows : Rows(t)'[b] = draft'[t].rows[b]
           /\ \A b \in Ids \ DOMAIN draft'[t].rows : Rows(t)'[b] = rows'[b]
  <1>1. /\ draft'[t] \in Transactions
        /\ files' \in [Items -> FileRows \cup {NoFile}] /\ rows' \in [Ids -> StorageRows \cup {NoRow}]
    BY DEF TablesTyped
  <1>2. draft'[t].files \in Some(Items, FileRows) /\ draft'[t].rows \in Some(Ids, StorageRows \cup {NoRow})
    BY <1>1 DEF Transactions
  <1>3. /\ DOMAIN draft'[t].files \in SUBSET Items /\ draft'[t].files \in [DOMAIN draft'[t].files -> FileRows]
        /\ DOMAIN draft'[t].rows \in SUBSET Ids
        /\ draft'[t].rows \in [DOMAIN draft'[t].rows -> StorageRows \cup {NoRow}]
    BY <1>2, SomeFacts
  <1>4. Files(t)' \in [Items -> FileRows \cup {NoFile}] /\ Rows(t)' \in [Ids -> StorageRows \cup {NoRow}]
    BY <1>1, <1>2, OverTable DEF Files, Rows
  <1>5. DOMAIN files' = Items /\ DOMAIN rows' = Ids
    BY <1>1
  <1>6. /\ \A i \in DOMAIN draft'[t].files : Files(t)'[i] = draft'[t].files[i]
        /\ \A i \in Items \ DOMAIN draft'[t].files : Files(t)'[i] = files'[i]
    BY <1>3, <1>5, OverDomain DEF Files
  <1>7. /\ \A b \in DOMAIN draft'[t].rows : Rows(t)'[b] = draft'[t].rows[b]
        /\ \A b \in Ids \ DOMAIN draft'[t].rows : Rows(t)'[b] = rows'[b]
    BY <1>3, <1>5, OverDomain DEF Rows
  <1> QED
    BY <1>1, <1>3, <1>4, <1>6, <1>7

\* Without a transaction a task sees the tables.
LEMMA DirectView ==
    ASSUME TablesTyped, NEW t \in Tasks, draft[t] = NoDraft
    PROVE  Files(t) = files /\ Rows(t) = rows
  <1>1. DOMAIN draft[t].files = {} /\ DOMAIN draft[t].rows = {}
    BY EmptySome DEF NoDraft
  <1> QED
    BY <1>1, OverNothing DEF TablesTyped, Files, Rows

-----------------------------------------------------------------------------
\* References are finitely many, and so are the items of a request.
LEMMA ReferencesFinite ==
    ASSUME NEW fs, NEW b
    PROVE  /\ References(fs, b) \in SUBSET Items
           /\ IsFiniteSet(References(fs, b)) /\ Cardinality(References(fs, b)) \in Nat
  <1>1. References(fs, b) \in SUBSET Items
    BY DEF References
  <1> QED
    BY <1>1, ItemsAssumption, FS_Subset, FS_CardinalityType

\* Fewer items, and one item less.
LEMMA CardMono ==
    ASSUME NEW S \in SUBSET Items, NEW R \in SUBSET S
    PROVE  /\ Cardinality(R) \in Nat /\ Cardinality(S) \in Nat
           /\ Cardinality(R) <= Cardinality(S)
  <1>1. IsFiniteSet(S) /\ IsFiniteSet(R)
    BY ItemsAssumption, FS_Subset
  <1> QED
    BY <1>1, FS_Subset, FS_CardinalityType

\* One item more or less.
LEMMA CardOne ==
    ASSUME NEW S \in SUBSET Items, NEW i \in Items
    PROVE  /\ Cardinality(S) \in Nat /\ Cardinality(S \ {i}) \in Nat /\ Cardinality(S \cup {i}) \in Nat
           /\ Cardinality(S) <= Cardinality(S \ {i}) + 1
           /\ i \in S => Cardinality(S) = Cardinality(S \ {i}) + 1
           /\ Cardinality(S \cup {i}) <= Cardinality(S) + 1
  <1>1. IsFiniteSet(S)
    BY ItemsAssumption, FS_Subset
  <1>2. /\ Cardinality(S) \in Nat
        /\ IsFiniteSet(S \ {i}) /\ Cardinality(S \ {i}) = IF i \in S THEN Cardinality(S) - 1 ELSE Cardinality(S)
        /\ IsFiniteSet(S \cup {i}) /\ Cardinality(S \cup {i}) = IF i \in S THEN Cardinality(S) ELSE Cardinality(S) + 1
    BY <1>1, FS_RemoveElement, FS_AddElement, FS_CardinalityType
  <1> QED
    BY <1>2, FS_CardinalityType

-----------------------------------------------------------------------------
(***************************************************************************)
(* A step of t moves some rows of contents that t has in hand, and disturbs*)
(* nothing that another task has locked or read of any other content.      *)
(***************************************************************************)
\* The contents that t had in hand, or has now.
Concerned(t) == req[t].touched \cup req'[t].touched

\* Nobody has b in hand.
InNoHand(b) == \A u \in Tasks : b \notin InHand(u) \cup DOMAIN draft[u].rows

\* Row b has its hash and name, and its count unless it is of a content in hand; or it is new.
RowKept(t, b) ==
    /\ rows[b] # NoRow /\ KeyOf(rows'[b]) = KeyOf(rows[b])
    /\ rows[b].hash \notin Concerned(t) => rows'[b].count = rows[b].count

RowNew(t, b) == rows[b] = NoRow /\ rows'[b].hash \in Concerned(t) /\ InNoHand(b)

\* Every transaction stays as it is, and what it has locked.
OthersKept(t) ==
    \A u \in Tasks \ {t} :
        /\ draft'[u] = draft[u]
        /\ \A i \in DOMAIN draft[u].files : files'[i] = files[i]
        /\ \A b \in DOMAIN draft[u].rows : rows'[b] = rows[b]
        /\ DOMAIN draft'[t].files \cap DOMAIN draft[u].files = {}
        /\ DOMAIN draft'[t].rows \cap DOMAIN draft[u].rows = {}

RowsKept(t) ==
    /\ \A b \in Ids : rows'[b] # NoRow => RowKept(t, b) \/ RowNew(t, b)
    /\ \A b \in Ids : rows[b] # NoRow /\ rows[b].hash \notin Concerned(t) =>
         rows'[b] # NoRow /\ References(files', b) \subseteq References(files, b)

DraftMoves(t) ==
    /\ \A b \in DOMAIN draft'[t].rows :
         /\ rows'[b] # NoRow /\ rows'[b].hash \in Concerned(t)
         /\ draft'[t].rows[b] # NoRow => KeyOf(draft'[t].rows[b]) = KeyOf(rows'[b])
    /\ \A i \in DOMAIN draft'[t].files :
         draft'[t].files[i].live /\ draft'[t].files[i].blob # NoId
           /\ rows'[draft'[t].files[i].blob].hash \notin Concerned(t) =>
             Live(files', i) /\ files'[i].blob = draft'[t].files[i].blob

Moves(t) ==
    /\ TablesTyped' /\ OneRowPerHash' /\ Linked'
    /\ OthersKept(t) /\ RowsKept(t) /\ DraftMoves(t)

\* A content that t has nothing to do with keeps its bytes.
BytesStay(t) == \A k \in objects : k[1] \notin Concerned(t) => k \in objects'

\* The local variables of the others, and what is known to be disturbed.
Proceeds(t) ==
    /\ step' \in [Tasks -> Steps] /\ req' \in [Tasks -> Requests]
    /\ spent' \in [requests : Nat, faults : Nat]
    /\ \A u \in Tasks \ {t} : req'[u] = req[u] /\ step'[u] = step[u]
    /\ disturbed \subseteq disturbed' /\ disturbed' \subseteq Hashes
    /\ \A u \in Tasks \ {t} : Concerned(t) \cap req[u].touched \subseteq disturbed'
    /\ step'[t] # "idle" => req[t].touched \subseteq req'[t].touched

\* What t knows after its step.
OwnFits(t) ==
    /\ StepFits(t)' /\ HandsKnown(t)' /\ KeysFit(t)' /\ AloneFits(t)'
    /\ \A b \in Ids : rows'[b] # NoRow /\ rows'[b].hash \in Concerned(t) \ Exempt' => CountFits(t, b)'
    /\ \A b \in Ids : rows'[b] # NoRow /\ rows'[b].hash \in Concerned(t) \ disturbed' =>
         KeyOf(rows'[b]) \in objects' \/ Missing(t, b)'

-----------------------------------------------------------------------------
\* Statements that write no row, and the ends of transactions that take nothing over.
LEMMA StillMoves ==
    ASSUME IInv, NEW t \in Tasks, objects' \subseteq Keys, files' = files, rows' = rows,
           draft' \in [Tasks -> Transactions], \A u \in Tasks \ {t} : draft'[u] = draft[u],
           draft'[t] = draft[t] \/ draft'[t] \in {NoDraft, Begun}
    PROVE  Moves(t)
  <1>1. TablesTyped' /\ OneRowPerHash'
    BY DEF IInv, Typed, TablesTyped, OneRowPerHash
  <1>2. draft'[t] = draft[t] \/ (DOMAIN draft'[t].files = {} /\ DOMAIN draft'[t].rows = {})
    BY EmptySome DEF NoDraft, Begun
  <1>3. Linked /\ DraftFits(t) /\ \A u \in Tasks : DraftFits(u)
    BY DEF IInv
  <1>4. Linked'
    BY <1>2, <1>3 DEF Linked
  <1>5. OthersKept(t)
    BY <1>2, <1>3 DEF OthersKept, DraftFits
  <1>6. RowsKept(t)
    BY DEF RowsKept, RowKept
  <1>7. DraftMoves(t)
    BY <1>2, <1>3 DEF DraftMoves, DraftFits, DraftKnown, Concerned, Live
  <1> QED
    BY <1>1, <1>4, <1>5, <1>6, <1>7 DEF Moves

-----------------------------------------------------------------------------
\* A write outside of a transaction, and in one.
LEMMA DirectWrite ==
    ASSUME TablesTyped, objects' \subseteq Keys, NEW t \in Tasks, draft[t] = NoDraft,
           NEW fs \in Some(Items, FileRows), NEW rs \in Some(Ids, StorageRows \cup {NoRow}),
           Write(t, fs, rs)
    PROVE  /\ TablesTyped' /\ draft' = draft
           /\ \A i \in DOMAIN fs : files'[i] = fs[i]
           /\ \A i \in Items \ DOMAIN fs : files'[i] = files[i]
           /\ \A b \in DOMAIN rs : rows'[b] = rs[b]
           /\ \A b \in Ids \ DOMAIN rs : rows'[b] = rows[b]
           /\ Files(t) = files /\ Rows(t) = rows /\ Files(t)' = files' /\ Rows(t)' = rows'
  <1>1. files' = Over(fs, files) /\ rows' = Over(rs, rows) /\ draft' = draft
    BY DEF Write, NoDraft
  <1>2. /\ files \in [Items -> FileRows \cup {NoFile}] /\ rows \in [Ids -> StorageRows \cup {NoRow}]
        /\ draft \in [Tasks -> Transactions]
    BY DEF TablesTyped
  <1>3. files' \in [Items -> FileRows \cup {NoFile}] /\ rows' \in [Ids -> StorageRows \cup {NoRow}]
    BY <1>1, <1>2, OverTable
  <1>4. TablesTyped'
    BY <1>1, <1>2, <1>3 DEF TablesTyped
  <1>5. Files(t) = files /\ Rows(t) = rows
    BY DirectView
  <1>6. Files(t)' = files' /\ Rows(t)' = rows'
    <2>1. DOMAIN draft'[t].files = {} /\ DOMAIN draft'[t].rows = {}
      BY <1>1, EmptySome DEF NoDraft
    <2> QED
      BY <2>1, <1>3, OverNothing DEF Files, Rows
  <1>7. DOMAIN files = Items /\ DOMAIN rows = Ids
    BY <1>2
  <1>8. \A i \in DOMAIN fs : files'[i] = fs[i]
    BY <1>1 DEF Over
  <1>9. \A i \in Items \ DOMAIN fs : files'[i] = files[i]
    BY <1>1, <1>7 DEF Over
  <1>10. \A b \in DOMAIN rs : rows'[b] = rs[b]
    BY <1>1 DEF Over
  <1>11. \A b \in Ids \ DOMAIN rs : rows'[b] = rows[b]
    BY <1>1, <1>7 DEF Over
  <1> QED
    BY <1>1, <1>4, <1>5, <1>6, <1>8, <1>9, <1>10, <1>11

\* A statement in a transaction writes its draft.
LEMMA DraftWrite ==
    ASSUME TablesTyped, objects' \subseteq Keys, NEW t \in Tasks, draft[t].open,
           NEW fs \in Some(Items, FileRows), NEW rs \in Some(Ids, StorageRows \cup {NoRow}),
           Write(t, fs, rs)
    PROVE  /\ TablesTyped' /\ files' = files /\ rows' = rows
           /\ draft'[t].open
           /\ \A u \in Tasks \ {t} : draft'[u] = draft[u]
           /\ DOMAIN draft'[t].files = DOMAIN fs \cup DOMAIN draft[t].files
           /\ \A i \in DOMAIN fs : draft'[t].files[i] = fs[i]
           /\ \A i \in DOMAIN draft[t].files \ DOMAIN fs : draft'[t].files[i] = draft[t].files[i]
           /\ DOMAIN draft'[t].rows = DOMAIN rs \cup DOMAIN draft[t].rows
           /\ \A b \in DOMAIN rs : draft'[t].rows[b] = rs[b]
           /\ \A b \in DOMAIN draft[t].rows \ DOMAIN rs : draft'[t].rows[b] = draft[t].rows[b]
  <1>1. /\ draft' = [draft EXCEPT ![t].files = Over(fs, @), ![t].rows = Over(rs, @)]
        /\ files' = files /\ rows' = rows
    BY DEF Write
  <1>2. /\ files \in [Items -> FileRows \cup {NoFile}] /\ rows \in [Ids -> StorageRows \cup {NoRow}]
        /\ draft \in [Tasks -> Transactions]
    BY DEF TablesTyped
  <1>3. draft[t] \in Transactions
    BY <1>2
  <1>4. draft[t].files \in Some(Items, FileRows) /\ draft[t].rows \in Some(Ids, StorageRows \cup {NoRow})
    BY <1>3 DEF Transactions
  <1>5. Over(fs, draft[t].files) \in Some(Items, FileRows)
    BY <1>4, OverSome
  <1>6. Over(rs, draft[t].rows) \in Some(Ids, StorageRows \cup {NoRow})
    BY <1>4, OverSome
  <1>7. draft' = [draft EXCEPT ![t] = [draft[t] EXCEPT !.files = Over(fs, draft[t].files),
                                                       !.rows = Over(rs, draft[t].rows)]]
    BY <1>1, <1>2
  <1>8. /\ draft'[t] = [draft[t] EXCEPT !.files = Over(fs, draft[t].files), !.rows = Over(rs, draft[t].rows)]
        /\ \A u \in Tasks \ {t} : draft'[u] = draft[u]
    BY <1>7, <1>2
  <1>9. /\ draft'[t].files = Over(fs, draft[t].files) /\ draft'[t].rows = Over(rs, draft[t].rows)
        /\ draft'[t].open = draft[t].open /\ draft'[t] \in Transactions
    BY <1>8, <1>3, <1>5, <1>6 DEF Transactions
  <1>10. draft' \in [Tasks -> Transactions]
    BY <1>7, <1>8, <1>9, <1>2
  <1>11. TablesTyped'
    BY <1>1, <1>2, <1>10 DEF TablesTyped
  <1>12. /\ DOMAIN draft'[t].files = DOMAIN fs \cup DOMAIN draft[t].files
         /\ \A i \in DOMAIN fs : draft'[t].files[i] = fs[i]
         /\ \A i \in DOMAIN draft[t].files \ DOMAIN fs : draft'[t].files[i] = draft[t].files[i]
    BY <1>9 DEF Over
  <1>13. /\ DOMAIN draft'[t].rows = DOMAIN rs \cup DOMAIN draft[t].rows
         /\ \A b \in DOMAIN rs : draft'[t].rows[b] = rs[b]
         /\ \A b \in DOMAIN draft[t].rows \ DOMAIN rs : draft'[t].rows[b] = draft[t].rows[b]
    BY <1>9 DEF Over
  <1> QED
    BY <1>1, <1>8, <1>9, <1>11, <1>12, <1>13

\* Either way the task sees what it has written.
LEMMA WriteViews ==
    ASSUME TablesTyped, objects' \subseteq Keys, NEW t \in Tasks, draft[t].open \/ draft[t] = NoDraft,
           NEW fs \in Some(Items, FileRows), NEW rs \in Some(Ids, StorageRows \cup {NoRow}),
           Write(t, fs, rs)
    PROVE  /\ TablesTyped' /\ draft'[t].open = draft[t].open
           /\ draft[t] = NoDraft => draft'[t] = NoDraft
           /\ draft[t].open => files' = files /\ rows' = rows
           /\ \A i \in DOMAIN fs : Files(t)'[i] = fs[i]
           /\ \A i \in Items \ DOMAIN fs : Files(t)'[i] = Files(t)[i]
           /\ \A b \in DOMAIN rs : Rows(t)'[b] = rs[b]
           /\ \A b \in Ids \ DOMAIN rs : Rows(t)'[b] = Rows(t)[b]
  <1>0. ~NoDraft.open
    BY DEF NoDraft
  <1>1. CASE draft[t] = NoDraft
    <2>1. /\ TablesTyped' /\ draft' = draft
          /\ \A i \in DOMAIN fs : files'[i] = fs[i]
          /\ \A i \in Items \ DOMAIN fs : files'[i] = files[i]
          /\ \A b \in DOMAIN rs : rows'[b] = rs[b]
          /\ \A b \in Ids \ DOMAIN rs : rows'[b] = rows[b]
          /\ Files(t) = files /\ Rows(t) = rows /\ Files(t)' = files' /\ Rows(t)' = rows'
      BY <1>1, DirectWrite
    <2> QED
      BY <2>1, <1>1, <1>0
  <1>2. CASE draft[t].open
    <2>1. /\ TablesTyped' /\ files' = files /\ rows' = rows
          /\ draft'[t].open
          /\ DOMAIN draft'[t].files = DOMAIN fs \cup DOMAIN draft[t].files
          /\ \A i \in DOMAIN fs : draft'[t].files[i] = fs[i]
          /\ \A i \in DOMAIN draft[t].files \ DOMAIN fs : draft'[t].files[i] = draft[t].files[i]
          /\ DOMAIN draft'[t].rows = DOMAIN rs \cup DOMAIN draft[t].rows
          /\ \A b \in DOMAIN rs : draft'[t].rows[b] = rs[b]
          /\ \A b \in DOMAIN draft[t].rows \ DOMAIN rs : draft'[t].rows[b] = draft[t].rows[b]
      BY <1>2, DraftWrite
    <2>2. /\ \A i \in DOMAIN draft[t].files : Files(t)[i] = draft[t].files[i]
          /\ \A i \in Items \ DOMAIN draft[t].files : Files(t)[i] = files[i]
          /\ \A b \in DOMAIN draft[t].rows : Rows(t)[b] = draft[t].rows[b]
          /\ \A b \in Ids \ DOMAIN draft[t].rows : Rows(t)[b] = rows[b]
      BY ViewFacts
    <2>3. /\ \A i \in DOMAIN draft'[t].files : Files(t)'[i] = draft'[t].files[i]
          /\ \A i \in Items \ DOMAIN draft'[t].files : Files(t)'[i] = files'[i]
          /\ \A b \in DOMAIN draft'[t].rows : Rows(t)'[b] = draft'[t].rows[b]
          /\ \A b \in Ids \ DOMAIN draft'[t].rows : Rows(t)'[b] = rows'[b]
      BY <2>1, ViewNext
    <2>4. draft'[t].open = draft[t].open
      <3>1. draft[t].open \in BOOLEAN /\ draft'[t].open \in BOOLEAN
        BY <2>1 DEF TablesTyped, Transactions
      <3> QED
        BY <3>1, <2>1, <1>2
    <2>5. \A i \in Items \ DOMAIN fs : Files(t)'[i] = Files(t)[i]
      BY <2>1, <2>2, <2>3
    <2>6. \A b \in Ids \ DOMAIN rs : Rows(t)'[b] = Rows(t)[b]
      BY <2>1, <2>2, <2>3
    <2> QED
      BY <2>1, <2>3, <2>4, <2>5, <2>6, <1>2, <1>0
  <1> QED
    BY <1>1, <1>2

-----------------------------------------------------------------------------
\* A row that a file may refer to: it is there, and no transaction deletes it.
Lasts(b) == rows[b] # NoRow /\ \A u \in Tasks : b \in DOMAIN draft[u].rows => draft[u].rows[b] # NoRow

\* The rows rs and files fs that t may write.
WriteFits(t, fs, rs) ==
    /\ fs \in Some(Items, FileRows) /\ rs \in Some(Ids, StorageRows \cup {NoRow})
    /\ \A u \in Tasks \ {t} :
         DOMAIN fs \cap DOMAIN draft[u].files = {} /\ DOMAIN rs \cap DOMAIN draft[u].rows = {}
    /\ \A b \in DOMAIN rs :
         IF rs[b] = NoRow
         THEN /\ draft[t].open => rows[b] # NoRow
              /\ rows[b] # NoRow => rows[b].hash \in Concerned(t)
              /\ \A i \in Items : Files(t)[i] # NoFile /\ Files(t)[i].blob = b => i \in DOMAIN fs
              /\ \A u \in Tasks \ {t} : \A i \in DOMAIN draft[u].files : draft[u].files[i].blob # b
         ELSE /\ rows[b] # NoRow /\ Rows(t)[b] # NoRow /\ KeyOf(rs[b]) = KeyOf(rows[b])
              /\ rows[b].hash \in Concerned(t) \/ (~draft[t].open /\ rs[b].count = rows[b].count)
    /\ \A i \in DOMAIN fs : fs[i].blob # NoId =>
         /\ Lasts(fs[i].blob)
         /\ fs[i].blob \in DOMAIN rs => rs[fs[i].blob] # NoRow
         /\ fs[i].live /\ rows[fs[i].blob].hash \notin Concerned(t) =>
              Live(Files(t), i) /\ Files(t)[i].blob = fs[i].blob

\* Rows with one key have one hash and one name.
LEMMA KeyParts ==
    ASSUME NEW x \in StorageRows, NEW y \in StorageRows, KeyOf(x) = KeyOf(y)
    PROVE  x.hash = y.hash /\ x.name = y.name
  BY DEF KeyOf

\* Outside of a transaction such a write moves the tables.
LEMMA DirectMoves ==
    ASSUME IInv, NEW t \in Tasks, objects' \subseteq Keys, draft[t] = NoDraft, NEW fs, NEW rs,
           WriteFits(t, fs, rs), Write(t, fs, rs)
    PROVE  Moves(t)
  <1>1. TablesTyped /\ OneRowPerHash /\ Linked /\ \A u \in Tasks : DraftFits(u)
    BY DEF IInv, Typed
  <1>2. fs \in Some(Items, FileRows) /\ rs \in Some(Ids, StorageRows \cup {NoRow})
    BY DEF WriteFits
  <1>3. /\ DOMAIN fs \in SUBSET Items /\ fs \in [DOMAIN fs -> FileRows]
        /\ DOMAIN rs \in SUBSET Ids /\ rs \in [DOMAIN rs -> StorageRows \cup {NoRow}]
    BY <1>2, SomeFacts
  <1>4. /\ TablesTyped' /\ draft' = draft
        /\ \A i \in DOMAIN fs : files'[i] = fs[i]
        /\ \A i \in Items \ DOMAIN fs : files'[i] = files[i]
        /\ \A b \in DOMAIN rs : rows'[b] = rs[b]
        /\ \A b \in Ids \ DOMAIN rs : rows'[b] = rows[b]
        /\ Files(t) = files /\ Rows(t) = rows
    BY <1>1, <1>2, DirectWrite
  <1>5. DOMAIN draft[t].files = {} /\ DOMAIN draft[t].rows = {} /\ ~draft[t].open
    BY EmptySome DEF NoDraft
  <1>6. /\ files \in [Items -> FileRows \cup {NoFile}] /\ rows \in [Ids -> StorageRows \cup {NoRow}]
        /\ rows' \in [Ids -> StorageRows \cup {NoRow}] /\ files' \in [Items -> FileRows \cup {NoFile}]
    BY <1>1, <1>4 DEF TablesTyped
  <1>7. \A u \in Tasks : /\ DOMAIN draft[u].files \in SUBSET Items
                         /\ DOMAIN draft[u].rows \in SUBSET Ids
                         /\ draft[u].files \in [DOMAIN draft[u].files -> FileRows]
    BY <1>1, ViewFacts
  <1>8. OthersKept(t)
    BY <1>4, <1>5, <1>7 DEF OthersKept, WriteFits
  <1>9. \A b \in Ids : rows'[b] # NoRow =>
          rows[b] # NoRow /\ KeyOf(rows'[b]) = KeyOf(rows[b])
            /\ (rows[b].hash \notin Concerned(t) => rows'[b].count = rows[b].count)
    BY <1>4 DEF WriteFits
  <1>10. \A b \in Ids : rows'[b] # NoRow => rows'[b].hash = rows[b].hash
    BY <1>9, <1>6, KeyParts
  <1>11. \A b \in Ids : rows[b] # NoRow /\ rows[b].hash \notin Concerned(t) => rows'[b] # NoRow
    BY <1>4 DEF WriteFits
  <1>12. \A b \in Ids : rows[b] # NoRow /\ rows[b].hash \notin Concerned(t) =>
           References(files', b) \subseteq References(files, b)
    <2> SUFFICES ASSUME NEW b \in Ids, rows[b] # NoRow, rows[b].hash \notin Concerned(t),
                        NEW i \in Items, Live(files', i), files'[i].blob = b
                 PROVE  Live(files, i) /\ files[i].blob = b
      BY DEF References
    <2>1. b # NoId
      BY NullAssumption
    <2>2. CASE i \in DOMAIN fs
      BY <2>1, <2>2, <1>4 DEF WriteFits, Live
    <2>3. CASE i \notin DOMAIN fs
      BY <2>3, <1>4 DEF Live
    <2> QED
      BY <2>2, <2>3
  <1>13. RowsKept(t)
    BY <1>9, <1>11, <1>12 DEF RowsKept, RowKept
  <1>14. OneRowPerHash'
    BY <1>9, <1>10, <1>1 DEF OneRowPerHash
  <1>15. Linked'
    <2>1. \A i \in Items : files'[i] # NoFile /\ files'[i].blob # NoId => rows'[files'[i].blob] # NoRow
      <3> SUFFICES ASSUME NEW i \in Items, files'[i] # NoFile, files'[i].blob # NoId
                   PROVE  rows'[files'[i].blob] # NoRow
        OBVIOUS
      <3>0. files'[i].blob \in Ids
        BY <1>6 DEF FileRows
      <3>1. CASE i \in DOMAIN fs
        BY <3>0, <3>1, <1>4 DEF WriteFits, Lasts
      <3>2. CASE i \notin DOMAIN fs
        <4>1. files[i] # NoFile /\ files[i].blob = files'[i].blob /\ rows[files[i].blob] # NoRow
          BY <3>2, <1>4, <1>1 DEF Linked
        <4> QED
          BY <4>1, <3>0, <3>2, <1>4 DEF WriteFits
      <3> QED
        BY <3>1, <3>2
    <2>2. \A u \in Tasks : \A i \in DOMAIN draft[u].files :
            draft[u].files[i].blob # NoId => rows'[draft[u].files[i].blob] # NoRow
      <3> SUFFICES ASSUME NEW u \in Tasks, NEW i \in DOMAIN draft[u].files, draft[u].files[i].blob # NoId
                   PROVE  rows'[draft[u].files[i].blob] # NoRow
        OBVIOUS
      <3>1. draft[u].files[i].blob \in Ids /\ rows[draft[u].files[i].blob] # NoRow /\ u # t
        BY <1>1, <1>7, <1>5 DEF Linked, FileRows
      <3> QED
        BY <3>1, <1>4 DEF WriteFits
    <2>3. \A u \in Tasks : \A b \in DOMAIN draft[u].rows : draft[u].rows[b] = NoRow =>
             \A i \in Items : files'[i] # NoFile /\ files'[i].blob = b => i \in DOMAIN draft[u].files
      <3> SUFFICES ASSUME NEW u \in Tasks, NEW b \in DOMAIN draft[u].rows, draft[u].rows[b] = NoRow,
                          NEW i \in Items, files'[i] # NoFile, files'[i].blob = b
                   PROVE  i \in DOMAIN draft[u].files
        OBVIOUS
      <3>0. b \in Ids /\ b # NoId
        BY <1>7, NullAssumption
      <3>1. CASE i \in DOMAIN fs
        BY <3>0, <3>1, <1>4 DEF WriteFits, Lasts
      <3>2. CASE i \notin DOMAIN fs
        BY <3>2, <1>4, <1>1 DEF Linked
      <3> QED
        BY <3>1, <3>2
    <2> QED
      BY <2>1, <2>2, <2>3, <1>1, <1>4 DEF Linked
  <1>16. DraftMoves(t)
    BY <1>4, <1>5 DEF DraftMoves
  <1> QED
    BY <1>4, <1>8, <1>13, <1>14, <1>15, <1>16 DEF Moves

\* In a transaction it moves the draft.
LEMMA DraftedMoves ==
    ASSUME IInv, NEW t \in Tasks, objects' \subseteq Keys, draft[t].open, NEW fs, NEW rs,
           WriteFits(t, fs, rs), Write(t, fs, rs)
    PROVE  Moves(t)
  <1>1. TablesTyped /\ OneRowPerHash /\ Linked /\ \A u \in Tasks : DraftFits(u)
    BY DEF IInv, Typed
  <1>2. fs \in Some(Items, FileRows) /\ rs \in Some(Ids, StorageRows \cup {NoRow})
    BY DEF WriteFits
  <1>3. /\ DOMAIN fs \in SUBSET Items /\ fs \in [DOMAIN fs -> FileRows]
        /\ DOMAIN rs \in SUBSET Ids /\ rs \in [DOMAIN rs -> StorageRows \cup {NoRow}]
    BY <1>2, SomeFacts
  <1>4. /\ TablesTyped' /\ files' = files /\ rows' = rows
        /\ \A u \in Tasks \ {t} : draft'[u] = draft[u]
        /\ DOMAIN draft'[t].files = DOMAIN fs \cup DOMAIN draft[t].files
        /\ \A i \in DOMAIN fs : draft'[t].files[i] = fs[i]
        /\ \A i \in DOMAIN draft[t].files \ DOMAIN fs : draft'[t].files[i] = draft[t].files[i]
        /\ DOMAIN draft'[t].rows = DOMAIN rs \cup DOMAIN draft[t].rows
        /\ \A b \in DOMAIN rs : draft'[t].rows[b] = rs[b]
        /\ \A b \in DOMAIN draft[t].rows \ DOMAIN rs : draft'[t].rows[b] = draft[t].rows[b]
    BY <1>1, <1>2, DraftWrite
  <1>5. /\ \A i \in DOMAIN draft[t].files : Files(t)[i] = draft[t].files[i]
        /\ \A i \in Items \ DOMAIN draft[t].files : Files(t)[i] = files[i]
        /\ DOMAIN draft[t].files \in SUBSET Items /\ DOMAIN draft[t].rows \in SUBSET Ids
        /\ draft[t].files \in [DOMAIN draft[t].files -> FileRows]
    BY <1>1, ViewFacts
  <1>6. OneRowPerHash'
    BY <1>1, <1>4 DEF OneRowPerHash
  <1>7. OthersKept(t)
    BY <1>1, <1>4 DEF OthersKept, WriteFits, DraftFits
  <1>8. RowsKept(t)
    BY <1>4 DEF RowsKept, RowKept
  <1>9. DraftMoves(t)
    <2>1. \A b \in DOMAIN draft'[t].rows :
             /\ rows[b] # NoRow /\ rows[b].hash \in Concerned(t)
             /\ draft'[t].rows[b] # NoRow => KeyOf(draft'[t].rows[b]) = KeyOf(rows[b])
      <3> SUFFICES ASSUME NEW b \in DOMAIN draft'[t].rows
                   PROVE  /\ rows[b] # NoRow /\ rows[b].hash \in Concerned(t)
                          /\ draft'[t].rows[b] # NoRow => KeyOf(draft'[t].rows[b]) = KeyOf(rows[b])
        OBVIOUS
      <3>1. CASE b \in DOMAIN rs
        BY <3>1, <1>4 DEF WriteFits
      <3>2. CASE b \notin DOMAIN rs
        BY <3>2, <1>1, <1>4 DEF DraftFits, DraftKnown, Concerned
      <3> QED
        BY <3>1, <3>2
    <2>2. \A i \in DOMAIN draft'[t].files :
             draft'[t].files[i].live /\ draft'[t].files[i].blob # NoId
               /\ rows[draft'[t].files[i].blob].hash \notin Concerned(t) =>
                 Live(files, i) /\ files[i].blob = draft'[t].files[i].blob
      <3> SUFFICES ASSUME NEW i \in DOMAIN draft'[t].files, draft'[t].files[i].live,
                          draft'[t].files[i].blob # NoId,
                          rows[draft'[t].files[i].blob].hash \notin Concerned(t)
                   PROVE  Live(files, i) /\ files[i].blob = draft'[t].files[i].blob
        OBVIOUS
      <3>1. \/ Files(t)[i] = draft'[t].files[i]
            \/ Live(Files(t), i) /\ Files(t)[i].blob = draft'[t].files[i].blob
        BY <1>4, <1>5 DEF WriteFits
      <3>2. i \in Items /\ rows[draft'[t].files[i].blob].hash \notin req[t].touched
        BY <1>4, <1>5, <1>3 DEF Concerned
      <3>3. CASE i \in DOMAIN draft[t].files
        <4>1. draft[t].files[i].live /\ draft[t].files[i].blob = draft'[t].files[i].blob
          BY <3>1, <3>3, <1>5 DEF Live
        <4> QED
          BY <4>1, <3>2, <3>3, <1>1 DEF DraftFits, DraftKnown
      <3>4. CASE i \notin DOMAIN draft[t].files
        <4>1. i \in DOMAIN fs /\ Live(Files(t), i) /\ Files(t)[i].blob = draft'[t].files[i].blob
          BY <3>4, <1>4 DEF WriteFits
        <4> QED
          BY <4>1, <3>4, <3>2, <1>5 DEF Live
      <3> QED
        BY <3>3, <3>4
    <2> QED
      BY <2>1, <2>2, <1>4 DEF DraftMoves
  <1>10. Linked'
    <2>1. \A u \in Tasks : \A i \in DOMAIN draft'[u].files :
            draft'[u].files[i].blob # NoId => rows[draft'[u].files[i].blob] # NoRow
      <3> SUFFICES ASSUME NEW u \in Tasks, NEW i \in DOMAIN draft'[u].files, draft'[u].files[i].blob # NoId
                   PROVE  rows[draft'[u].files[i].blob] # NoRow
        OBVIOUS
      <3>1. CASE u = t /\ i \in DOMAIN fs
        BY <3>1, <1>4 DEF WriteFits, Lasts
      <3>2. CASE ~(u = t /\ i \in DOMAIN fs)
        BY <3>2, <1>4, <1>1 DEF Linked
      <3> QED
        BY <3>1, <3>2
    <2>2. \A u \in Tasks : \A b \in DOMAIN draft'[u].rows : draft'[u].rows[b] = NoRow =>
             \A i \in Items : files[i] # NoFile /\ files[i].blob = b => i \in DOMAIN draft'[u].files
      <3> SUFFICES ASSUME NEW u \in Tasks, NEW b \in DOMAIN draft'[u].rows, draft'[u].rows[b] = NoRow,
                          NEW i \in Items, files[i] # NoFile, files[i].blob = b
                   PROVE  i \in DOMAIN draft'[u].files
        OBVIOUS
      <3>1. CASE u = t /\ b \in DOMAIN rs
        BY <3>1, <1>4, <1>5 DEF WriteFits
      <3>2. CASE ~(u = t /\ b \in DOMAIN rs)
        BY <3>2, <1>4, <1>1 DEF Linked
      <3> QED
        BY <3>1, <3>2
    <2>3. \A u \in Tasks : \A b \in DOMAIN draft'[u].rows : draft'[u].rows[b] = NoRow =>
             \A v \in Tasks : \A i \in DOMAIN draft'[v].files : draft'[v].files[i].blob # b
      <3> SUFFICES ASSUME NEW u \in Tasks, NEW b \in DOMAIN draft'[u].rows, draft'[u].rows[b] = NoRow,
                          NEW v \in Tasks, NEW i \in DOMAIN draft'[v].files
                   PROVE  draft'[v].files[i].blob # b
        OBVIOUS
      <3>0. b \in Ids /\ b # NoId
        <4>1. DOMAIN draft'[u].rows \in SUBSET Ids
          BY <1>4, ViewNext
        <4> QED
          BY <4>1, NullAssumption
      <3>1. CASE u = t /\ b \in DOMAIN rs
        <4>1. CASE v = t /\ i \in DOMAIN fs
          BY <3>0, <3>1, <4>1, <1>4 DEF WriteFits
        <4>2. CASE v = t /\ i \notin DOMAIN fs
          <5>1. i \in DOMAIN draft[t].files /\ Files(t)[i] = draft'[t].files[i] /\ Files(t)[i] \in FileRows
            BY <4>2, <1>4, <1>5
          <5>2. Files(t)[i] # NoFile /\ i \in Items
            BY <5>1, <1>5, NullAssumption
          <5> QED
            BY <5>1, <5>2, <4>2, <3>1, <1>4 DEF WriteFits
        <4>3. CASE v # t
          BY <4>3, <3>1, <1>4 DEF WriteFits
        <4> QED
          BY <4>1, <4>2, <4>3
      <3>2. CASE ~(u = t /\ b \in DOMAIN rs)
        <4>0. b \in DOMAIN draft[u].rows /\ draft[u].rows[b] = NoRow
          BY <3>2, <1>4
        <4>1. CASE v = t /\ i \in DOMAIN fs
          BY <3>0, <4>0, <4>1, <1>4 DEF WriteFits, Lasts
        <4>2. CASE ~(v = t /\ i \in DOMAIN fs)
          BY <4>0, <4>2, <1>1, <1>4 DEF Linked
        <4> QED
          BY <4>1, <4>2
      <3> QED
        BY <3>1, <3>2
    <2> QED
      BY <2>1, <2>2, <2>3, <1>1, <1>4 DEF Linked
  <1> QED
    BY <1>4, <1>6, <1>7, <1>8, <1>9, <1>10 DEF Moves

\* Either way.
LEMMA WriteMoves ==
    ASSUME IInv, NEW t \in Tasks, objects' \subseteq Keys, NEW fs, NEW rs, WriteFits(t, fs, rs), Write(t, fs, rs)
    PROVE  Moves(t)
  <1>1. draft[t].open \/ draft[t] = NoDraft
    BY DEF IInv, StepFits
  <1> QED
    BY <1>1, DirectMoves, DraftedMoves

-----------------------------------------------------------------------------
\* A new row of a content that has none.
LEMMA InsertMoves ==
    ASSUME IInv, NEW t \in Tasks, draft[t] = NoDraft, objects' \subseteq Keys, NEW b \in Ids,
           NEW row \in StorageRows, rows[b] = NoRow, InNoHand(b), Holding(row.hash) = {},
           row.hash \in Concerned(t), WriteRow(t, b, row)
    PROVE  Moves(t) /\ files' = files /\ draft' = draft /\ rows' = [rows EXCEPT ![b] = row]
  <1>1. TablesTyped /\ OneRowPerHash /\ Linked /\ \A u \in Tasks : DraftFits(u)
    BY DEF IInv, Typed
  <1>2. /\ files \in [Items -> FileRows \cup {NoFile}] /\ rows \in [Ids -> StorageRows \cup {NoRow}]
        /\ draft \in [Tasks -> Transactions]
    BY <1>1 DEF TablesTyped
  <1>3. /\ <<>> \in Some(Items, FileRows) /\ DOMAIN <<>> = {}
        /\ Row(b, row) \in Some(Ids, StorageRows \cup {NoRow}) /\ DOMAIN Row(b, row) = {b} /\ Row(b, row)[b] = row
    BY EmptySome, RowFacts
  <1>4. /\ TablesTyped' /\ draft' = draft
        /\ \A i \in Items : files'[i] = files[i]
        /\ rows'[b] = row
        /\ \A c \in Ids \ {b} : rows'[c] = rows[c]
    <2>1. Write(t, <<>>, Row(b, row))
      BY DEF WriteRow
    <2>2. /\ TablesTyped' /\ draft' = draft
          /\ \A i \in Items \ DOMAIN <<>> : files'[i] = files[i]
          /\ \A c \in DOMAIN Row(b, row) : rows'[c] = Row(b, row)[c]
          /\ \A c \in Ids \ DOMAIN Row(b, row) : rows'[c] = rows[c]
      BY <2>1, <1>1, <1>3, DirectWrite
    <2> QED
      BY <2>2, <1>3
  <1>5. files' = files /\ rows' = [rows EXCEPT ![b] = row]
    <2>1. files' \in [Items -> FileRows \cup {NoFile}] /\ rows' \in [Ids -> StorageRows \cup {NoRow}]
      BY <1>4 DEF TablesTyped
    <2> QED
      BY <2>1, <1>2, <1>4
  <1>6. row # NoRow /\ b # NoId
    BY NullAssumption
  <1>7. DOMAIN draft[t].files = {} /\ DOMAIN draft[t].rows = {}
    BY EmptySome DEF NoDraft
  <1>8. OthersKept(t)
    <2>1. \A u \in Tasks : b \notin DOMAIN draft[u].rows /\ DOMAIN draft[u].rows \in SUBSET Ids
      BY <1>1, ViewFacts DEF InNoHand
    <2> QED
      BY <2>1, <1>4, <1>5, <1>7 DEF OthersKept
  <1>9. RowsKept(t)
    BY <1>4, <1>5, <1>6 DEF RowsKept, RowKept, RowNew
  <1>10. OneRowPerHash'
    BY <1>1, <1>4 DEF OneRowPerHash, Holding
  <1>11. DraftMoves(t)
    BY <1>4, <1>7 DEF DraftMoves
  <1>12. \A c \in Ids : rows[c] # NoRow => rows'[c] # NoRow
    BY <1>4, <1>6
  <1>13. \A u \in Tasks : \A i \in DOMAIN draft[u].files :
            draft[u].files[i].blob # NoId => draft[u].files[i].blob \in Ids
    BY <1>1, ViewFacts DEF FileRows
  <1>14. \A i \in Items : files[i] # NoFile /\ files[i].blob # NoId => files[i].blob \in Ids
    BY <1>2 DEF FileRows
  <1>15. Linked'
    BY <1>1, <1>4, <1>5, <1>12, <1>13, <1>14 DEF Linked
  <1> QED
    BY <1>4, <1>5, <1>8, <1>9, <1>10, <1>11, <1>15 DEF Moves

\* The files of an infected content go.
LEMMA PurgeMoves ==
    ASSUME IInv, NEW t \in Tasks, draft[t] = NoDraft, NEW b \in Ids,
           \A u \in Tasks \ {t} : \A i \in DOMAIN draft[u].files : ~(files[i] # NoFile /\ files[i].blob = b),
           files' = [i \in Items |-> IF files[i] # NoFile /\ files[i].blob = b THEN NoFile ELSE files[i]],
           UNCHANGED <<rows, objects, draft>>
    PROVE  Moves(t)
  <1>1. TablesTyped /\ OneRowPerHash /\ Linked /\ \A u \in Tasks : DraftFits(u)
    BY DEF IInv, Typed
  <1>2. files \in [Items -> FileRows \cup {NoFile}]
    BY <1>1 DEF TablesTyped
  <1>3. files' \in [Items -> FileRows \cup {NoFile}]
    BY <1>2
  <1>4. TablesTyped'
    BY <1>1, <1>3 DEF TablesTyped
  <1>5. \A i \in Items : files'[i] # NoFile => files'[i] = files[i] /\ files[i] # NoFile
    OBVIOUS
  <1>6. DOMAIN draft[t].files = {} /\ DOMAIN draft[t].rows = {}
    BY EmptySome DEF NoDraft
  <1>7. OthersKept(t)
    <2>1. \A u \in Tasks : DOMAIN draft[u].files \in SUBSET Items
      BY <1>1, ViewFacts
    <2> QED
      BY <2>1, <1>6 DEF OthersKept
  <1>8. RowsKept(t)
    BY <1>5 DEF RowsKept, RowKept, References, Live
  <1>9. OneRowPerHash'
    BY <1>1 DEF OneRowPerHash
  <1>10. DraftMoves(t)
    BY <1>6 DEF DraftMoves
  <1>11. Linked'
    BY <1>1, <1>5 DEF Linked
  <1> QED
    BY <1>4, <1>7, <1>8, <1>9, <1>10, <1>11 DEF Moves

\* What a task sees is linked too.
LEMMA ViewLinked ==
    ASSUME IInv, NEW t \in Tasks
    PROVE  \A i \in Items : Files(t)[i] # NoFile /\ Files(t)[i].blob # NoId =>
             rows[Files(t)[i].blob] # NoRow /\ Rows(t)[Files(t)[i].blob] # NoRow
  <1> SUFFICES ASSUME NEW i \in Items, Files(t)[i] # NoFile, Files(t)[i].blob # NoId
               PROVE  rows[Files(t)[i].blob] # NoRow /\ Rows(t)[Files(t)[i].blob] # NoRow
    OBVIOUS
  <1>1. TablesTyped /\ Linked
    BY DEF IInv, Typed
  <1>2. /\ Files(t) \in [Items -> FileRows \cup {NoFile}]
        /\ \A j \in DOMAIN draft[t].files : Files(t)[j] = draft[t].files[j]
        /\ \A j \in Items \ DOMAIN draft[t].files : Files(t)[j] = files[j]
        /\ \A b \in DOMAIN draft[t].rows : Rows(t)[b] = draft[t].rows[b]
        /\ \A b \in Ids \ DOMAIN draft[t].rows : Rows(t)[b] = rows[b]
    BY <1>1, ViewFacts
  <1>3. Files(t)[i].blob \in Ids
    BY <1>2 DEF FileRows
  <1>4. rows[Files(t)[i].blob] # NoRow
    BY <1>1, <1>2 DEF Linked
  <1>5. ASSUME Files(t)[i].blob \in DOMAIN draft[t].rows
        PROVE  draft[t].rows[Files(t)[i].blob] # NoRow
    BY <1>1, <1>2, <1>5 DEF Linked
  <1> QED
    BY <1>2, <1>3, <1>4, <1>5

\* A commit makes what the task sees the tables.
LEMMA CommitMoves ==
    ASSUME IInv, NEW t \in Tasks, files' = Files(t), rows' = Rows(t),
           draft' = [draft EXCEPT ![t] = NoDraft], objects' = objects
    PROVE  Moves(t)
  <1>1. TablesTyped /\ OneRowPerHash /\ Linked /\ \A u \in Tasks : DraftFits(u)
    BY DEF IInv, Typed
  <1>2. /\ files \in [Items -> FileRows \cup {NoFile}] /\ rows \in [Ids -> StorageRows \cup {NoRow}]
        /\ draft \in [Tasks -> Transactions] /\ objects \subseteq Keys
    BY <1>1 DEF TablesTyped
  <1>3. /\ files' \in [Items -> FileRows \cup {NoFile}] /\ rows' \in [Ids -> StorageRows \cup {NoRow}]
        /\ \A i \in DOMAIN draft[t].files : files'[i] = draft[t].files[i]
        /\ \A i \in Items \ DOMAIN draft[t].files : files'[i] = files[i]
        /\ \A b \in DOMAIN draft[t].rows : rows'[b] = draft[t].rows[b]
        /\ \A b \in Ids \ DOMAIN draft[t].rows : rows'[b] = rows[b]
        /\ DOMAIN draft[t].files \in SUBSET Items /\ DOMAIN draft[t].rows \in SUBSET Ids
    BY <1>1, ViewFacts
  <1>4. NoDraft \in Transactions /\ DOMAIN NoDraft.files = {} /\ DOMAIN NoDraft.rows = {}
    BY EmptySome DEF NoDraft, Transactions
  <1>5. draft'[t] = NoDraft /\ \A u \in Tasks \ {t} : draft'[u] = draft[u]
    BY <1>2
  <1>6. draft' \in [Tasks -> Transactions]
    BY <1>2, <1>4
  <1>7. TablesTyped'
    BY <1>2, <1>3, <1>6 DEF TablesTyped
  <1>8. \A u \in Tasks : DOMAIN draft[u].files \in SUBSET Items /\ DOMAIN draft[u].rows \in SUBSET Ids
    BY <1>1, ViewFacts
  <1>9. DraftKnown(t, Concerned(t))
    BY <1>1 DEF DraftFits, DraftKnown, Concerned
  <1>10. OthersKept(t)
    BY <1>1, <1>3, <1>4, <1>5, <1>8 DEF OthersKept, DraftFits
  <1>11. \A b \in Ids : rows'[b] # NoRow =>
            /\ rows[b] # NoRow /\ KeyOf(rows'[b]) = KeyOf(rows[b])
            /\ rows[b].hash \notin Concerned(t) => rows'[b].count = rows[b].count
    BY <1>3, <1>9 DEF DraftKnown
  <1>12. \A b \in Ids : rows[b] # NoRow /\ rows[b].hash \notin Concerned(t) => rows'[b] # NoRow
    BY <1>3, <1>9 DEF DraftKnown
  <1>13. \A b \in Ids : rows[b] # NoRow /\ rows[b].hash \notin Concerned(t) =>
           References(files', b) \subseteq References(files, b)
    <2> SUFFICES ASSUME NEW b \in Ids, rows[b] # NoRow, rows[b].hash \notin Concerned(t),
                        NEW i \in Items, Live(files', i), files'[i].blob = b
                 PROVE  Live(files, i) /\ files[i].blob = b
      BY DEF References
    <2>1. b # NoId
      BY NullAssumption
    <2> QED
      BY <2>1, <1>3, <1>9 DEF DraftKnown, Live
  <1>14. RowsKept(t)
    BY <1>11, <1>12, <1>13 DEF RowsKept, RowKept
  <1>15. \A b \in Ids : rows'[b] # NoRow => rows'[b].hash = rows[b].hash
    BY <1>11, <1>2, <1>3, KeyParts
  <1>16. OneRowPerHash'
    BY <1>1, <1>11, <1>15 DEF OneRowPerHash
  <1>17. DraftMoves(t)
    BY <1>4, <1>5 DEF DraftMoves
  <1>18. Linked'
    <2>1. \A i \in Items : files'[i] # NoFile /\ files'[i].blob # NoId => rows'[files'[i].blob] # NoRow
      BY ViewLinked
    <2>2. \A u \in Tasks \ {t} : \A i \in DOMAIN draft[u].files :
            draft[u].files[i].blob # NoId => rows'[draft[u].files[i].blob] # NoRow
      <3> SUFFICES ASSUME NEW u \in Tasks \ {t}, NEW i \in DOMAIN draft[u].files, draft[u].files[i].blob # NoId
                   PROVE  rows'[draft[u].files[i].blob] # NoRow
        OBVIOUS
      <3>1. draft[u].files[i].blob \in Ids /\ rows[draft[u].files[i].blob] # NoRow
        <4>1. draft[u].files[i] \in FileRows
          BY <1>1, ViewFacts
        <4> QED
          BY <4>1, <1>1 DEF Linked, FileRows
      <3>2. draft[u].files[i].blob \in DOMAIN draft[t].rows => draft[t].rows[draft[u].files[i].blob] # NoRow
        BY <1>1 DEF Linked
      <3> QED
        BY <3>1, <3>2, <1>3
    <2>3. \A u \in Tasks \ {t} : \A b \in DOMAIN draft[u].rows : draft[u].rows[b] = NoRow =>
             \A i \in Items : files'[i] # NoFile /\ files'[i].blob = b => i \in DOMAIN draft[u].files
      BY <1>1, <1>3 DEF Linked
    <2> QED
      BY <2>1, <2>2, <2>3, <1>1, <1>4, <1>5 DEF Linked
  <1> QED
    BY <1>7, <1>10, <1>14, <1>16, <1>17, <1>18 DEF Moves

-----------------------------------------------------------------------------
\* A row that is still there and was there has its hash and name.
LEMMA SameRow ==
    ASSUME IInv, NEW t \in Tasks, Moves(t), NEW b \in Ids, rows'[b] # NoRow, ~RowNew(t, b)
    PROVE  /\ rows[b] # NoRow /\ rows'[b].hash = rows[b].hash /\ KeyOf(rows'[b]) = KeyOf(rows[b])
           /\ rows[b].hash \notin Concerned(t) =>
                rows'[b].count = rows[b].count /\ References(files', b) \subseteq References(files, b)
  <1>1. RowKept(t, b)
    BY DEF Moves, RowsKept
  <1>2. rows[b] \in StorageRows /\ rows'[b] \in StorageRows
    BY <1>1 DEF IInv, Typed, Moves, TablesTyped, RowKept
  <1> QED
    BY <1>1, <1>2, KeyParts DEF RowKept, Moves, RowsKept

\* The ids in a task's hand.
LEMMA HandIds ==
    ASSUME NEW r \in Requests
    PROVE  /\ r.id \in Ids \cup {NoId} /\ r.old \in Ids \cup {NoId}
           /\ DOMAIN r.todo \in SUBSET Items
           /\ \A i \in DOMAIN r.todo : r.todo[i] \in Ids \cup {NoId}
  <1>1. r.todo \in Some(Items, Ids \cup {NoId}) /\ r.id \in Ids \cup {NoId} /\ r.old \in Ids \cup {NoId}
    BY DEF Requests
  <1>2. DOMAIN r.todo \in SUBSET Items /\ r.todo \in [DOMAIN r.todo -> Ids \cup {NoId}]
    BY <1>1, SomeFacts
  <1> QED
    BY <1>1, <1>2

\* Nothing that another task has read of other contents has changed.
LEMMA OthersFit ==
    ASSUME IInv, NEW t \in Tasks, Moves(t), BytesStay(t), Proceeds(t), NEW u \in Tasks \ {t}
    PROVE  /\ StepFits(u)' /\ HandsKnown(u)' /\ DraftFits(u)' /\ KeysFit(u)' /\ AloneFits(u)'
           /\ Concerned(t) \cap req[u].touched \subseteq disturbed'
           /\ Exempt' = disturbed'
  <1>1. /\ req'[u] = req[u] /\ step'[u] = step[u] /\ draft'[u] = draft[u] /\ u \in Tasks
        /\ Concerned(t) \cap req[u].touched \subseteq disturbed'
    BY DEF Proceeds, Moves, OthersKept
  <1>2. StepFits(u) /\ HandsKnown(u) /\ DraftFits(u) /\ KeysFit(u)
    BY DEF IInv
  <1>3. StepFits(u)'
    BY <1>1, <1>2 DEF StepFits
  <1>4. HandsKnown(u)'
    <2>1. Contents(req[u])' \subseteq Contents(req[u])
      <3>1. /\ req[u].id \in Ids \cup {NoId} /\ req[u].old \in Ids \cup {NoId}
            /\ \A i \in DOMAIN req[u].todo : req[u].todo[i] \in Ids \cup {NoId}
        <4>1. req[u] \in Requests
          BY DEF IInv, Typed
        <4> QED
          BY <4>1, HandIds
      <3>2. \A c \in InHand(u) : c \in Ids /\ rows'[c] # NoRow => rows[c] # NoRow /\ rows'[c].hash = rows[c].hash
        <4> SUFFICES ASSUME NEW c \in InHand(u), c \in Ids, rows'[c] # NoRow
                     PROVE  rows[c] # NoRow /\ rows'[c].hash = rows[c].hash
          OBVIOUS
        <4>1. ~RowNew(t, c)
          BY <1>1 DEF RowNew, InNoHand
        <4> QED
          BY <4>1, SameRow
      <3>3. \A c \in (InHand(u) \ {NoId}) : c \in Ids
        BY <3>1 DEF InHand
      <3> QED
        BY <3>2, <3>3, <1>1 DEF Contents, InHand
    <2> QED
      BY <2>1, <1>1, <1>2 DEF HandsKnown
  <1>5. DraftFits(u)'
    <2>1. \A b \in DOMAIN draft[u].rows : rows'[b] = rows[b]
      BY DEF Moves, OthersKept
    <2>2. \A i \in DOMAIN draft[u].files : files'[i] = files[i]
      BY DEF Moves, OthersKept
    <2>3. \A i \in DOMAIN draft[u].files : draft[u].files[i].blob # NoId =>
            rows'[draft[u].files[i].blob].hash = rows[draft[u].files[i].blob].hash
      <3> SUFFICES ASSUME NEW i \in DOMAIN draft[u].files, draft[u].files[i].blob # NoId
                   PROVE  rows'[draft[u].files[i].blob].hash = rows[draft[u].files[i].blob].hash
        OBVIOUS
      <3>1. draft[u].files[i].blob \in Ids
        <4>1. draft[u].files[i] \in FileRows
          BY <1>1, ViewFacts DEF IInv, Typed
        <4> QED
          BY <4>1 DEF FileRows
      <3>2. rows[draft[u].files[i].blob] # NoRow
        BY <1>1 DEF IInv, Linked
      <3>3. rows'[draft[u].files[i].blob] # NoRow
        BY <1>1 DEF Moves, Linked
      <3> QED
        BY <3>1, <3>2, <3>3, SameRow DEF RowNew
    <2>4. DraftKnown(u, req[u].touched)'
      BY <2>1, <2>2, <2>3, <1>1, <1>2 DEF DraftFits, DraftKnown, Live
    <2>5. \A v \in Tasks \ {u} : /\ DOMAIN draft'[u].files \cap DOMAIN draft'[v].files = {}
                                 /\ DOMAIN draft'[u].rows \cap DOMAIN draft'[v].rows = {}
      BY <1>1, <1>2 DEF Moves, OthersKept, DraftFits
    <2> QED
      BY <2>4, <2>5, <1>1 DEF DraftFits
  <1>6. ~Alone /\ Exempt' = disturbed' /\ Exempt = disturbed /\ disturbed \subseteq disturbed'
    BY DEF Alone, Exempt, Proceeds
  <1>7. AloneFits(u)'
    BY <1>6 DEF AloneFits
  <1>8. KeysFit(u)'
    <2>1. ASSUME step[u] = "insert_row", req[u].hash \notin disturbed'
          PROVE  <<req[u].hash, req[u].at.name>> \in objects'
      <3>1. <<req[u].hash, req[u].at.name>> \in objects
        BY <2>1, <1>2, <1>6 DEF KeysFit
      <3>2. req[u].hash \in req[u].touched
        <4>1. req[u].op = "upload" /\ req[u].hash \in Hashes
          BY <2>1, <1>2 DEF StepFits
        <4> QED
          BY <4>1, <1>2, NullAssumption DEF HandsKnown, Contents
      <3>3. <<req[u].hash, req[u].at.name>>[1] \notin Concerned(t)
        BY <3>2, <2>1, <1>1
      <3> QED
        BY <3>1, <3>3 DEF BytesStay
    <2>2. ASSUME step[u] \in {"delete_object", "purge_object"}, req[u].key[1] \notin disturbed'
          PROVE  rows'[req[u].id] # NoRow /\ KeyOf(rows'[req[u].id]) = req[u].key
      <3>1. req[u].key[1] \in req[u].touched /\ req[u].id \in Ids
        BY <2>2, <1>2 DEF StepFits
      <3>2. rows[req[u].id] # NoRow /\ KeyOf(rows[req[u].id]) = req[u].key
        BY <2>2, <1>2, <1>6 DEF KeysFit
      <3>3. rows[req[u].id].hash = req[u].key[1]
        BY <3>2 DEF KeyOf
      <3>4. rows[req[u].id].hash \notin Concerned(t)
        BY <3>1, <3>3, <2>2, <1>1
      <3>5. rows'[req[u].id] # NoRow
        BY <3>1, <3>2, <3>4 DEF Moves, RowsKept
      <3> QED
        BY <3>1, <3>2, <3>5, SameRow DEF RowNew
    <2> QED
      BY <2>1, <2>2, <1>1, <1>6 DEF KeysFit
  <1> QED
    BY <1>1, <1>3, <1>4, <1>5, <1>6, <1>7, <1>8

\* Fewer references are covered as well.
LEMMA CoversFewer ==
    ASSUME NEW s, NEW r \in Requests, NEW fs, NEW gs, NEW n \in Int, NEW b,
           References(gs, b) \subseteq References(fs, b), Covers(s, r, fs, n, b)
    PROVE  Covers(s, r, gs, n, b)
  <1>1. References(fs, b) \in SUBSET Items /\ References(gs, b) \in SUBSET Items
    BY ReferencesFinite
  <1>2. /\ Cardinality(References(fs, b) \ (Entries(r, b) \cup Leaving(s, r, b))) \in Nat
        /\ Cardinality(References(gs, b) \ (Entries(r, b) \cup Leaving(s, r, b))) \in Nat
        /\ Cardinality(References(gs, b) \ (Entries(r, b) \cup Leaving(s, r, b)))
             <= Cardinality(References(fs, b) \ (Entries(r, b) \cup Leaving(s, r, b)))
    BY <1>1, CardMono
  <1>3. Cardinality(Entries(r, b)) \in Nat
    <2>1. Entries(r, b) \in SUBSET Items
      BY HandIds DEF Entries
    <2> QED
      BY <2>1, CardMono
  <1>4. Ahead(s, r, b) \in Int
    BY DEF Ahead
  <1> QED
    BY <1>2, <1>3, <1>4 DEF Covers

\* Another task's counts are as they were.
LEMMA OthersCount ==
    ASSUME IInv, NEW t \in Tasks, Moves(t), Proceeds(t), NEW u \in Tasks \ {t}, NEW b \in Ids,
           rows'[b] # NoRow, rows'[b].hash \in req[u].touched, rows'[b].hash \notin disturbed'
    PROVE  CountFits(u, b)'
  <1>1. /\ req'[u] = req[u] /\ step'[u] = step[u] /\ draft'[u] = draft[u] /\ u \in Tasks
        /\ Concerned(t) \cap req[u].touched \subseteq disturbed'
    BY DEF Proceeds, Moves, OthersKept
  <1>2. rows'[b].hash \notin Concerned(t)
    BY <1>1
  <1>3. /\ rows[b] # NoRow /\ rows'[b].hash = rows[b].hash /\ rows'[b].count = rows[b].count
        /\ References(files', b) \subseteq References(files, b)
    BY <1>2, SameRow DEF RowNew
  <1>4. CountFits(u, b)
    BY <1>3 DEF IInv, Counted, Exempt, Proceeds
  <1>5. /\ Files(u) \in [Items -> FileRows \cup {NoFile}]
        /\ Rows(u) \in [Ids -> StorageRows \cup {NoRow}]
        /\ \A i \in DOMAIN draft[u].files : Files(u)[i] = draft[u].files[i]
        /\ \A i \in Items \ DOMAIN draft[u].files : Files(u)[i] = files[i]
        /\ \A c \in DOMAIN draft[u].rows : Rows(u)[c] = draft[u].rows[c]
        /\ \A c \in Ids \ DOMAIN draft[u].rows : Rows(u)[c] = rows[c]
    BY ViewFacts DEF IInv, Typed
  <1>6. /\ Files(u)' \in [Items -> FileRows \cup {NoFile}]
        /\ \A i \in DOMAIN draft[u].files : Files(u)'[i] = draft[u].files[i]
        /\ \A i \in Items \ DOMAIN draft[u].files : Files(u)'[i] = files'[i]
        /\ \A c \in DOMAIN draft[u].rows : Rows(u)'[c] = draft[u].rows[c]
        /\ \A c \in Ids \ DOMAIN draft[u].rows : Rows(u)'[c] = rows'[c]
    BY <1>1, ViewNext DEF Moves
  <1>7. Rows(u)'[b] # NoRow <=> Rows(u)[b] # NoRow
    BY <1>3, <1>5, <1>6
  <1>8. Rows(u)'[b].count = Rows(u)[b].count
    BY <1>3, <1>5, <1>6
  <1>9. References(Files(u), b)' \subseteq References(Files(u), b)
    <2> SUFFICES ASSUME NEW i \in Items, Live(Files(u), i)', Files(u)'[i].blob = b
                 PROVE  Live(Files(u), i) /\ Files(u)[i].blob = b
      BY DEF References
    <2>1. CASE i \in DOMAIN draft[u].files
      BY <2>1, <1>5, <1>6 DEF Live
    <2>2. CASE i \notin DOMAIN draft[u].files
      <3>1. Live(files', i) /\ files'[i].blob = b
        BY <2>2, <1>6 DEF Live
      <3>2. Live(files, i) /\ files[i].blob = b
        BY <3>1, <1>3 DEF References
      <3> QED
        BY <3>2, <2>2, <1>5 DEF Live
    <2> QED
      BY <2>1, <2>2
  <1>10. ASSUME Rows(u)'[b] # NoRow
         PROVE  Covers(step[u], req[u], Files(u)', Rows(u)'[b].count, b)
    <2>1. Covers(step[u], req[u], Files(u), Rows(u)[b].count, b)
      BY <1>10, <1>4, <1>7 DEF CountFits, CountsAs
    <2>2. Rows(u)[b].count \in Int /\ req[u] \in Requests
      BY <1>1, <1>5, <1>7, <1>10 DEF StorageRows, IInv, Typed
    <2>3. References(Files(u)', b) \subseteq References(Files(u), b)
      BY <1>9 DEF References, Live
    <2> QED
      BY <2>1, <2>2, <2>3, <1>8, CoversFewer
  <1>11. CountFits(u, b)' <=>
           (Rows(u)'[b] # NoRow =>
              /\ Covers(step[u], req[u], Files(u)', Rows(u)'[b].count, b)
              /\ req[u].id = b =>
                   /\ step[u] = "raise" => req[u].count = Rows(u)'[b].count + 1
                   /\ step[u] = "lower" => req[u].count = Rows(u)'[b].count - 1
                   /\ step[u] = "delete_object" => Rows(u)'[b].count <= 0)
    BY <1>1 DEF CountFits, CountsAs, Covers, References, Live
  <1> QED
    BY <1>4, <1>7, <1>8, <1>10, <1>11 DEF CountFits, CountsAs

\* No items, none counted.
LEMMA NothingCounted == Cardinality({}) = 0
  BY FS_EmptySet

\* Without items still to do.
LEMMA PlainCovers ==
    ASSUME NEW s, NEW r, NEW fs, NEW n, NEW b, r.op \notin {"delete_item", "expire"} \/ DOMAIN r.todo = {}
    PROVE  Covers(s, r, fs, n, b) <=>
             n >= Cardinality(References(fs, b) \ Leaving(s, r, b)) + Ahead(s, r, b)
  <1>1. Entries(r, b) = {}
    BY DEF Entries
  <1>2. References(fs, b) \ (Entries(r, b) \cup Leaving(s, r, b)) = References(fs, b) \ Leaving(s, r, b)
    BY <1>1
  <1>3. Cardinality(References(fs, b) \ Leaving(s, r, b)) \in Nat
    BY ReferencesFinite, CardMono
  <1>4. Ahead(s, r, b) \in Int
    BY DEF Ahead
  <1> QED
    BY <1>1, <1>2, <1>3, <1>4, NothingCounted DEF Covers

\* A request that has ended counts nothing but the references.
LEMMA IdleCovers ==
    ASSUME NEW fs, NEW n, NEW b
    PROVE  Covers("idle", NoReq, fs, n, b) <=> n >= Cardinality(References(fs, b))
  <1>1. NoReq.op = "none"
    BY DEF NoReq
  <1>2. Leaving("idle", NoReq, b) = {} /\ Ahead("idle", NoReq, b) = 0
    BY <1>1 DEF Leaving, Ahead
  <1>3. References(fs, b) \ {} = References(fs, b) /\ Cardinality(References(fs, b)) \in Nat
    BY ReferencesFinite
  <1> QED
    BY <1>1, <1>2, <1>3, PlainCovers

\* A step of t that moves rows and bytes as above, and leaves t with what it is to know, keeps the invariant.
LEMMA StepKeeps ==
    ASSUME IInv, NEW t \in Tasks, Moves(t), BytesStay(t), Proceeds(t), OwnFits(t)
    PROVE  IInv'
  <1>0. /\ Typed /\ DraftFits(t) /\ StepFits(t) /\ MeetingsRecorded /\ Counted /\ BytesKept
        /\ HandsKnown(t)
    BY DEF IInv
  <1>1. Typed'
    BY DEF Typed, Moves, Proceeds
  <1>2. \A u \in Tasks \ {t} :
          /\ StepFits(u)' /\ HandsKnown(u)' /\ DraftFits(u)' /\ KeysFit(u)' /\ AloneFits(u)'
          /\ Concerned(t) \cap req[u].touched \subseteq disturbed'
          /\ Exempt' = disturbed' /\ req'[u] = req[u]
    BY OthersFit DEF Proceeds
  <1>3. StepFits(t)' /\ HandsKnown(t)' /\ KeysFit(t)' /\ AloneFits(t)'
    BY DEF OwnFits
  <1>4. /\ step'[t] = "idle" => req'[t] = NoReq /\ draft'[t] = NoDraft /\ req'[t].touched = {}
        /\ step'[t] # "idle" => req'[t].touched = Concerned(t)
    BY <1>3 DEF StepFits, NoReq, Proceeds, Concerned, BulkOps
  <1>5. DraftFits(t)'
    <2>1. DraftKnown(t, req[t].touched)'
      <3>1. CASE step'[t] = "idle"
        <4>1. DOMAIN draft'[t].files = {} /\ DOMAIN draft'[t].rows = {}
          BY <3>1, <1>4, EmptySome DEF NoDraft
        <4> QED
          BY <4>1 DEF DraftKnown
      <3>2. CASE step'[t] # "idle"
        BY <3>2, <1>4 DEF DraftKnown, Moves, DraftMoves, Live
      <3> QED
        BY <3>1, <3>2
    <2>2. \A u \in Tasks \ {t} : /\ DOMAIN draft'[t].files \cap DOMAIN draft'[u].files = {}
                                 /\ DOMAIN draft'[t].rows \cap DOMAIN draft'[u].rows = {}
      BY DEF Moves, OthersKept
    <2> QED
      BY <2>1, <2>2 DEF DraftFits
  <1>6. MeetingsRecorded'
    <2> SUFFICES ASSUME NEW u \in Tasks, NEW v \in Tasks, u # v
                 PROVE  req'[u].touched \cap req'[v].touched \subseteq disturbed'
      BY DEF MeetingsRecorded
    <2>1. req'[t].touched \subseteq Concerned(t) /\ disturbed \subseteq disturbed'
      BY DEF Concerned, Proceeds
    <2>2. CASE u = t
      BY <2>1, <2>2, <1>2
    <2>3. CASE v = t
      BY <2>1, <2>3, <1>2
    <2>4. CASE u # t /\ v # t
      BY <2>1, <2>4, <1>2, <1>0 DEF MeetingsRecorded
    <2> QED
      BY <2>2, <2>3, <2>4
  <1>7. Counted'
    <2> SUFFICES ASSUME NEW b \in Ids, rows'[b] # NoRow, rows'[b].hash \notin Exempt'
                 PROVE  /\ (\A u \in Tasks : rows'[b].hash \notin req'[u].touched) =>
                             rows'[b].count >= Cardinality(References(files', b))
                        /\ \A u \in Tasks : rows'[b].hash \in req'[u].touched => CountFits(u, b)'
      BY DEF Counted, References, Live
    <2>1. ASSUME rows'[b].hash \in Concerned(t)
          PROVE  CountFits(t, b)'
      BY <2>1 DEF OwnFits
    <2>2. ASSUME NEW u \in Tasks, rows'[b].hash \in req'[u].touched
          PROVE  CountFits(u, b)'
      <3>1. CASE u = t
        BY <3>1, <2>1, <2>2 DEF Concerned
      <3>2. CASE u # t
        BY <3>2, <2>2, <1>2, OthersCount
      <3> QED
        BY <3>1, <3>2
    <2>3. ASSUME \A u \in Tasks : rows'[b].hash \notin req'[u].touched
          PROVE  rows'[b].count >= Cardinality(References(files', b))
      <3>1. CASE rows'[b].hash \in Concerned(t)
        <4>1. step'[t] = "idle" /\ req'[t] = NoReq /\ draft'[t] = NoDraft
          BY <3>1, <2>3, <1>4
        <4>2. Files(t)' = files' /\ Rows(t)' = rows'
          <5>1. DOMAIN draft'[t].files = {} /\ DOMAIN draft'[t].rows = {}
            BY <4>1, EmptySome DEF NoDraft
          <5>2. files' \in [Items -> FileRows \cup {NoFile}] /\ rows' \in [Ids -> StorageRows \cup {NoRow}]
            BY <1>1 DEF Typed, TablesTyped
          <5> QED
            BY <5>1, <5>2, OverNothing DEF Files, Rows
        <4>3. Covers(step'[t], req'[t], Files(t)', Rows(t)'[b].count, b)
          BY <2>1, <3>1, <4>2 DEF CountFits, CountsAs, Covers, References, Live
        <4>4. Covers("idle", NoReq, files', rows'[b].count, b)
          BY <4>1, <4>2, <4>3
        <4> QED
          BY <4>4, IdleCovers
      <3>2. CASE rows'[b].hash \notin Concerned(t)
        <4>1. /\ rows[b] # NoRow /\ rows'[b].hash = rows[b].hash /\ rows'[b].count = rows[b].count
              /\ References(files', b) \subseteq References(files, b)
          BY <3>2, SameRow DEF RowNew
        <4>2. rows[b].hash \notin Exempt
          BY <4>1 DEF Exempt, Proceeds
        <4>3. \A u \in Tasks : rows[b].hash \notin req[u].touched
          BY <4>1, <2>3, <3>2, <1>2 DEF Concerned
        <4>4. rows[b].count >= Cardinality(References(files, b))
          BY <4>1, <4>2, <4>3, <1>0 DEF Counted
        <4>5. /\ Cardinality(References(files, b)) \in Nat /\ Cardinality(References(files', b)) \in Nat
              /\ Cardinality(References(files', b)) <= Cardinality(References(files, b))
          BY <4>1, ReferencesFinite, CardMono
        <4>6. rows[b].count \in Int
          BY <4>1, <1>0 DEF Typed, TablesTyped, StorageRows
        <4> QED
          BY <4>1, <4>4, <4>5, <4>6
      <3> QED
        BY <3>1, <3>2
    <2> QED
      BY <2>2, <2>3
  <1>8. BytesKept'
    <2> SUFFICES ASSUME NEW b \in Ids, rows'[b] # NoRow, rows'[b].hash \notin disturbed'
                 PROVE  KeyOf(rows'[b]) \in objects' \/ \E u \in Tasks : Missing(u, b)'
      BY DEF BytesKept, KeyOf
    <2>1. CASE rows'[b].hash \in Concerned(t)
      BY <2>1 DEF OwnFits
    <2>2. CASE rows'[b].hash \notin Concerned(t)
      <3>1. /\ rows[b] # NoRow /\ rows'[b].hash = rows[b].hash /\ KeyOf(rows'[b]) = KeyOf(rows[b])
            /\ rows[b].hash \notin Concerned(t) /\ rows[b].hash \notin disturbed
        BY <2>2, SameRow DEF RowNew, Proceeds
      <3>2. CASE KeyOf(rows[b]) \in objects
        <4>1. KeyOf(rows[b])[1] = rows[b].hash
          BY DEF KeyOf
        <4> QED
          BY <3>1, <3>2, <4>1 DEF BytesStay
      <3>3. CASE \E u \in Tasks : Missing(u, b)
        <4>1. PICK u \in Tasks : Missing(u, b)
          BY <3>3
        <4>2. u # t
          <5>1. ASSUME Rows(t)[b] = NoRow
                PROVE  FALSE
            <6>1. b \in DOMAIN draft[t].rows
              BY <5>1, <3>1, <1>0, ViewFacts DEF Typed
            <6> QED
              BY <6>1, <3>1, <1>0 DEF DraftFits, DraftKnown, Concerned
          <5>2. ASSUME req[t].id = b, step[t] \in {"delete_row", "purge_files", "purge_row"}
                PROVE  FALSE
            <6>1. rows[b].hash \in Contents(req[t])
              BY <5>2, <3>1, <1>0, NullAssumption DEF Contents, StepFits, LoopOps, BulkOps
            <6> QED
              BY <6>1, <3>1, <1>0 DEF HandsKnown, Concerned
          <5> QED
            BY <4>1, <5>1, <5>2 DEF Missing
        <4>3. req'[u] = req[u] /\ step'[u] = step[u] /\ draft'[u] = draft[u]
          BY <4>2 DEF Proceeds, Moves, OthersKept
        <4>4. Rows(u)[b] = NoRow => Rows(u)'[b] = NoRow
          <5>1. /\ \A c \in DOMAIN draft[u].rows : Rows(u)[c] = draft[u].rows[c]
                /\ \A c \in Ids \ DOMAIN draft[u].rows : Rows(u)[c] = rows[c]
            BY <1>0, ViewFacts DEF Typed
          <5>2. \A c \in DOMAIN draft[u].rows : Rows(u)'[c] = draft[u].rows[c]
            BY <1>1, <4>3, ViewNext DEF Typed
          <5> QED
            BY <5>1, <5>2, <3>1
        <4>5. Missing(u, b)'
          BY <4>1, <4>3, <4>4 DEF Missing
        <4> QED
          BY <4>5
      <3> QED
        BY <3>1, <3>2, <3>3, <1>0 DEF BytesKept
    <2> QED
      BY <2>1, <2>2
  <1>9. OneRowPerHash' /\ Linked'
    BY DEF Moves
  <1> QED
    BY <1>1, <1>2, <1>3, <1>5, <1>6, <1>7, <1>8, <1>9 DEF IInv

-----------------------------------------------------------------------------
\* The local variables that the counts depend on.
SameHands(q, r) ==
    /\ q.op = r.op /\ q.id = r.id /\ q.old = r.old /\ q.item = r.item /\ q.target = r.target
    /\ q.count = r.count /\ q.todo = r.todo

\* Requests with the same hands know the same of the counts.
LEMMA SameCounts ==
    ASSUME NEW s, NEW q, NEW r, NEW fs, NEW rs, NEW b, SameHands(q, r)
    PROVE  CountsAs(s, q, fs, rs, b) <=> CountsAs(s, r, fs, rs, b)
  BY DEF SameHands, CountsAs, Covers, Entries, Leaving, Ahead

\* What is in hand are contents.
LEMMA ContentsTyped ==
    ASSUME IInv, NEW r \in Requests
    PROVE  Contents(r) \subseteq Hashes
  <1>1. /\ r.id \in Ids \cup {NoId} /\ r.old \in Ids \cup {NoId}
        /\ \A i \in DOMAIN r.todo : r.todo[i] \in Ids \cup {NoId}
    BY HandIds
  <1>2. r.hash \in Hashes \cup {NoHash}
    BY DEF Requests
  <1>3. \A b \in Ids : rows[b] # NoRow => rows[b].hash \in Hashes
    BY DEF IInv, Typed, TablesTyped, StorageRows
  <1> QED
    BY <1>1, <1>2, <1>3 DEF Contents

\* A request goes on.
LEMMA GotoFacts ==
    ASSUME IInv, NEW t \in Tasks, NEW s \in Steps, NEW r \in Requests, Goto(t, s, r)
    PROVE  /\ Proceeds(t) /\ step'[t] = s
           /\ Concerned(t) = req[t].touched \cup Contents(r) /\ req'[t].touched = Concerned(t)
           /\ SameHands(req'[t], r)
           /\ req'[t].at = r.at /\ req'[t].hash = r.hash /\ req'[t].expires = r.expires /\ req'[t].key = r.key
  <1>1. step \in [Tasks -> Steps] /\ req \in [Tasks -> Requests] /\ disturbed \subseteq Hashes
    BY DEF IInv, Typed
  <1>2. /\ step' = [step EXCEPT ![t] = s]
        /\ req' = [req EXCEPT ![t] = [r EXCEPT !.touched = req[t].touched \cup Contents(r)]]
        /\ disturbed' = disturbed \cup {h \in req[t].touched \cup Contents(r) :
                                          \E u \in Tasks \ {t} : h \in req[u].touched}
        /\ spent' = spent
    BY DEF Goto
  <1>3. req[t].touched \in SUBSET Hashes /\ Contents(r) \subseteq Hashes
    BY <1>1, ContentsTyped DEF Requests
  <1>4. [r EXCEPT !.touched = req[t].touched \cup Contents(r)] \in Requests
    BY <1>3 DEF Requests
  <1>5. /\ req'[t] = [r EXCEPT !.touched = req[t].touched \cup Contents(r)]
        /\ \A u \in Tasks \ {t} : req'[u] = req[u] /\ step'[u] = step[u]
        /\ step'[t] = s /\ step' \in [Tasks -> Steps] /\ req' \in [Tasks -> Requests]
    BY <1>1, <1>2, <1>4
  <1>6. /\ req'[t].touched = req[t].touched \cup Contents(r)
        /\ SameHands(req'[t], r)
        /\ req'[t].at = r.at /\ req'[t].hash = r.hash /\ req'[t].expires = r.expires /\ req'[t].key = r.key
    BY <1>5 DEF Requests, SameHands
  <1>7. Concerned(t) = req[t].touched \cup Contents(r)
    BY <1>6 DEF Concerned
  <1>8. disturbed \subseteq disturbed' /\ disturbed' \subseteq Hashes
    BY <1>1, <1>2, <1>3
  <1>9. \A u \in Tasks \ {t} : Concerned(t) \cap req[u].touched \subseteq disturbed'
    BY <1>2, <1>7
  <1>10. spent' \in [requests : Nat, faults : Nat]
    BY <1>2 DEF IInv, Typed
  <1> QED
    BY <1>5, <1>6, <1>7, <1>8, <1>9, <1>10 DEF Proceeds

\* The local variables of no request.
LEMMA NoReqTyped ==
    /\ NoReq \in Requests /\ NoReq.op = "none" /\ NoReq.touched = {} /\ Contents(NoReq) = {}
    /\ NoReq.id = NoId /\ NoReq.old = NoId /\ DOMAIN NoReq.todo = {} /\ NoReq.hash = NoHash
  <1>1. <<>> \in Some(Items, Ids \cup {NoId}) /\ DOMAIN <<>> = {}
    BY EmptySome
  <1>2. "none" \in Ops \cup {"none"} /\ 0 \in Int /\ {} \in SUBSET Hashes /\ NoItem \in Items \cup {NoItem}
    OBVIOUS
  <1>3. NoReq \in Requests
    BY <1>1, <1>2 DEF NoReq, Requests
  <1>4. /\ NoReq.op = "none" /\ NoReq.touched = {} /\ NoReq.id = NoId /\ NoReq.old = NoId
        /\ NoReq.hash = NoHash /\ NoReq.todo = <<>>
    BY DEF NoReq
  <1>5. Contents(NoReq) = {}
    BY <1>1, <1>4 DEF Contents
  <1> QED
    BY <1>1, <1>3, <1>4, <1>5

\* A request ends.
LEMMA EndFacts ==
    ASSUME IInv, NEW t \in Tasks,
           step' = [step EXCEPT ![t] = "idle"], req' = [req EXCEPT ![t] = NoReq],
           spent' \in [requests : Nat, faults : Nat],
           disturbed' = disturbed \/ disturbed' = disturbed \cup req[t].touched
    PROVE  /\ Proceeds(t) /\ step'[t] = "idle" /\ req'[t] = NoReq
           /\ Concerned(t) = req[t].touched
  <1>1. /\ step \in [Tasks -> Steps] /\ req \in [Tasks -> Requests] /\ disturbed \subseteq Hashes
        /\ MeetingsRecorded
    BY DEF IInv, Typed
  <1>2. "idle" \in Steps /\ NoReq \in Requests /\ NoReq.touched = {}
    BY NoReqTyped DEF Steps
  <1>3. /\ step'[t] = "idle" /\ req'[t] = NoReq /\ step' \in [Tasks -> Steps] /\ req' \in [Tasks -> Requests]
        /\ \A u \in Tasks \ {t} : req'[u] = req[u] /\ step'[u] = step[u]
    BY <1>1, <1>2
  <1>4. Concerned(t) = req[t].touched /\ req[t].touched \in SUBSET Hashes
    BY <1>1, <1>2, <1>3 DEF Concerned, Requests
  <1>5. \A u \in Tasks \ {t} : Concerned(t) \cap req[u].touched \subseteq disturbed'
    BY <1>1, <1>4 DEF MeetingsRecorded
  <1> QED
    BY <1>1, <1>3, <1>4, <1>5 DEF Proceeds

\* What a request has in hand after a step it is known to have touched.
LEMMA HandsNext ==
    ASSUME IInv, NEW t \in Tasks, Moves(t), Proceeds(t), NEW r \in Requests, SameHands(req'[t], r),
           req'[t].hash = r.hash, r.op # "scan", Contents(r) \subseteq req'[t].touched,
           req'[t].touched = Concerned(t)
    PROVE  HandsKnown(t)'
  <1>1. /\ r.id \in Ids \cup {NoId} /\ r.old \in Ids \cup {NoId}
        /\ \A i \in DOMAIN r.todo : r.todo[i] \in Ids \cup {NoId}
    BY HandIds
  <1>2. \A c \in Ids : rows'[c] # NoRow =>
          rows'[c].hash \in Concerned(t) \/ (rows[c] # NoRow /\ rows'[c].hash = rows[c].hash)
    BY SameRow DEF RowNew
  <1> QED
    BY <1>1, <1>2 DEF HandsKnown, Contents, SameHands

\* A request that has ended has nothing in hand.
LEMMA HandsOver ==
    ASSUME NEW t \in Tasks, req'[t] = NoReq
    PROVE  HandsKnown(t)'
  <1>1. /\ NoReq.op = "none" /\ NoReq.touched = {} /\ NoReq.id = NoId /\ NoReq.old = NoId
        /\ DOMAIN NoReq.todo = {} /\ NoReq.hash = NoHash
    BY NoReqTyped
  <1> QED
    BY <1>1 DEF HandsKnown, Contents

\* What a request may rely on of the contents that nobody else has in hand: also of
\* those that it takes in hand.
LEMMA CountsKnown ==
    ASSUME IInv, NEW t \in Tasks, Proceeds(t), req[t].op # "scan", NEW b \in Ids, rows[b] # NoRow,
           rows[b].hash \in Concerned(t), rows[b].hash \notin Exempt'
    PROVE  CountFits(t, b)
  <1>0. /\ Typed /\ Counted /\ HandsKnown(t) /\ DraftFits(t) /\ TablesTyped
    BY DEF IInv, Typed
  <1>1. rows[b].hash \notin Exempt
    BY DEF Exempt, Proceeds
  <1>2. CASE rows[b].hash \in req[t].touched
    BY <1>0, <1>1, <1>2 DEF Counted
  <1>3. CASE rows[b].hash \notin req[t].touched
    <2>1. ASSUME NEW u \in Tasks, rows[b].hash \in req[u].touched
          PROVE  FALSE
      <3>1. u # t /\ ~Alone
        BY <2>1, <1>3 DEF Alone
      <3> QED
        BY <2>1, <3>1 DEF Proceeds, Exempt
    <2>2. rows[b].count >= Cardinality(References(files, b))
      BY <2>1, <1>0, <1>1 DEF Counted
    <2>3. b # NoId /\ b # req[t].id /\ b # req[t].old /\ \A i \in DOMAIN req[t].todo : req[t].todo[i] # b
      BY <1>3, <1>0, NullAssumption DEF HandsKnown, Contents
    <2>4. b \notin DOMAIN draft[t].rows
      BY <1>3, <1>0 DEF DraftFits, DraftKnown
    <2>5. Rows(t)[b] = rows[b]
      BY <2>4, <1>0, ViewFacts
    <2>6. References(Files(t), b) \subseteq References(files, b)
      <3>1. /\ \A i \in DOMAIN draft[t].files : Files(t)[i] = draft[t].files[i]
            /\ \A i \in Items \ DOMAIN draft[t].files : Files(t)[i] = files[i]
        BY <1>0, ViewFacts
      <3> SUFFICES ASSUME NEW i \in Items, Live(Files(t), i), Files(t)[i].blob = b
                   PROVE  Live(files, i) /\ files[i].blob = b
        BY DEF References
      <3> QED
        BY <3>1, <2>3, <1>3, <1>0 DEF DraftFits, DraftKnown, Live
    <2>7. /\ Entries(req[t], b) = {} /\ Leaving(step[t], req[t], b) = {} /\ Ahead(step[t], req[t], b) = 0
      BY <2>3 DEF Entries, Leaving, Ahead
    <2>8. /\ Cardinality(References(Files(t), b)) \in Nat /\ Cardinality(References(files, b)) \in Nat
          /\ Cardinality(References(Files(t), b)) <= Cardinality(References(files, b))
      BY <2>6, ReferencesFinite, CardMono
    <2>9. rows[b].count \in Int
      BY <1>0 DEF TablesTyped, StorageRows
    <2>10. References(Files(t), b) \ ({} \cup {}) = References(Files(t), b)
      OBVIOUS
    <2>11. Covers(step[t], req[t], Files(t), Rows(t)[b].count, b)
      BY <2>2, <2>5, <2>7, <2>8, <2>9, <2>10, NothingCounted DEF Covers
    <2> QED
      BY <2>3, <2>11 DEF CountFits, CountsAs
  <1> QED
    BY <1>2, <1>3

\* The bytes of a content that only t has in hand are there, or t has deleted them.
LEMMA BytesKnown ==
    ASSUME IInv, NEW t \in Tasks, Proceeds(t), NEW b \in Ids, rows[b] # NoRow,
           rows[b].hash \in Concerned(t), rows[b].hash \notin disturbed'
    PROVE  KeyOf(rows[b]) \in objects \/ Missing(t, b)
  <1>1. rows[b].hash \notin disturbed
    BY DEF Proceeds
  <1>2. ASSUME NEW u \in Tasks \ {t}, Missing(u, b)
        PROVE  FALSE
    <2>0. DraftFits(u) /\ HandsKnown(u) /\ StepFits(u) /\ TablesTyped /\ u \in Tasks
      BY DEF IInv, Typed
    <2>1. rows[b].hash \notin req[u].touched
      BY DEF Proceeds
    <2>2. Rows(u)[b] # NoRow
      <3>1. b \notin DOMAIN draft[u].rows
        BY <2>0, <2>1 DEF DraftFits, DraftKnown
      <3> QED
        BY <2>0, <3>1, ViewFacts
    <2>3. rows[b].hash \in Contents(req[u])
      BY <1>2, <2>0, <2>2, NullAssumption DEF Missing, Contents, StepFits, LoopOps, BulkOps
    <2> QED
      BY <2>0, <2>1, <2>3 DEF HandsKnown
  <1> QED
    BY <1>1, <1>2 DEF IInv, BytesKept

-----------------------------------------------------------------------------
\* A transaction goes on as it was, and a rename finds its file.
LEMMA AloneNext ==
    ASSUME IInv, NEW t \in Tasks, draft'[t].open => draft[t].open /\ files' = files /\ rows' = rows,
           Alone /\ step'[t] \in {"find_target", "merge", "retire", "rename_file"} =>
             files'[req'[t].item] # NoFile
    PROVE  AloneFits(t)'
  BY DEF IInv, AloneFits, References, Live

\* What t has to show for a step to statement s with local variables r.
LEMMA OwnStep ==
    ASSUME IInv, NEW t \in Tasks, NEW s, NEW r, Moves(t), BytesStay(t), Proceeds(t), step'[t] = s,
           SameHands(req'[t], r), req[t].op # "scan",
           StepFits(t)', HandsKnown(t)', KeysFit(t)', AloneFits(t)',
           \A b \in Ids : rows[b] = NoRow => rows'[b] = NoRow,
           \A b \in Ids : rows[b] # NoRow /\ CountFits(t, b) => CountsAs(s, r, Files(t)', Rows(t)', b),
           \A b \in Ids : rows[b] # NoRow /\ rows[b].hash \notin disturbed'
                            /\ (KeyOf(rows[b]) \in objects \/ Missing(t, b)) =>
             rows'[b] = NoRow \/ KeyOf(rows[b]) \in objects' \/ Missing(t, b)'
    PROVE  IInv'
  <1>1. \A b \in Ids : rows'[b] # NoRow =>
          rows[b] # NoRow /\ rows'[b].hash = rows[b].hash /\ KeyOf(rows'[b]) = KeyOf(rows[b])
    BY SameRow DEF RowNew
  <1>2. ASSUME NEW b \in Ids, rows'[b] # NoRow, rows'[b].hash \in Concerned(t) \ Exempt'
        PROVE  CountFits(t, b)'
    <2>1. CountFits(t, b)
      BY <1>1, <1>2, CountsKnown
    <2>2. CountsAs(s, r, Files(t)', Rows(t)', b)
      BY <1>1, <1>2, <2>1
    <2>3. CountsAs(s, req'[t], Files(t)', Rows(t)', b)
      BY <2>2, SameCounts
    <2> QED
      BY <2>3 DEF CountFits, CountsAs, Covers, References, Live
  <1>3. ASSUME NEW b \in Ids, rows'[b] # NoRow, rows'[b].hash \in Concerned(t) \ disturbed'
        PROVE  KeyOf(rows'[b]) \in objects' \/ Missing(t, b)'
    BY <1>1, <1>3, BytesKnown
  <1>4. OwnFits(t)
    BY <1>2, <1>3 DEF OwnFits
  <1> QED
    BY <1>4, StepKeeps

\* Most statements delete no bytes and no row.
PlainStep(t) ==
    /\ Moves(t) /\ objects \subseteq objects'
    /\ step[t] \notin {"delete_row", "purge_files", "purge_row"}
    /\ \A b \in Ids : Rows(t)[b] = NoRow => Rows(t)'[b] = NoRow
    /\ \A b \in Ids : rows[b] = NoRow => rows'[b] = NoRow

\* A plain step leaves t what it knows of the bytes.
LEMMA PlainBytes ==
    ASSUME IInv, NEW t \in Tasks, PlainStep(t)
    PROVE  /\ BytesStay(t)
           /\ \A b \in Ids : rows[b] # NoRow /\ (KeyOf(rows[b]) \in objects \/ Missing(t, b)) =>
                KeyOf(rows[b]) \in objects' \/ Missing(t, b)'
  <1>1. BytesStay(t)
    BY DEF PlainStep, BytesStay
  <1>2. \A b \in Ids : Missing(t, b) => Missing(t, b)'
    BY DEF PlainStep, Missing
  <1> QED
    BY <1>1, <1>2 DEF PlainStep

\* A request goes on to a statement that needs no bytes.
LEMMA PlainGoto ==
    ASSUME IInv, NEW t \in Tasks, NEW s \in Steps, NEW r \in Requests, Goto(t, s, r), PlainStep(t),
           r.op # "scan", req[t].op # "scan",
           StepFits(t)', KeysFit(t)',
           draft'[t].open => draft[t].open /\ files' = files /\ rows' = rows,
           Alone /\ s \in {"find_target", "merge", "retire", "rename_file"} => files'[r.item] # NoFile,
           \A b \in Ids : rows[b] # NoRow /\ CountFits(t, b) => CountsAs(s, r, Files(t)', Rows(t)', b)
    PROVE  IInv'
  <1>1. /\ Proceeds(t) /\ step'[t] = s
        /\ Concerned(t) = req[t].touched \cup Contents(r) /\ req'[t].touched = Concerned(t)
        /\ SameHands(req'[t], r) /\ req'[t].hash = r.hash
    BY GotoFacts
  <1>2. Moves(t) /\ \A b \in Ids : rows[b] = NoRow => rows'[b] = NoRow
    BY DEF PlainStep
  <1>3. HandsKnown(t)'
    BY <1>1, <1>2, HandsNext
  <1>4. AloneFits(t)'
    BY <1>1, AloneNext DEF SameHands
  <1>5. /\ BytesStay(t)
        /\ \A b \in Ids : rows[b] # NoRow /\ (KeyOf(rows[b]) \in objects \/ Missing(t, b)) =>
             KeyOf(rows[b]) \in objects' \/ Missing(t, b)'
    BY PlainBytes
  <1> QED
    BY <1>1, <1>2, <1>3, <1>4, <1>5, OwnStep

\* What is to hold of a request that has ended.
LEMMA IdleFits ==
    ASSUME NEW t \in Tasks, step'[t] = "idle", req'[t] = NoReq, draft'[t] = NoDraft
    PROVE  StepFits(t)' /\ HandsKnown(t)' /\ KeysFit(t)' /\ AloneFits(t)'
  <1>1. NoReq.op = "none" /\ DOMAIN NoReq.todo = {} /\ ~NoDraft.open
    BY NoReqTyped DEF NoDraft
  <1>2. StepFits(t)'
    BY <1>1 DEF StepFits, LoopOps, BulkOps
  <1>3. HandsKnown(t)'
    BY HandsOver
  <1>4. KeysFit(t)' /\ AloneFits(t)'
    BY <1>1 DEF KeysFit, AloneFits
  <1> QED
    BY <1>2, <1>3, <1>4

\* A request ends with every count what its references are.
LEMMA PlainFinish ==
    ASSUME IInv, NEW t \in Tasks, Finish(t), PlainStep(t), req[t].op # "scan", draft'[t] = NoDraft,
           \A b \in Ids : rows[b] # NoRow /\ CountFits(t, b) /\ Rows(t)'[b] # NoRow =>
             Rows(t)'[b].count >= Cardinality(References(Files(t)', b))
    PROVE  IInv'
  <1>1. Proceeds(t) /\ step'[t] = "idle" /\ req'[t] = NoReq
    BY EndFacts DEF Finish, End, IInv, Typed
  <1>2. Moves(t) /\ \A b \in Ids : rows[b] = NoRow => rows'[b] = NoRow
    BY DEF PlainStep
  <1>3. StepFits(t)' /\ HandsKnown(t)' /\ KeysFit(t)' /\ AloneFits(t)'
    BY <1>1, IdleFits
  <1>4. SameHands(req'[t], NoReq)
    BY <1>1 DEF SameHands
  <1>5. ASSUME NEW b \in Ids, rows[b] # NoRow, CountFits(t, b)
        PROVE  CountsAs("idle", NoReq, Files(t)', Rows(t)', b)
    BY <1>5, IdleCovers DEF CountsAs
  <1>6. /\ BytesStay(t)
        /\ \A b \in Ids : rows[b] # NoRow /\ (KeyOf(rows[b]) \in objects \/ Missing(t, b)) =>
             KeyOf(rows[b]) \in objects' \/ Missing(t, b)'
    BY PlainBytes
  <1> QED
    BY <1>1, <1>2, <1>3, <1>4, <1>5, <1>6, OwnStep

\* A count that is ahead for the one item that leaves.
LEMMA CoversAll ==
    ASSUME NEW s, NEW r \in Requests, NEW fs, NEW n \in Int, NEW b,
           r.op \notin {"delete_item", "expire", "bulk_copy"}, s \notin {"retire", "copy_count"},
           Covers(s, r, fs, n, b)
    PROVE  n >= Cardinality(References(fs, b))
  <1>1. n >= Cardinality(References(fs, b) \ Leaving(s, r, b)) + Ahead(s, r, b)
    BY PlainCovers
  <1>2. References(fs, b) \in SUBSET Items /\ Leaving(s, r, b) \in SUBSET Items
    BY ReferencesFinite DEF Leaving
  <1>3. Cardinality(References(fs, b) \ Leaving(s, r, b)) \in Nat /\ Cardinality(References(fs, b)) \in Nat
    BY <1>2, CardMono
  <1>4. Ahead(s, r, b) \in {0, 1}
    BY DEF Ahead
  <1>5. ASSUME Leaving(s, r, b) # {}
        PROVE  Ahead(s, r, b) = 1 /\ \E i \in Items : Leaving(s, r, b) = {i}
    <2>1. Ahead(s, r, b) = 1
      BY <1>5 DEF Leaving, Ahead
    <2>2. ASSUME NEW i \in Leaving(s, r, b), NEW j \in Leaving(s, r, b)
          PROVE  i = j
      BY <2>2 DEF Leaving
    <2> QED
      BY <2>1, <2>2, <1>5, <1>2
  <1>6. CASE Leaving(s, r, b) = {}
    <2>1. References(fs, b) \ Leaving(s, r, b) = References(fs, b)
      BY <1>6
    <2> QED
      BY <2>1, <1>1, <1>3, <1>4
  <1>7. CASE Leaving(s, r, b) # {}
    <2>1. PICK i \in Items : Leaving(s, r, b) = {i}
      BY <1>5, <1>7
    <2>2. Cardinality(References(fs, b)) <= Cardinality(References(fs, b) \ Leaving(s, r, b)) + 1
      BY <2>1, <1>2, CardOne
    <2> QED
      BY <2>2, <1>1, <1>3, <1>5, <1>7
  <1> QED
    BY <1>6, <1>7

\* A request gives up, or fails: what it had in hand is spoilt, unless it is alone.
LEMMA DropKeeps ==
    ASSUME IInv, NEW t \in Tasks,
           step' = [step EXCEPT ![t] = "idle"], req' = [req EXCEPT ![t] = NoReq],
           draft' = [draft EXCEPT ![t] = NoDraft], disturbed' = disturbed \cup req[t].touched,
           spent' \in [requests : Nat, faults : Nat], UNCHANGED <<files, rows, objects>>,
           Alone => draft[t].open \/ (/\ req[t].op \notin {"delete_item", "expire", "bulk_copy"}
                                     /\ step[t] \notin {"retire", "copy_count"})
    PROVE  IInv'
  <1>1. Proceeds(t) /\ step'[t] = "idle" /\ req'[t] = NoReq /\ Concerned(t) = req[t].touched
    BY EndFacts
  <1>2. /\ TablesTyped /\ Counted /\ AloneFits(t) /\ StepFits(t) /\ req \in [Tasks -> Requests]
        /\ draft \in [Tasks -> Transactions] /\ objects \subseteq Keys
    BY DEF IInv, Typed, TablesTyped
  <1>3. NoDraft \in Transactions /\ ~NoDraft.open /\ DOMAIN NoDraft.files = {} /\ DOMAIN NoDraft.rows = {}
    BY EmptySome DEF NoDraft, Transactions
  <1>4. /\ draft'[t] = NoDraft /\ draft' \in [Tasks -> Transactions]
        /\ \A u \in Tasks \ {t} : draft'[u] = draft[u]
    BY <1>2, <1>3
  <1>5. Moves(t)
    BY <1>2, <1>4, StillMoves
  <1>6. BytesStay(t)
    BY DEF BytesStay
  <1>7. StepFits(t)' /\ HandsKnown(t)' /\ KeysFit(t)' /\ AloneFits(t)'
    BY <1>1, <1>4, IdleFits
  <1>8. Files(t)' = files /\ Rows(t)' = rows
    <2>1. files \in [Items -> FileRows \cup {NoFile}] /\ rows \in [Ids -> StorageRows \cup {NoRow}]
      BY <1>2 DEF TablesTyped
    <2>2. DOMAIN draft'[t].files = {} /\ DOMAIN draft'[t].rows = {}
      BY <1>3, <1>4
    <2> QED
      BY <2>1, <2>2, OverNothing DEF Files, Rows
  <1>9. ASSUME NEW b \in Ids, rows[b] # NoRow, rows[b].hash \in Concerned(t) \ Exempt'
        PROVE  CountFits(t, b)'
    <2>1. Alone /\ Exempt = {}
      BY <1>1, <1>9 DEF Exempt
    <2>2. rows[b].count \in Int
      BY <1>9, <1>2 DEF TablesTyped, StorageRows
    <2>3. CASE draft[t].open
      <3>1. rows[b].count >= Cardinality(References(files, b))
        BY <2>1, <2>3, <1>2, <1>9 DEF AloneFits
      <3>2. Covers("idle", NoReq, files, rows[b].count, b)
        BY <3>1, IdleCovers
      <3> QED
        BY <3>2, <1>1, <1>8 DEF CountFits, CountsAs, Covers, References, Live
    <2>4. CASE ~draft[t].open
      <3>1. Files(t) = files /\ Rows(t) = rows
        BY <2>4, <1>2, DirectView DEF StepFits
      <3>2. Covers(step[t], req[t], files, rows[b].count, b)
        BY <3>1, <2>1, <1>1, <1>2, <1>9 DEF Counted, CountFits, CountsAs
      <3>3. rows[b].count >= Cardinality(References(files, b))
        BY <3>2, <2>1, <2>2, <2>4, <1>2, CoversAll
      <3>4. Covers("idle", NoReq, files, rows[b].count, b)
        BY <3>3, IdleCovers
      <3> QED
        BY <3>4, <1>1, <1>8 DEF CountFits, CountsAs, Covers, References, Live
    <2> QED
      BY <2>3, <2>4
  <1>10. \A b \in Ids : rows[b].hash \in Concerned(t) \ disturbed' => FALSE
    BY <1>1
  <1>11. OwnFits(t)
    BY <1>7, <1>9, <1>10 DEF OwnFits
  <1> QED
    BY <1>1, <1>5, <1>6, <1>11, StepKeeps

-----------------------------------------------------------------------------
\* A task that need not wait: nobody else has a lock on what it writes or refers to.
LEMMA Unlocked ==
    ASSUME NEW t \in Tasks, NEW u \in Tasks \ {t}, ~Waits(t)
    PROVE  /\ step[t] \in {"soft_delete", "move_file", "retire", "rename_file"} =>
                req[t].item \notin DOMAIN draft[u].files
           /\ step[t] \in {"update_file", "merge"} => req[t].target \notin DOMAIN draft[u].files
           /\ step[t] \in {"raise", "lower", "delete_row", "purge_row", "report"} =>
                req[t].id \notin DOMAIN draft[u].rows
           /\ step[t] \in {"update_file", "insert_file", "insert_copy", "merge"} /\ req[t].id # NoId =>
                ~(req[t].id \in DOMAIN draft[u].rows /\ draft[u].rows[req[t].id] = NoRow)
  <1>1. /\ ItemsNeeded(t) \cap DOMAIN draft[u].files = {} /\ IdsNeeded(t) \cap DOMAIN draft[u].rows = {}
        /\ \A b \in Referred(t) \cap DOMAIN draft[u].rows : draft[u].rows[b] # NoRow
    BY DEF Waits, WaitsFor
  <1>2. step[t] \in {"soft_delete", "move_file", "retire", "rename_file"} => req[t].item \in ItemsNeeded(t)
    BY DEF ItemsNeeded
  <1>3. step[t] \in {"update_file", "merge"} => req[t].target \in ItemsNeeded(t)
    BY DEF ItemsNeeded
  <1>4. step[t] \in {"raise", "lower", "delete_row", "purge_row", "report"} => req[t].id \in IdsNeeded(t)
    BY DEF IdsNeeded
  <1>5. step[t] \in {"update_file", "insert_file", "insert_copy", "merge"} /\ req[t].id # NoId =>
          req[t].id \in Referred(t)
    BY DEF Referred
  <1> QED
    BY <1>1, <1>2, <1>3, <1>4, <1>5

\* ... nor on the files that refer to a row that it deletes.
LEMMA UnlockedFiles ==
    ASSUME NEW t \in Tasks, NEW u \in Tasks \ {t}, ~Waits(t)
    PROVE  /\ step[t] \in {"delete_row", "purge_row", "purge_files"} =>
                \A i \in Items : files[i] # NoFile /\ files[i].blob = req[t].id => i \notin DOMAIN draft[u].files
           /\ step[t] \in {"delete_row", "purge_row"} =>
                \A i \in DOMAIN draft[u].files \cap Items : draft[u].files[i].blob # req[t].id
  <1>1. ItemsNeeded(t) \cap DOMAIN draft[u].files = {}
    BY DEF Waits, WaitsFor
  <1>2. step[t] \in {"delete_row", "purge_row"} =>
          ItemsNeeded(t) = {i \in Items : files[i] # NoFile /\ files[i].blob = req[t].id}
            \cup {i \in Items : \E v \in Tasks \ {t} :
                    i \in DOMAIN draft[v].files /\ draft[v].files[i].blob = req[t].id}
    BY DEF ItemsNeeded
  <1>3. step[t] = "purge_files" =>
          ItemsNeeded(t) = {i \in Items : files[i] # NoFile /\ files[i].blob = req[t].id}
    BY DEF ItemsNeeded
  <1> QED
    BY <1>1, <1>2, <1>3

\* A statement that only reads.
LEMMA ReadStep ==
    ASSUME IInv, NEW t \in Tasks, ReadOnly, step[t] \notin {"delete_row", "purge_files", "purge_row"}
    PROVE  /\ PlainStep(t) /\ Files(t)' = Files(t) /\ Rows(t)' = Rows(t)
           /\ files' = files /\ rows' = rows /\ draft' = draft
  <1>1. files' = files /\ rows' = rows /\ draft' = draft /\ objects' = objects
    BY DEF ReadOnly
  <1>2. draft' \in [Tasks -> Transactions] /\ objects' \subseteq Keys
    BY <1>1 DEF IInv, Typed, TablesTyped
  <1>3. Moves(t)
    BY <1>1, <1>2, StillMoves
  <1>4. Files(t)' = Files(t) /\ Rows(t)' = Rows(t)
    BY <1>1 DEF Files, Rows
  <1> QED
    BY <1>1, <1>3, <1>4 DEF PlainStep

\* A row that a file may be given.
LEMMA ReferLasts ==
    ASSUME IInv, NEW t \in Tasks, NEW b, MayRefer(t, b), b # NoId,
           \A u \in Tasks \ {t} : ~(b \in DOMAIN draft[u].rows /\ draft[u].rows[b] = NoRow)
    PROVE  b \in Ids /\ Lasts(b)
  <1>1. b \in Ids /\ Rows(t)[b] # NoRow
    BY DEF MayRefer
  <1>2. /\ \A c \in DOMAIN draft[t].rows : Rows(t)[c] = draft[t].rows[c]
        /\ \A c \in Ids \ DOMAIN draft[t].rows : Rows(t)[c] = rows[c]
    BY ViewFacts DEF IInv, Typed
  <1>3. rows[b] # NoRow
    BY <1>1, <1>2 DEF IInv, DraftFits, DraftKnown
  <1> QED
    BY <1>1, <1>2, <1>3 DEF Lasts

\* The row that a file has, if nobody else has locked the file.
LEMMA BlobLasts ==
    ASSUME IInv, NEW t \in Tasks, NEW i \in Items, Files(t)[i] # NoFile, Files(t)[i].blob # NoId,
           \A u \in Tasks \ {t} : i \notin DOMAIN draft[u].files
    PROVE  Files(t)[i].blob \in Ids /\ Lasts(Files(t)[i].blob)
  <1>1. /\ Files(t) \in [Items -> FileRows \cup {NoFile}]
        /\ \A j \in DOMAIN draft[t].files : Files(t)[j] = draft[t].files[j]
        /\ \A j \in Items \ DOMAIN draft[t].files : Files(t)[j] = files[j]
    BY ViewFacts DEF IInv, Typed
  <1>2. Files(t)[i].blob \in Ids
    BY <1>1 DEF FileRows
  <1>3. rows[Files(t)[i].blob] # NoRow
    BY ViewLinked
  <1>4. ASSUME NEW u \in Tasks, Files(t)[i].blob \in DOMAIN draft[u].rows, draft[u].rows[Files(t)[i].blob] = NoRow
        PROVE  FALSE
    <2>1. CASE i \in DOMAIN draft[t].files
      BY <2>1, <1>1, <1>4 DEF IInv, Linked
    <2>2. CASE i \notin DOMAIN draft[t].files
      BY <2>2, <1>1, <1>4 DEF IInv, Linked
    <2> QED
      BY <2>1, <2>2
  <1> QED
    BY <1>2, <1>3, <1>4 DEF Lasts

\* A file is written.
LEMMA FileStep ==
    ASSUME IInv, NEW t \in Tasks, NEW i \in Items, NEW row \in FileRows, WriteFile(t, i, row), objects' = objects,
           \A u \in Tasks \ {t} : i \notin DOMAIN draft[u].files,
           row.blob # NoId => Lasts(row.blob),
           row.live /\ row.blob # NoId /\ rows[row.blob].hash \notin Concerned(t) =>
             Live(Files(t), i) /\ Files(t)[i].blob = row.blob,
           step[t] \notin {"delete_row", "purge_files", "purge_row"}
    PROVE  /\ PlainStep(t) /\ Rows(t)' = Rows(t)
           /\ Files(t)'[i] = row /\ \A j \in Items \ {i} : Files(t)'[j] = Files(t)[j]
           /\ \A b \in Ids : References(Files(t)', b) = IF row.live /\ row.blob = b THEN References(Files(t), b) \cup {i}
                                                        ELSE References(Files(t), b) \ {i}
           /\ draft'[t].open = draft[t].open /\ (draft[t] = NoDraft => draft'[t] = NoDraft)
           /\ (draft[t].open => files' = files /\ rows' = rows)
           /\ (draft[t].open => i \in DOMAIN draft'[t].files /\ draft'[t].files[i] = row)
  <1>0. TablesTyped /\ objects' \subseteq Keys /\ (draft[t].open \/ draft[t] = NoDraft)
    BY DEF IInv, Typed, TablesTyped, StepFits
  <1>1. /\ <<>> \in Some(Ids, StorageRows \cup {NoRow}) /\ DOMAIN <<>> = {}
        /\ Row(i, row) \in Some(Items, FileRows) /\ DOMAIN Row(i, row) = {i} /\ Row(i, row)[i] = row
    <2>1. <<>> \in Some(Ids, StorageRows \cup {NoRow}) /\ DOMAIN <<>> = {}
      BY EmptySome
    <2>2. Row(i, row) \in Some(Items, FileRows) /\ DOMAIN Row(i, row) = {i} /\ Row(i, row)[i] = row
      <3>1. Row(i, row) \in Some(Items, FileRows)
        BY RowFacts
      <3> QED
        BY <3>1 DEF Row
    <2> QED
      BY <2>1, <2>2
  <1>2. Write(t, Row(i, row), <<>>)
    BY DEF WriteFile
  <1>3. WriteFits(t, Row(i, row), <<>>)
    BY <1>1 DEF WriteFits
  <1>4. Moves(t)
    BY <1>0, <1>2, <1>3, WriteMoves
  <1>5. /\ draft'[t].open = draft[t].open
        /\ draft[t] = NoDraft => draft'[t] = NoDraft
        /\ draft[t].open => files' = files /\ rows' = rows
        /\ \A j \in DOMAIN Row(i, row) : Files(t)'[j] = Row(i, row)[j]
        /\ \A j \in Items \ DOMAIN Row(i, row) : Files(t)'[j] = Files(t)[j]
        /\ \A b \in Ids \ DOMAIN <<>> : Rows(t)'[b] = Rows(t)[b]
    BY <1>0, <1>1, <1>2, WriteViews
  <1>6. /\ Files(t)'[i] = row /\ \A j \in Items \ {i} : Files(t)'[j] = Files(t)[j]
        /\ \A b \in Ids : Rows(t)'[b] = Rows(t)[b]
    BY <1>1, <1>5
  <1>7. /\ Rows(t) \in [Ids -> StorageRows \cup {NoRow}] /\ Rows(t)' \in [Ids -> StorageRows \cup {NoRow}]
    BY <1>0, <1>4, ViewFacts, ViewNext DEF Moves
  <1>8. Rows(t)' = Rows(t)
    BY <1>6, <1>7
  <1>9. \A b \in Ids : rows'[b] = rows[b]
    <2>1. CASE draft[t] = NoDraft
      <3>1. Rows(t) = rows /\ Rows(t)' = rows'
        BY <2>1, <1>0, <1>1, <1>2, DirectWrite
      <3> QED
        BY <3>1, <1>6
    <2>2. CASE draft[t].open
      BY <2>2, <1>5
    <2> QED
      BY <2>1, <2>2, <1>0
  <1>10. PlainStep(t)
    BY <1>4, <1>6, <1>9 DEF PlainStep
  <1>11. row # NoFile
    BY NullAssumption
  <1>12. \A b \in Ids : References(Files(t)', b) = IF row.live /\ row.blob = b THEN References(Files(t), b) \cup {i}
                                                   ELSE References(Files(t), b) \ {i}
    <2> SUFFICES ASSUME NEW b \in Ids
                 PROVE  References(Files(t)', b) = IF row.live /\ row.blob = b THEN References(Files(t), b) \cup {i}
                                                   ELSE References(Files(t), b) \ {i}
      OBVIOUS
    <2> QED
      BY <1>6, <1>11 DEF References, Live
  <1>13. ASSUME draft[t].open
         PROVE  i \in DOMAIN draft'[t].files /\ draft'[t].files[i] = row
    <2>1. /\ DOMAIN draft'[t].files = DOMAIN Row(i, row) \cup DOMAIN draft[t].files
          /\ \A k \in DOMAIN Row(i, row) : draft'[t].files[k] = Row(i, row)[k]
      BY <1>13, <1>0, <1>1, <1>2, DraftWrite
    <2> QED
      BY <2>1, <1>1
  <1> QED
    BY <1>5, <1>6, <1>8, <1>10, <1>12, <1>13

\* A row is given another count, or another mark.
LEMMA RowStep ==
    ASSUME IInv, NEW t \in Tasks, NEW b \in Ids, NEW row \in StorageRows, WriteRow(t, b, row), objects' = objects,
           Rows(t)[b] # NoRow, KeyOf(row) = KeyOf(Rows(t)[b]),
           \A u \in Tasks \ {t} : b \notin DOMAIN draft[u].rows,
           rows[b].hash \in Concerned(t) \/ (~draft[t].open /\ row.count = rows[b].count),
           step[t] \notin {"delete_row", "purge_files", "purge_row"}
    PROVE  /\ PlainStep(t) /\ Files(t)' = Files(t)
           /\ Rows(t)'[b] = row /\ \A c \in Ids \ {b} : Rows(t)'[c] = Rows(t)[c]
           /\ draft'[t].open = draft[t].open /\ (draft[t] = NoDraft => draft'[t] = NoDraft)
           /\ (draft[t].open => files' = files /\ rows' = rows)
           /\ rows[b] # NoRow /\ rows'[b] # NoRow /\ KeyOf(rows'[b]) = KeyOf(rows[b])
           /\ KeyOf(rows[b]) = KeyOf(row)
           /\ draft[t].open => b \in DOMAIN draft'[t].rows /\ draft'[t].rows[b] = row
  <1>0. TablesTyped /\ objects' \subseteq Keys /\ (draft[t].open \/ draft[t] = NoDraft) /\ DraftFits(t)
    BY DEF IInv, Typed, TablesTyped, StepFits
  <1>1. /\ <<>> \in Some(Items, FileRows) /\ DOMAIN <<>> = {}
        /\ Row(b, row) \in Some(Ids, StorageRows \cup {NoRow}) /\ DOMAIN Row(b, row) = {b} /\ Row(b, row)[b] = row
    <2>1. <<>> \in Some(Items, FileRows) /\ DOMAIN <<>> = {}
      BY EmptySome
    <2>2. row \in StorageRows \cup {NoRow}
      OBVIOUS
    <2>3. Row(b, row) \in Some(Ids, StorageRows \cup {NoRow}) /\ DOMAIN Row(b, row) = {b} /\ Row(b, row)[b] = row
      <3>1. Row(b, row) \in Some(Ids, StorageRows \cup {NoRow})
        BY <2>2, RowFacts
      <3> QED
        BY <3>1 DEF Row
    <2> QED
      BY <2>1, <2>3
  <1>2. Write(t, <<>>, Row(b, row))
    BY DEF WriteRow
  <1>3. rows[b] # NoRow /\ KeyOf(rows[b]) = KeyOf(row) /\ row # NoRow
    <2>1. /\ \A c \in DOMAIN draft[t].rows : Rows(t)[c] = draft[t].rows[c]
          /\ \A c \in Ids \ DOMAIN draft[t].rows : Rows(t)[c] = rows[c]
      BY <1>0, ViewFacts
    <2> QED
      BY <2>1, <1>0, NullAssumption DEF DraftFits, DraftKnown
  <1>4. WriteFits(t, <<>>, Row(b, row))
    BY <1>1, <1>3 DEF WriteFits
  <1>5. Moves(t)
    BY <1>0, <1>2, <1>4, WriteMoves
  <1>6. /\ draft'[t].open = draft[t].open
        /\ draft[t] = NoDraft => draft'[t] = NoDraft
        /\ draft[t].open => files' = files /\ rows' = rows
        /\ \A i \in Items \ DOMAIN <<>> : Files(t)'[i] = Files(t)[i]
        /\ \A c \in DOMAIN Row(b, row) : Rows(t)'[c] = Row(b, row)[c]
        /\ \A c \in Ids \ DOMAIN Row(b, row) : Rows(t)'[c] = Rows(t)[c]
    BY <1>0, <1>1, <1>2, WriteViews
  <1>7. /\ Rows(t)'[b] = row /\ \A c \in Ids \ {b} : Rows(t)'[c] = Rows(t)[c]
        /\ \A i \in Items : Files(t)'[i] = Files(t)[i]
    BY <1>1, <1>6
  <1>8. Files(t)' = Files(t)
    <2>1. Files(t) \in [Items -> FileRows \cup {NoFile}] /\ Files(t)' \in [Items -> FileRows \cup {NoFile}]
      BY <1>0, <1>5, ViewFacts, ViewNext DEF Moves
    <2> QED
      BY <2>1, <1>7
  <1>9. (\A c \in Ids : rows[c] = NoRow => rows'[c] = NoRow) /\ rows'[b] # NoRow /\ KeyOf(rows'[b]) = KeyOf(rows[b])
    <2>1. CASE draft[t] = NoDraft
      <3>1. Rows(t) = rows /\ Rows(t)' = rows'
        BY <2>1, <1>0, <1>1, <1>2, DirectWrite
      <3> QED
        BY <3>1, <1>3, <1>7
    <2>2. CASE draft[t].open
      BY <2>2, <1>3, <1>6
    <2> QED
      BY <2>1, <2>2, <1>0
  <1>10. PlainStep(t)
    BY <1>3, <1>5, <1>7, <1>9 DEF PlainStep
  <1>11. ASSUME draft[t].open
         PROVE  b \in DOMAIN draft'[t].rows /\ draft'[t].rows[b] = row
    <2>1. /\ DOMAIN draft'[t].rows = DOMAIN Row(b, row) \cup DOMAIN draft[t].rows
          /\ \A k \in DOMAIN Row(b, row) : draft'[t].rows[k] = Row(b, row)[k]
      BY <1>11, <1>0, <1>1, <1>2, DraftWrite
    <2> QED
      BY <2>1, <1>1
  <1> QED
    BY <1>3, <1>6, <1>7, <1>8, <1>9, <1>10, <1>11

-----------------------------------------------------------------------------
\* The references that stay, if what a request is about to release goes.
Staying(s, r, fs, b) == References(fs, b) \ (Entries(r, b) \cup Leaving(s, r, b))

\* References that stay are finitely many.
LEMMA StayingFinite ==
    ASSUME NEW s, NEW r \in Requests, NEW fs, NEW b
    PROVE  /\ Staying(s, r, fs, b) \in SUBSET Items
           /\ Cardinality(Staying(s, r, fs, b)) \in Nat /\ Cardinality(Entries(r, b)) \in Nat
           /\ Ahead(s, r, b) \in Int
  <1>1. Staying(s, r, fs, b) \in SUBSET Items
    BY ReferencesFinite DEF Staying
  <1>2. Entries(r, b) \in SUBSET Items
    BY HandIds DEF Entries
  <1> QED
    BY <1>1, <1>2, CardMono DEF Ahead

\* How a count goes on covering the references: no more of them stay ...
LEMMA CoversLess ==
    ASSUME NEW s, NEW q \in Requests, NEW fs, NEW n \in Int, NEW p, NEW r \in Requests, NEW gs, NEW m \in Int, NEW b,
           Covers(s, q, fs, n, b), Entries(r, b) = Entries(q, b),
           Staying(p, r, gs, b) \subseteq Staying(s, q, fs, b),
           m - Ahead(p, r, b) >= n - Ahead(s, q, b)
    PROVE  Covers(p, r, gs, m, b)
  <1>1. Cardinality(Staying(p, r, gs, b)) <= Cardinality(Staying(s, q, fs, b))
    BY StayingFinite, CardMono
  <1>4. /\ Cardinality(Staying(s, q, fs, b)) \in Nat /\ Cardinality(Staying(p, r, gs, b)) \in Nat
        /\ Cardinality(Entries(q, b)) \in Nat /\ Ahead(s, q, b) \in Int /\ Ahead(p, r, b) \in Int
    BY StayingFinite
  <1>5. n >= Cardinality(Staying(s, q, fs, b)) + Cardinality(Entries(q, b)) + Ahead(s, q, b)
    BY DEF Covers, Staying
  <1>6. m >= Cardinality(Staying(p, r, gs, b)) + Cardinality(Entries(r, b)) + Ahead(p, r, b)
    BY <1>1, <1>4, <1>5
  <1> QED
    BY <1>6 DEF Covers, Staying

\* ... one more stays, and one more is counted ...
LEMMA CoversMore ==
    ASSUME NEW s, NEW q \in Requests, NEW fs, NEW n \in Int, NEW p, NEW r \in Requests, NEW gs, NEW m \in Int, NEW b,
           NEW i \in Items, Covers(s, q, fs, n, b), Entries(r, b) = Entries(q, b),
           Staying(p, r, gs, b) \subseteq Staying(s, q, fs, b) \cup {i},
           m - Ahead(p, r, b) >= n - Ahead(s, q, b) + 1
    PROVE  Covers(p, r, gs, m, b)
  <1>0. Staying(s, q, fs, b) \in SUBSET Items /\ Staying(p, r, gs, b) \in SUBSET Items
    BY StayingFinite
  <1>1. Staying(s, q, fs, b) \cup {i} \in SUBSET Items
    BY <1>0
  <1>2. /\ Cardinality(Staying(p, r, gs, b)) <= Cardinality(Staying(s, q, fs, b) \cup {i})
        /\ Cardinality(Staying(s, q, fs, b) \cup {i}) \in Nat
    BY <1>1, CardMono
  <1>3. Cardinality(Staying(s, q, fs, b) \cup {i}) <= Cardinality(Staying(s, q, fs, b)) + 1
    BY <1>0, CardOne
  <1>4. /\ Cardinality(Staying(s, q, fs, b)) \in Nat /\ Cardinality(Staying(p, r, gs, b)) \in Nat
        /\ Cardinality(Entries(q, b)) \in Nat /\ Ahead(s, q, b) \in Int /\ Ahead(p, r, b) \in Int
    BY StayingFinite
  <1>5. n >= Cardinality(Staying(s, q, fs, b)) + Cardinality(Entries(q, b)) + Ahead(s, q, b)
    BY DEF Covers, Staying
  <1>6. m >= Cardinality(Staying(p, r, gs, b)) + Cardinality(Entries(r, b)) + Ahead(p, r, b)
    BY <1>2, <1>3, <1>4, <1>5
  <1> QED
    BY <1>6 DEF Covers, Staying

\* ... or one fewer stays, and one fewer is counted.
LEMMA CoversTake ==
    ASSUME NEW s, NEW q \in Requests, NEW fs, NEW n \in Int, NEW p, NEW r \in Requests, NEW gs, NEW m \in Int, NEW b,
           NEW i \in Items, Covers(s, q, fs, n, b), Entries(r, b) = Entries(q, b),
           i \in Staying(s, q, fs, b),
           Staying(p, r, gs, b) \subseteq Staying(s, q, fs, b) \ {i},
           m - Ahead(p, r, b) >= n - Ahead(s, q, b) - 1
    PROVE  Covers(p, r, gs, m, b)
  <1>0. Staying(s, q, fs, b) \in SUBSET Items /\ Staying(p, r, gs, b) \in SUBSET Items
    BY StayingFinite
  <1>1. Staying(s, q, fs, b) \ {i} \in SUBSET Items
    BY <1>0
  <1>2. /\ Cardinality(Staying(p, r, gs, b)) <= Cardinality(Staying(s, q, fs, b) \ {i})
        /\ Cardinality(Staying(s, q, fs, b) \ {i}) \in Nat
    BY <1>1, CardMono
  <1>3. Cardinality(Staying(s, q, fs, b)) = Cardinality(Staying(s, q, fs, b) \ {i}) + 1
    BY <1>0, CardOne
  <1>4. /\ Cardinality(Staying(s, q, fs, b)) \in Nat /\ Cardinality(Staying(p, r, gs, b)) \in Nat
        /\ Cardinality(Entries(q, b)) \in Nat /\ Ahead(s, q, b) \in Int /\ Ahead(p, r, b) \in Int
    BY StayingFinite
  <1>5. n >= Cardinality(Staying(s, q, fs, b)) + Cardinality(Entries(q, b)) + Ahead(s, q, b)
    BY DEF Covers, Staying
  <1>6. m >= Cardinality(Staying(p, r, gs, b)) + Cardinality(Entries(r, b)) + Ahead(p, r, b)
    BY <1>2, <1>3, <1>4, <1>5
  <1> QED
    BY <1>6 DEF Covers, Staying

\* Counts are numbers.
LEMMA CountTyped ==
    ASSUME IInv, NEW t \in Tasks, NEW b \in Ids, Rows(t)[b] # NoRow
    PROVE  Rows(t)[b] \in StorageRows /\ Rows(t)[b].count \in Int
  <1>1. Rows(t) \in [Ids -> StorageRows \cup {NoRow}]
    BY ViewFacts DEF IInv, Typed
  <1> QED
    BY <1>1 DEF StorageRows

\* The types of a request and of the tables.
LEMMA ReqTyped ==
    ASSUME IInv, NEW t \in Tasks
    PROVE  /\ req[t] \in Requests /\ step[t] \in Steps /\ StepFits(t) /\ TablesTyped
           /\ files \in [Items -> FileRows \cup {NoFile}] /\ rows \in [Ids -> StorageRows \cup {NoRow}]
           /\ objects \subseteq Keys /\ draft \in [Tasks -> Transactions]
           /\ ~draft[t].open => draft[t] = NoDraft /\ Files(t) = files /\ Rows(t) = rows
  <1>1. /\ req[t] \in Requests /\ step[t] \in Steps /\ StepFits(t) /\ TablesTyped
        /\ files \in [Items -> FileRows \cup {NoFile}] /\ rows \in [Ids -> StorageRows \cup {NoRow}]
        /\ objects \subseteq Keys /\ draft \in [Tasks -> Transactions]
    BY DEF IInv, Typed, TablesTyped
  <1> QED
    BY <1>1, DirectView DEF StepFits

\* A request that has only read goes on.
LEMMA ReadGoto ==
    ASSUME IInv, NEW t \in Tasks, NEW s \in Steps, NEW r \in Requests, Goto(t, s, r), ReadOnly,
           step[t] \notin {"delete_row", "purge_files", "purge_row"},
           s \notin {"insert_row", "delete_object", "purge_object"},
           r.op = req[t].op, r.op # "scan", StepFits(t)',
           Alone /\ s \in {"find_target", "merge", "retire", "rename_file"} => files[r.item] # NoFile,
           \A b \in Ids : Rows(t)[b] # NoRow /\ CountsAs(step[t], req[t], Files(t), Rows(t), b) =>
             CountsAs(s, r, Files(t), Rows(t), b)
    PROVE  IInv'
  <1>1. /\ PlainStep(t) /\ Files(t)' = Files(t) /\ Rows(t)' = Rows(t)
        /\ files' = files /\ rows' = rows /\ draft' = draft
    BY ReadStep
  <1>2. step'[t] = s
    BY GotoFacts
  <1>3. KeysFit(t)'
    BY <1>2 DEF KeysFit
  <1>4. \A b \in Ids : CountFits(t, b) => CountsAs(s, r, Files(t)', Rows(t)', b)
    <2>1. ASSUME NEW b \in Ids, CountFits(t, b), Rows(t)[b] = NoRow
          PROVE  CountsAs(s, r, Files(t), Rows(t), b)
      BY <2>1 DEF CountsAs
    <2> QED
      BY <2>1, <1>1 DEF CountFits
  <1> QED
    BY <1>1, <1>3, <1>4, PlainGoto

\* A request gives up.
LEMMA GiveUpKeeps ==
    ASSUME IInv, NEW t \in Tasks, GiveUp(t),
           draft[t].open \/ (/\ req[t].op \notin {"delete_item", "expire", "bulk_copy"}
                             /\ Alone => step[t] \notin {"retire", "copy_count"})
    PROVE  IInv'
  <1>1. /\ step' = [step EXCEPT ![t] = "idle"] /\ req' = [req EXCEPT ![t] = NoReq]
        /\ draft' = [draft EXCEPT ![t] = NoDraft] /\ disturbed' = disturbed \cup req[t].touched
        /\ spent' = spent /\ UNCHANGED <<files, rows, objects>>
    BY DEF GiveUp, End
  <1>2. spent' \in [requests : Nat, faults : Nat]
    BY <1>1 DEF IInv, Typed
  <1> QED
    BY <1>1, <1>2, DropKeeps

\* A request that has only read goes on, with no more references to count than before.
LEMMA ReadSame ==
    ASSUME IInv, NEW t \in Tasks, NEW s \in Steps, NEW r \in Requests, Goto(t, s, r), ReadOnly,
           step[t] \notin {"delete_row", "purge_files", "purge_row"},
           s \notin {"insert_row", "delete_object", "purge_object"},
           r.op = req[t].op, r.op # "scan", StepFits(t)', r.todo = req[t].todo,
           Alone /\ s \in {"find_target", "merge", "retire", "rename_file"} => files[r.item] # NoFile,
           \A c \in Ids : Rows(t)[c] # NoRow =>
             /\ Staying(s, r, Files(t), c) \subseteq Staying(step[t], req[t], Files(t), c)
             /\ Ahead(s, r, c) <= Ahead(step[t], req[t], c)
             /\ r.id = c /\ s = "raise" => r.count = Rows(t)[c].count + 1
             /\ r.id = c /\ s = "lower" => r.count = Rows(t)[c].count - 1
    PROVE  IInv'
  <1>1. ASSUME NEW c \in Ids, Rows(t)[c] # NoRow, CountsAs(step[t], req[t], Files(t), Rows(t), c)
        PROVE  CountsAs(s, r, Files(t), Rows(t), c)
    <2>1. Covers(step[t], req[t], Files(t), Rows(t)[c].count, c)
      BY <1>1 DEF CountsAs
    <2>2. Rows(t)[c].count \in Int /\ req[t] \in Requests
      BY <1>1, CountTyped, ReqTyped
    <2>3. Entries(r, c) = Entries(req[t], c)
      BY DEF Entries
    <2>4. Rows(t)[c].count - Ahead(s, r, c) >= Rows(t)[c].count - Ahead(step[t], req[t], c)
      BY <1>1, <2>2 DEF Ahead
    <2>5. Covers(s, r, Files(t), Rows(t)[c].count, c)
      BY <1>1, <2>1, <2>2, <2>3, <2>4, CoversLess
    <2> QED
      BY <1>1, <2>5 DEF CountsAs
  <1> QED
    BY <1>1, ReadGoto

-----------------------------------------------------------------------------
\* The statements of an upload or a link that only read.
LEMMA RaiseNext ==
    ASSUME IInv, NEW t \in Tasks, step[t] \in {"find", "find_linked", "refind"}, ReadOnly,
           NEW r \in Requests, Goto(t, "raise", r), r.op = req[t].op, r.todo = req[t].todo,
           r.at = req[t].at, r.hash = req[t].hash, r.id \in Ids, r.count = rows[r.id].count + 1
    PROVE  IInv'
  <1>1. /\ StepFits(t) /\ req[t].op \in {"upload", "link"} /\ Rows(t) = rows /\ draft' = draft
    BY ReqTyped DEF StepFits, BulkOps, ReadOnly
  <1>2. "raise" \in Steps
    BY DEF Steps
  <1>3. step'[t] = "raise" /\ SameHands(req'[t], r) /\ req'[t].at = r.at /\ req'[t].hash = r.hash
    BY <1>2, GotoFacts
  <1>4. StepFits(t)'
    BY <1>1, <1>3 DEF StepFits, SameHands
  <1>5. ASSUME NEW c \in Ids
        PROVE  /\ Staying("raise", r, Files(t), c) \subseteq Staying(step[t], req[t], Files(t), c)
               /\ Ahead("raise", r, c) <= Ahead(step[t], req[t], c)
    BY <1>1 DEF Entries, Leaving, Staying, Ahead
  <1> QED
    BY <1>1, <1>2, <1>4, <1>5, ReadSame

\* The content of an upload is looked up by its hash.
LEMMA FindContentKeeps ==
    ASSUME IInv, NEW t \in Tasks, FindContent(t)
    PROVE  IInv'
  <1>1. step[t] = "find" /\ ReadOnly
    BY DEF FindContent, At
  <1>2. /\ req[t] \in Requests /\ StepFits(t) /\ rows \in [Ids -> StorageRows \cup {NoRow}]
        /\ req[t].op = "upload" /\ req[t].hash \in Hashes /\ draft' = draft
    BY <1>1, ReqTyped DEF StepFits, BulkOps, ReadOnly
  <1>3. ASSUME NEW b \in Holding(req[t].hash),
               Goto(t, "raise", [req[t] EXCEPT !.id = b, !.count = rows[b].count + 1])
        PROVE  IInv'
    <2>1. b \in Ids /\ rows[b].count + 1 \in Int
      BY <1>2, <1>3 DEF Holding, StorageRows
    <2>2. [req[t] EXCEPT !.id = b, !.count = rows[b].count + 1] \in Requests
      BY <1>2, <2>1 DEF Requests
    <2> QED
      BY <1>1, <1>2, <1>3, <2>1, <2>2, RaiseNext DEF Requests
  <1>4. ASSUME Goto(t, "store", req[t])
        PROVE  IInv'
    <2>1. "store" \in Steps
      BY DEF Steps
    <2>2. /\ step'[t] = "store" /\ SameHands(req'[t], req[t])
          /\ req'[t].at = req[t].at /\ req'[t].hash = req[t].hash /\ req'[t].key = req[t].key
      BY <1>2, <1>4, <2>1, GotoFacts
    <2>3. StepFits(t)'
      BY <1>1, <1>2, <2>2 DEF StepFits, SameHands
    <2>4. ASSUME NEW c \in Ids
          PROVE  /\ Staying("store", req[t], Files(t), c) \subseteq Staying(step[t], req[t], Files(t), c)
                 /\ Ahead("store", req[t], c) <= Ahead(step[t], req[t], c)
      BY <1>1, <1>2 DEF Leaving, Staying, Ahead
    <2> QED
      BY <1>1, <1>2, <1>4, <2>1, <2>3, <2>4, ReadSame
  <1> QED
    BY <1>3, <1>4 DEF FindContent

\* The content of a link is looked up by its id.
LEMMA FindLinkedKeeps ==
    ASSUME IInv, NEW t \in Tasks, FindLinked(t)
    PROVE  IInv'
  <1>1. step[t] = "find_linked"
    BY DEF FindLinked, At
  <1>2. /\ req[t] \in Requests /\ rows \in [Ids -> StorageRows \cup {NoRow}]
        /\ req[t].op = "link" /\ req[t].id \in Ids
    BY <1>1, ReqTyped DEF StepFits
  <1>3. ASSUME rows[req[t].id] # NoRow, ReadOnly,
               Goto(t, "raise", [req[t] EXCEPT !.count = rows[req[t].id].count + 1])
        PROVE  IInv'
    <2>1. rows[req[t].id].count + 1 \in Int
      BY <1>2, <1>3 DEF StorageRows
    <2>2. [req[t] EXCEPT !.count = rows[req[t].id].count + 1] \in Requests
      BY <1>2, <2>1 DEF Requests
    <2> QED
      BY <1>1, <1>2, <1>3, <2>1, <2>2, RaiseNext DEF Requests
  <1>4. ASSUME GiveUp(t)
        PROVE  IInv'
    BY <1>1, <1>2, <1>4, GiveUpKeeps
  <1> QED
    BY <1>3, <1>4 DEF FindLinked

\* The content of an upload whose row could not be inserted is looked up again.
LEMMA RefindKeeps ==
    ASSUME IInv, NEW t \in Tasks, Refind(t)
    PROVE  IInv'
  <1>1. step[t] = "refind"
    BY DEF Refind, At
  <1>2. /\ req[t] \in Requests /\ rows \in [Ids -> StorageRows \cup {NoRow}]
        /\ req[t].op = "upload" /\ req[t].hash \in Hashes
    BY <1>1, ReqTyped DEF StepFits
  <1>3. ASSUME NEW b \in Holding(req[t].hash), ReadOnly,
               Goto(t, "raise", [req[t] EXCEPT !.id = b, !.count = rows[b].count + 1])
        PROVE  IInv'
    <2>1. b \in Ids /\ rows[b].count + 1 \in Int
      BY <1>2, <1>3 DEF Holding, StorageRows
    <2>2. [req[t] EXCEPT !.id = b, !.count = rows[b].count + 1] \in Requests
      BY <1>2, <2>1 DEF Requests
    <2> QED
      BY <1>1, <1>2, <1>3, <2>1, <2>2, RaiseNext DEF Requests
  <1>4. ASSUME GiveUp(t)
        PROVE  IInv'
    BY <1>1, <1>2, <1>4, GiveUpKeeps
  <1> QED
    BY <1>3, <1>4 DEF Refind

\* The live file at the place of an upload is looked up.
LEMMA FindFileKeeps ==
    ASSUME IInv, NEW t \in Tasks, FindFile(t)
    PROVE  IInv'
  <1>1. step[t] = "find_file" /\ ReadOnly
    BY DEF FindFile, At
  <1>2. /\ req[t] \in Requests /\ StepFits(t) /\ files \in [Items -> FileRows \cup {NoFile}]
        /\ req[t].op \in {"upload", "link"} /\ req[t].id \in Ids /\ Files(t) = files /\ Rows(t) = rows
        /\ draft' = draft
    BY <1>1, ReqTyped DEF StepFits, BulkOps, ReadOnly
  <1>3. ASSUME NEW i \in LiveAt(req[t].at), Goto(t, "update_file", [req[t] EXCEPT !.target = i, !.old = files[i].blob])
        PROVE  IInv'
    <2> DEFINE r == [req[t] EXCEPT !.target = i, !.old = files[i].blob]
    <2>1. i \in Items /\ Live(files, i) /\ files[i].blob \in Ids \cup {NoId}
      BY <1>2, <1>3 DEF LiveAt, Live, FileRows
    <2>2. /\ r \in Requests /\ r.op = req[t].op /\ r.id = req[t].id /\ r.target = i /\ r.old = files[i].blob
          /\ r.todo = req[t].todo /\ r.at = req[t].at /\ r.hash = req[t].hash
      BY <1>2, <2>1 DEF Requests
    <2> HIDE DEF r
    <2>3. Goto(t, "update_file", r) /\ "update_file" \in Steps
      BY <1>3 DEF r, Steps
    <2>4. /\ step'[t] = "update_file" /\ SameHands(req'[t], r) /\ req'[t].at = r.at /\ req'[t].hash = r.hash
      BY <2>2, <2>3, GotoFacts
    <2>5. StepFits(t)'
      BY <1>1, <1>2, <2>1, <2>2, <2>4 DEF StepFits, SameHands
    <2>6. ASSUME NEW c \in Ids, Rows(t)[c] # NoRow, CountsAs(step[t], req[t], Files(t), Rows(t), c)
          PROVE  CountsAs("update_file", r, Files(t), Rows(t), c)
      <3>1. Rows(t)[c].count \in Int /\ Covers("find_file", req[t], Files(t), Rows(t)[c].count, c)
        BY <1>1, <2>6, CountTyped DEF CountsAs
      <3>2. Entries(r, c) = {} /\ Entries(req[t], c) = {} /\ Leaving("find_file", req[t], c) = {}
        BY <1>2, <2>2 DEF Entries, Leaving
      <3>3. CASE files[i].blob = c /\ req[t].id # c
        <4>1. Leaving("update_file", r, c) = {i}
          BY <2>1, <2>2, <3>3 DEF Leaving
        <4>2. /\ Staying("find_file", req[t], Files(t), c) = References(Files(t), c)
              /\ Staying("update_file", r, Files(t), c) = References(Files(t), c) \ {i}
          BY <3>2, <4>1 DEF Staying
        <4>3. i \in References(Files(t), c)
          BY <1>2, <2>1, <3>3 DEF References
        <4>4. Ahead("update_file", r, c) = 1 /\ Ahead("find_file", req[t], c) = 0
          BY <2>2, <3>3 DEF Ahead
        <4>5. Rows(t)[c].count - Ahead("update_file", r, c) >= Rows(t)[c].count - Ahead("find_file", req[t], c) - 1
          BY <3>1, <4>4
        <4>6. /\ i \in Staying("find_file", req[t], Files(t), c)
              /\ Staying("update_file", r, Files(t), c) \subseteq Staying("find_file", req[t], Files(t), c) \ {i}
          BY <4>2, <4>3
        <4>7. Entries(r, c) = Entries(req[t], c)
          BY <3>2
        <4>8. Covers("update_file", r, Files(t), Rows(t)[c].count, c)
          BY <1>2, <2>1, <2>2, <3>1, <4>5, <4>6, <4>7, CoversTake
        <4> QED
          BY <4>8, <2>2, <3>3 DEF CountsAs
      <3>4. CASE ~(files[i].blob = c /\ req[t].id # c)
        <4>1. Leaving("update_file", r, c) = {}
          BY <2>2, <3>4 DEF Leaving
        <4>2. Staying("update_file", r, Files(t), c) = Staying("find_file", req[t], Files(t), c)
          BY <3>2, <4>1 DEF Staying
        <4>3. Ahead("update_file", r, c) = Ahead("find_file", req[t], c)
          BY <2>2, <3>4 DEF Ahead
        <4>4. Covers("update_file", r, Files(t), Rows(t)[c].count, c)
          BY <3>1, <3>2, <4>2, <4>3 DEF Covers, Staying
        <4> QED
          BY <4>4 DEF CountsAs
      <3> QED
        BY <3>3, <3>4
    <2> QED
      BY <1>1, <1>2, <2>2, <2>3, <2>5, <2>6, ReadGoto
  <1>4. ASSUME Goto(t, "insert_file", req[t])
        PROVE  IInv'
    <2>1. "insert_file" \in Steps
      BY DEF Steps
    <2>2. /\ step'[t] = "insert_file" /\ SameHands(req'[t], req[t])
          /\ req'[t].at = req[t].at /\ req'[t].hash = req[t].hash /\ req'[t].key = req[t].key
      BY <1>2, <1>4, <2>1, GotoFacts
    <2>3. StepFits(t)'
      BY <1>1, <1>2, <2>2 DEF StepFits, SameHands
    <2>4. ASSUME NEW c \in Ids
          PROVE  /\ Staying("insert_file", req[t], Files(t), c) \subseteq Staying(step[t], req[t], Files(t), c)
                 /\ Ahead("insert_file", req[t], c) <= Ahead(step[t], req[t], c)
      BY <1>1, <1>2 DEF Leaving, Staying, Ahead
    <2> QED
      BY <1>1, <1>2, <1>4, <2>1, <2>3, <2>4, ReadSame
  <1> QED
    BY <1>1, <1>3, <1>4 DEF FindFile

\* The bytes go to the bucket ...
LEMMA StoreObjectKeeps ==
    ASSUME IInv, NEW t \in Tasks, StoreObject(t)
    PROVE  IInv'
  <1>1. /\ step[t] = "store" /\ Goto(t, "insert_row", req[t]) /\ UNCHANGED <<files, rows, draft>>
        /\ objects' = objects \cup {<<req[t].hash, req[t].at.name>>}
    BY DEF StoreObject, At
  <1>2. /\ req[t] \in Requests /\ StepFits(t) /\ objects \subseteq Keys /\ draft \in [Tasks -> Transactions]
        /\ req[t].op = "upload" /\ req[t].hash \in Hashes /\ req[t].at \in Places
    BY <1>1, ReqTyped DEF StepFits
  <1>3. objects' \subseteq Keys
    BY <1>1, <1>2 DEF Keys, Places
  <1>4. Moves(t)
    BY <1>1, <1>2, <1>3, StillMoves
  <1>5. Files(t)' = Files(t) /\ Rows(t)' = Rows(t)
    BY <1>1 DEF Files, Rows
  <1>6. PlainStep(t)
    BY <1>1, <1>4, <1>5 DEF PlainStep
  <1>7. "insert_row" \in Steps
    BY DEF Steps
  <1>8. /\ step'[t] = "insert_row" /\ SameHands(req'[t], req[t])
        /\ req'[t].at = req[t].at /\ req'[t].hash = req[t].hash
    BY <1>1, <1>2, <1>7, GotoFacts
  <1>9. StepFits(t)'
    BY <1>1, <1>2, <1>8 DEF StepFits, SameHands
  <1>10. KeysFit(t)'
    BY <1>1, <1>8 DEF KeysFit
  <1>11. ASSUME NEW b \in Ids, CountFits(t, b)
         PROVE  CountsAs("insert_row", req[t], Files(t)', Rows(t)', b)
    <2>1. /\ Ahead("insert_row", req[t], b) = Ahead("store", req[t], b)
          /\ Leaving("insert_row", req[t], b) = Leaving("store", req[t], b)
      BY DEF Leaving, Ahead
    <2> QED
      BY <2>1, <1>1, <1>5, <1>11 DEF CountFits, CountsAs, Covers
  <1> QED
    BY <1>1, <1>2, <1>6, <1>7, <1>9, <1>10, <1>11, PlainGoto

\* ... and the row of a new content into the table.
LEMMA InsertRowKeeps ==
    ASSUME IInv, NEW t \in Tasks, InsertRow(t)
    PROVE  IInv'
  <1>1. step[t] = "insert_row" /\ objects' = objects
    BY DEF InsertRow, At
  <1>2. /\ req[t] \in Requests /\ StepFits(t) /\ TablesTyped /\ objects \subseteq Keys
        /\ rows \in [Ids -> StorageRows \cup {NoRow}] /\ files \in [Items -> FileRows \cup {NoFile}]
        /\ req[t].op = "upload" /\ req[t].hash \in Hashes /\ req[t].at \in Places
        /\ draft[t] = NoDraft /\ Files(t) = files /\ Rows(t) = rows
    BY <1>1, ReqTyped DEF StepFits, BulkOps
  <1>3. ASSUME Goto(t, "refind", req[t]), UNCHANGED <<files, rows, draft>>
        PROVE  IInv'
    <2>0. ReadOnly
      BY <1>1, <1>3 DEF ReadOnly
    <2>1. "refind" \in Steps
      BY DEF Steps
    <2>2. /\ step'[t] = "refind" /\ SameHands(req'[t], req[t])
          /\ req'[t].at = req[t].at /\ req'[t].hash = req[t].hash /\ req'[t].key = req[t].key
      BY <1>2, <1>3, <2>1, GotoFacts
    <2>3. StepFits(t)'
      BY <1>1, <1>2, <1>3, <2>2 DEF StepFits, SameHands
    <2>4. ASSUME NEW c \in Ids
          PROVE  /\ Staying("refind", req[t], Files(t), c) \subseteq Staying(step[t], req[t], Files(t), c)
                 /\ Ahead("refind", req[t], c) <= Ahead(step[t], req[t], c)
      BY <1>1, <1>2 DEF Leaving, Staying, Ahead
    <2> QED
      BY <1>1, <1>2, <1>3, <2>0, <2>1, <2>3, <2>4, ReadSame
  <1>4. ASSUME Holding(req[t].hash) = {}, NEW b \in Ids, rows[b] = NoRow, InNoHand(b),
               WriteRow(t, b, [hash |-> req[t].hash, count |-> 1, name |-> req[t].at.name, infected |-> FALSE]),
               Goto(t, "find_file", [req[t] EXCEPT !.id = b])
        PROVE  IInv'
    <2> DEFINE row == [hash |-> req[t].hash, count |-> 1, name |-> req[t].at.name, infected |-> FALSE]
               r == [req[t] EXCEPT !.id = b]
    <2>1. row \in StorageRows /\ row.hash = req[t].hash /\ row.count = 1 /\ KeyOf(row) = <<req[t].hash, req[t].at.name>>
      BY <1>2 DEF StorageRows, Places, KeyOf
    <2>2. /\ r \in Requests /\ r.op = req[t].op /\ r.id = b /\ r.old = req[t].old
          /\ r.todo = req[t].todo /\ r.at = req[t].at /\ r.hash = req[t].hash /\ r.item = req[t].item
          /\ r.target = req[t].target
      BY <1>2 DEF Requests
    <2>3. WriteRow(t, b, row) /\ Goto(t, "find_file", r) /\ "find_file" \in Steps
      BY <1>4 DEF Steps
    <2> HIDE DEF row, r
    <2>4. /\ Proceeds(t) /\ step'[t] = "find_file" /\ Concerned(t) = req[t].touched \cup Contents(r)
          /\ req'[t].touched = Concerned(t) /\ SameHands(req'[t], r)
          /\ req'[t].at = r.at /\ req'[t].hash = r.hash
      BY <2>2, <2>3, GotoFacts
    <2>5. row.hash \in Concerned(t)
      BY <1>2, <2>1, <2>2, <2>4, NullAssumption DEF Contents
    <2>6. /\ Moves(t) /\ files' = files /\ draft' = draft /\ rows' = [rows EXCEPT ![b] = row]
      <3>1. objects' \subseteq Keys
        BY <1>1, <1>2
      <3> QED
        BY <1>2, <1>4, <2>1, <2>3, <2>5, <3>1, InsertMoves
    <2>7. BytesStay(t)
      BY <1>1 DEF BytesStay
    <2>8. StepFits(t)'
      BY <1>1, <1>2, <2>2, <2>4, <2>6 DEF StepFits, SameHands
    <2>9. HandsKnown(t)'
      BY <1>2, <2>2, <2>4, <2>6, HandsNext
    <2>10. KeysFit(t)' /\ AloneFits(t)'
      BY <1>2, <2>2, <2>4, <2>6, AloneNext DEF KeysFit, NoDraft
    <2>11. Files(t)' = files' /\ Rows(t)' = rows'
      <3>1. DOMAIN draft'[t].files = {} /\ DOMAIN draft'[t].rows = {}
        BY <1>2, <2>6, EmptySome DEF NoDraft
      <3>2. files' \in [Items -> FileRows \cup {NoFile}] /\ rows' \in [Ids -> StorageRows \cup {NoRow}]
        BY <2>6 DEF Moves, TablesTyped
      <3> QED
        BY <3>1, <3>2, OverNothing DEF Files, Rows
    <2>12. row # NoRow /\ b # NoId /\ rows'[b] = row /\ \A c \in Ids \ {b} : rows'[c] = rows[c]
      BY <1>2, <2>1, <2>6, NullAssumption
    <2>13. References(files, b) = {}
      <3>1. \A i \in Items : files[i] # NoFile => files[i].blob # b
        BY <1>4, <2>12 DEF IInv, Linked
      <3> QED
        BY <3>1 DEF References, Live
    <2>14. ASSUME NEW c \in Ids, rows'[c] # NoRow, rows'[c].hash \in Concerned(t) \ Exempt'
           PROVE  CountFits(t, c)'
      <3>1. Entries(r, c) = {} /\ Leaving("find_file", r, c) = {} /\ Leaving("insert_row", req[t], c) = {}
            /\ Entries(req[t], c) = {} /\ Ahead("insert_row", req[t], c) = 0
        BY <1>2, <2>2 DEF Entries, Leaving, Ahead
      <3>2. CASE c = b
        <4>1. Ahead("find_file", r, c) = 1
          BY <3>2, <2>2 DEF Ahead
        <4>2. References(files, c) \ ({} \cup {}) = {}
          BY <3>2, <2>13
        <4>3. Covers("find_file", r, files, rows'[c].count, c)
          BY <3>1, <3>2, <4>1, <4>2, <2>1, <2>12, NothingCounted DEF Covers
        <4>4. CountsAs("find_file", r, files, rows', c)
          BY <4>3 DEF CountsAs
        <4>5. CountsAs("find_file", req'[t], files, rows', c)
          BY <4>4, <2>4, SameCounts
        <4> QED
          BY <4>5, <2>4, <2>6, <2>11 DEF CountFits, CountsAs, Covers, References, Live
      <3>3. CASE c # b
        <4>1. CountFits(t, c)
          BY <3>3, <2>4, <2>12, <2>14, <1>2, CountsKnown
        <4>2. Ahead("find_file", r, c) = 0
          BY <3>3, <2>2 DEF Ahead
        <4>3. Covers("find_file", r, files, rows'[c].count, c)
          BY <3>1, <3>3, <4>1, <4>2, <1>1, <1>2, <2>12, <2>14 DEF CountFits, CountsAs, Covers
        <4>4. CountsAs("find_file", r, files, rows', c)
          BY <4>3 DEF CountsAs
        <4>5. CountsAs("find_file", req'[t], files, rows', c)
          BY <4>4, <2>4, SameCounts
        <4> QED
          BY <4>5, <2>4, <2>6, <2>11 DEF CountFits, CountsAs, Covers, References, Live
      <3> QED
        BY <3>2, <3>3
    <2>15. ASSUME NEW c \in Ids, rows'[c] # NoRow, rows'[c].hash \in Concerned(t) \ disturbed'
           PROVE  KeyOf(rows'[c]) \in objects' \/ Missing(t, c)'
      <3>1. CASE c = b
        <4>1. req[t].hash \notin disturbed
          BY <3>1, <2>1, <2>4, <2>12, <2>15 DEF Proceeds
        <4>2. <<req[t].hash, req[t].at.name>> \in objects
          BY <4>1, <1>1 DEF IInv, KeysFit
        <4> QED
          BY <4>2, <3>1, <2>1, <2>12, <1>1
      <3>2. CASE c # b
        <4>1. KeyOf(rows[c]) \in objects \/ Missing(t, c)
          BY <3>2, <2>4, <2>12, <2>15, BytesKnown
        <4>2. ~Missing(t, c)
          BY <3>2, <1>1, <1>2, <2>12, <2>15 DEF Missing
        <4> QED
          BY <4>1, <4>2, <3>2, <2>12, <1>1
      <3> QED
        BY <3>1, <3>2
    <2>16. OwnFits(t)
      BY <2>8, <2>9, <2>10, <2>14, <2>15 DEF OwnFits
    <2> QED
      BY <2>4, <2>6, <2>7, <2>16, StepKeeps
  <1> QED
    BY <1>3, <1>4 DEF InsertRow, InNoHand

-----------------------------------------------------------------------------
\* A count is released, and the caller goes on or has ended.
LEMMA ReleasedKeeps ==
    ASSUME IInv, NEW t \in Tasks, Released(t), Moves(t), BytesStay(t),
           req[t].op \in LoopOps \cup {"upload", "link", "rename", "purge"},
           draft'[t].open = draft[t].open, draft[t] = NoDraft => draft'[t] = NoDraft,
           draft[t].open => files' = files /\ rows' = rows,
           \A b \in Ids : rows[b] = NoRow => rows'[b] = NoRow,
           \A b \in Ids : rows[b] # NoRow /\ CountFits(t, b) /\ Rows(t)'[b] # NoRow =>
             Rows(t)'[b].count >= Cardinality(References(Files(t)', b) \ Entries(req[t], b))
                                    + Cardinality(Entries(req[t], b)),
           \A b \in Ids : rows[b] # NoRow /\ rows[b].hash \notin disturbed'
                            /\ (KeyOf(rows[b]) \in objects \/ Missing(t, b)) =>
             rows'[b] = NoRow \/ KeyOf(rows[b]) \in objects' \/ Rows(t)'[b] = NoRow
    PROVE  IInv'
  <1>1. /\ req[t] \in Requests /\ StepFits(t) /\ req[t].op # "scan"
    BY ReqTyped DEF LoopOps, BulkOps
  <1>2. \A b \in Ids : rows[b] # NoRow /\ rows[b].hash \notin disturbed'
                            /\ (KeyOf(rows[b]) \in objects \/ Missing(t, b)) =>
             rows'[b] = NoRow \/ KeyOf(rows[b]) \in objects' \/ Missing(t, b)'
    BY DEF Missing
  <1>3. CASE req[t].op \in LoopOps
    <2> DEFINE r == [req[t] EXCEPT !.id = NoId, !.item = NoItem]
    <2>1. /\ r \in Requests /\ r.op = req[t].op /\ r.id = NoId /\ r.old = req[t].old
          /\ r.todo = req[t].todo /\ r.at = req[t].at /\ r.hash = req[t].hash
      BY <1>1 DEF Requests
    <2>2. Goto(t, "next", r) /\ "next" \in Steps
      BY <1>3 DEF Released, Steps
    <2> HIDE DEF r
    <2>3. /\ Proceeds(t) /\ step'[t] = "next" /\ SameHands(req'[t], r)
          /\ Concerned(t) = req[t].touched \cup Contents(r)
          /\ req'[t].touched = Concerned(t) /\ req'[t].at = r.at /\ req'[t].hash = r.hash
      BY <2>1, <2>2, GotoFacts
    <2>4. StepFits(t)'
      <3>1. ~draft'[t].open => draft'[t] = NoDraft
        BY <1>1 DEF StepFits
      <3> QED
        BY <1>1, <1>3, <2>1, <2>3, <3>1 DEF StepFits, SameHands, LoopOps, BulkOps
    <2>5. HandsKnown(t)'
      BY <1>1, <2>1, <2>3, HandsNext
    <2>6. KeysFit(t)' /\ AloneFits(t)'
      BY <2>3, AloneNext DEF KeysFit
    <2>7. ASSUME NEW b \in Ids, rows[b] # NoRow, CountFits(t, b)
          PROVE  CountsAs("next", r, Files(t)', Rows(t)', b)
      <3>1. /\ Leaving("next", r, b) = {} /\ Ahead("next", r, b) = 0 /\ Entries(r, b) = Entries(req[t], b)
        BY <2>1 DEF Leaving, Ahead, Entries
      <3>2. Entries(r, b) \cup Leaving("next", r, b) = Entries(req[t], b)
        BY <3>1
      <3>3. ASSUME Rows(t)'[b] # NoRow
            PROVE  Covers("next", r, Files(t)', Rows(t)'[b].count, b)
        <4> DEFINE m == Cardinality(References(Files(t)', b) \ Entries(req[t], b))
                   e == Cardinality(Entries(req[t], b))
        <4>1. Rows(t)'[b].count >= m + e
          BY <2>7, <3>3
        <4>2. m \in Nat
          BY ReferencesFinite, CardMono
        <4>3. e \in Nat
          BY <1>1, StayingFinite
        <4>4. m + e + 0 = m + e
          BY <4>2, <4>3
        <4>5. Rows(t)'[b].count >= m + e + 0
          BY <4>1, <4>4
        <4>6. Cardinality(References(Files(t)', b) \ (Entries(r, b) \cup Leaving("next", r, b))) = m
          BY <3>2
        <4>7. Cardinality(Entries(r, b)) = e
          BY <3>1
        <4> HIDE DEF m, e
        <4> QED
          BY <3>1, <4>5, <4>6, <4>7 DEF Covers
      <3> QED
        BY <3>3 DEF CountsAs
    <2> QED
      BY <1>1, <1>2, <2>3, <2>4, <2>5, <2>6, <2>7, OwnStep
  <1>4. CASE req[t].op \notin LoopOps
    <2>1. Finish(t) /\ ~draft[t].open /\ draft'[t] = NoDraft
      BY <1>1, <1>4 DEF Released, StepFits, LoopOps
    <2>2. Proceeds(t) /\ step'[t] = "idle" /\ req'[t] = NoReq
      BY <2>1, EndFacts DEF Finish, End, IInv, Typed
    <2>3. StepFits(t)' /\ HandsKnown(t)' /\ KeysFit(t)' /\ AloneFits(t)'
      BY <2>1, <2>2, IdleFits
    <2>4. SameHands(req'[t], NoReq)
      BY <2>2 DEF SameHands
    <2>5. ASSUME NEW b \in Ids, rows[b] # NoRow, CountFits(t, b)
          PROVE  CountsAs("idle", NoReq, Files(t)', Rows(t)', b)
      <3>1. Entries(req[t], b) = {} /\ References(Files(t)', b) \ {} = References(Files(t)', b)
        BY <1>4 DEF Entries, LoopOps
      <3>2. ASSUME Rows(t)'[b] # NoRow
            PROVE  Covers("idle", NoReq, Files(t)', Rows(t)'[b].count, b)
        <4>1. Rows(t)'[b].count >= Cardinality(References(Files(t)', b)) + 0
          BY <2>5, <3>1, <3>2, NothingCounted
        <4>2. Rows(t)'[b].count >= Cardinality(References(Files(t)', b))
          BY <4>1, ReferencesFinite
        <4> QED
          BY <4>2, IdleCovers
      <3> QED
        BY <3>2 DEF CountsAs
    <2> QED
      BY <1>1, <1>2, <2>2, <2>3, <2>4, <2>5, OwnStep
  <1> QED
    BY <1>3, <1>4

\* ... after a statement that deletes nothing, and has counted what it did.
LEMMA PlainReleased ==
    ASSUME IInv, NEW t \in Tasks, Released(t), PlainStep(t),
           req[t].op \in LoopOps \cup {"upload", "link", "rename"},
           draft'[t].open = draft[t].open, draft[t] = NoDraft => draft'[t] = NoDraft,
           draft[t].open => files' = files /\ rows' = rows,
           \A b \in Ids : Rows(t)[b] # NoRow /\ Covers(step[t], req[t], Files(t), Rows(t)[b].count, b)
                            /\ CountsAs(step[t], req[t], Files(t), Rows(t), b) /\ Rows(t)'[b] # NoRow =>
             Rows(t)'[b].count >= Cardinality(References(Files(t)', b) \ Entries(req[t], b))
                                    + Cardinality(Entries(req[t], b))
    PROVE  IInv'
  <1>1. /\ BytesStay(t) /\ Moves(t) /\ step[t] \notin {"delete_row", "purge_files", "purge_row"}
        /\ \A b \in Ids : rows[b] = NoRow => rows'[b] = NoRow
        /\ \A b \in Ids : Rows(t)[b] = NoRow => Rows(t)'[b] = NoRow
        /\ objects \subseteq objects'
    BY PlainBytes DEF PlainStep
  <1>2. \A b \in Ids : rows[b] # NoRow /\ (KeyOf(rows[b]) \in objects \/ Missing(t, b)) =>
             KeyOf(rows[b]) \in objects' \/ Rows(t)'[b] = NoRow
    BY <1>1 DEF Missing
  <1>3. ASSUME NEW b \in Ids, rows[b] # NoRow, CountFits(t, b), Rows(t)'[b] # NoRow
        PROVE  Rows(t)'[b].count >= Cardinality(References(Files(t)', b) \ Entries(req[t], b))
                                    + Cardinality(Entries(req[t], b))
    BY <1>1, <1>3 DEF CountFits, CountsAs
  <1> QED
    BY <1>1, <1>2, <1>3, ReleasedKeeps

\* An error of decrement_ref_count.
LEMMA ReleaseFailsKeeps ==
    ASSUME IInv, NEW t \in Tasks, ReleaseFails(t), req[t].op \in LoopOps \cup {"upload", "link", "rename"},
           step[t] \notin {"delete_row", "purge_files", "purge_row"},
           ~draft[t].open => \A b \in Ids : rows[b] # NoRow =>
             /\ Ahead(step[t], req[t], b) >= 0
             /\ References(files, b) \cap Leaving(step[t], req[t], b) = {}
    PROVE  IInv'
  <1>1. CASE draft[t].open
    BY <1>1, GiveUpKeeps DEF ReleaseFails
  <1>2. CASE ~draft[t].open
    <2>1. /\ PlainStep(t) /\ Files(t)' = Files(t) /\ Rows(t)' = Rows(t)
          /\ files' = files /\ rows' = rows /\ draft' = draft /\ Released(t)
      BY <1>2, ReadStep DEF ReleaseFails
    <2>2. Files(t) = files /\ Rows(t) = rows /\ req[t] \in Requests
      BY <1>2, ReqTyped
    <2>3. ASSUME NEW b \in Ids, Rows(t)[b] # NoRow, Covers(step[t], req[t], Files(t), Rows(t)[b].count, b)
          PROVE  Rows(t)[b].count >= Cardinality(References(Files(t), b) \ Entries(req[t], b))
                                    + Cardinality(Entries(req[t], b))
      <3>1. /\ Ahead(step[t], req[t], b) >= 0
            /\ References(Files(t), b) \cap Leaving(step[t], req[t], b) = {}
        BY <1>2, <2>2, <2>3
      <3>2. References(Files(t), b) \ Entries(req[t], b) = Staying(step[t], req[t], Files(t), b)
        BY <3>1 DEF Staying
      <3>3. Rows(t)[b].count \in Int
        BY <2>3, CountTyped
      <3>4. /\ Cardinality(Staying(step[t], req[t], Files(t), b)) \in Nat /\ Cardinality(Entries(req[t], b)) \in Nat
            /\ Ahead(step[t], req[t], b) \in Int
        BY <2>2, StayingFinite
      <3> DEFINE m == Cardinality(Staying(step[t], req[t], Files(t), b))
                 e == Cardinality(Entries(req[t], b))
      <3>5. Rows(t)[b].count >= m + e + Ahead(step[t], req[t], b)
        BY <2>3 DEF Covers, Staying
      <3>6. Rows(t)[b].count >= m + e
        BY <3>1, <3>3, <3>4, <3>5
      <3> QED
        BY <3>2, <3>6
    <2> QED
      BY <2>1, <2>3, PlainReleased
  <1> QED
    BY <1>1, <1>2

-----------------------------------------------------------------------------
\* How a count covers the references when nothing is in hand any more.
LEMMA CoversDone ==
    ASSUME NEW s, NEW q \in Requests, NEW fs, NEW n \in Int, NEW gs, NEW m \in Int, NEW b,
           Covers(s, q, fs, n, b), References(gs, b) \ Entries(q, b) \subseteq Staying(s, q, fs, b),
           m >= n - Ahead(s, q, b)
    PROVE  m >= Cardinality(References(gs, b) \ Entries(q, b)) + Cardinality(Entries(q, b))
  <1> DEFINE R == References(gs, b) \ Entries(q, b)
             S == Staying(s, q, fs, b)
  <1>1. /\ S \in SUBSET Items /\ Cardinality(Entries(q, b)) \in Nat /\ Ahead(s, q, b) \in Int
    BY StayingFinite
  <1>2. Cardinality(R) \in Nat /\ Cardinality(S) \in Nat /\ Cardinality(R) <= Cardinality(S)
    BY <1>1, CardMono
  <1>3. n >= Cardinality(S) + Cardinality(Entries(q, b)) + Ahead(s, q, b)
    BY DEF Covers, Staying
  <1> HIDE DEF R, S
  <1>4. m >= Cardinality(R) + Cardinality(Entries(q, b))
    BY <1>1, <1>2, <1>3
  <1> QED
    BY <1>4 DEF R

\* A request that ends has no items still to do.
LEMMA CoversEnd ==
    ASSUME NEW s, NEW q \in Requests, NEW fs, NEW n \in Int, NEW gs, NEW m \in Int, NEW b,
           Covers(s, q, fs, n, b), q.op \notin {"delete_item", "expire"},
           References(gs, b) \subseteq Staying(s, q, fs, b), m >= n - Ahead(s, q, b)
    PROVE  m >= Cardinality(References(gs, b))
  <1>1. /\ Staying(s, q, fs, b) \in SUBSET Items /\ Ahead(s, q, b) \in Int
    BY StayingFinite
  <1>2. /\ Cardinality(References(gs, b)) \in Nat /\ Cardinality(Staying(s, q, fs, b)) \in Nat
        /\ Cardinality(References(gs, b)) <= Cardinality(Staying(s, q, fs, b))
    BY <1>1, CardMono
  <1>3. Cardinality(Entries(q, b)) = 0
    BY NothingCounted DEF Entries
  <1>4. n >= Cardinality(Staying(s, q, fs, b)) + Cardinality(Entries(q, b)) + Ahead(s, q, b)
    BY DEF Covers, Staying
  <1> QED
    BY <1>1, <1>2, <1>3, <1>4

\* ... not even when it has made one more reference and counted it.
LEMMA CoversEndMore ==
    ASSUME NEW s, NEW q \in Requests, NEW fs, NEW n \in Int, NEW gs, NEW m \in Int, NEW b, NEW i \in Items,
           Covers(s, q, fs, n, b), q.op \notin {"delete_item", "expire"},
           References(gs, b) \subseteq Staying(s, q, fs, b) \cup {i}, m >= n - Ahead(s, q, b) + 1
    PROVE  m >= Cardinality(References(gs, b))
  <1>1. /\ Staying(s, q, fs, b) \in SUBSET Items /\ Ahead(s, q, b) \in Int
    BY StayingFinite
  <1>2. /\ Cardinality(References(gs, b)) \in Nat /\ Cardinality(Staying(s, q, fs, b) \cup {i}) \in Nat
        /\ Cardinality(References(gs, b)) <= Cardinality(Staying(s, q, fs, b) \cup {i})
    BY <1>1, CardMono
  <1>3. /\ Cardinality(Staying(s, q, fs, b)) \in Nat
        /\ Cardinality(Staying(s, q, fs, b) \cup {i}) <= Cardinality(Staying(s, q, fs, b)) + 1
    BY <1>1, CardOne
  <1>4. Cardinality(Entries(q, b)) = 0
    BY NothingCounted DEF Entries
  <1>5. n >= Cardinality(Staying(s, q, fs, b)) + Cardinality(Entries(q, b)) + Ahead(s, q, b)
    BY DEF Covers, Staying
  <1> QED
    BY <1>1, <1>2, <1>3, <1>4, <1>5

\* A row that a transaction shows is in the table, under the same hash and name.
LEMMA RowBehind ==
    ASSUME IInv, NEW t \in Tasks, NEW b \in Ids, Rows(t)[b] # NoRow
    PROVE  rows[b] # NoRow /\ KeyOf(Rows(t)[b]) = KeyOf(rows[b]) /\ Rows(t)[b].hash = rows[b].hash
  <1>1. /\ \A c \in DOMAIN draft[t].rows : Rows(t)[c] = draft[t].rows[c]
        /\ \A c \in Ids \ DOMAIN draft[t].rows : Rows(t)[c] = rows[c]
    BY ViewFacts DEF IInv, Typed
  <1>2. rows[b] # NoRow /\ KeyOf(Rows(t)[b]) = KeyOf(rows[b])
    BY <1>1 DEF IInv, DraftFits, DraftKnown
  <1> QED
    BY <1>2 DEF KeyOf

\* The content of a row in hand is touched.
LEMMA HandTouched ==
    ASSUME IInv, NEW t \in Tasks, req[t].op # "scan", NEW b \in Ids, rows[b] # NoRow,
           b \in {req[t].id, req[t].old} \/ \E i \in DOMAIN req[t].todo : req[t].todo[i] = b
    PROVE  rows[b].hash \in req[t].touched /\ rows[b].hash \in Concerned(t)
  <1>1. HandsKnown(t) /\ b # NoId
    BY NullAssumption DEF IInv
  <1>2. rows[b].hash \in Contents(req[t])
    BY <1>1 DEF Contents
  <1> QED
    BY <1>1, <1>2 DEF HandsKnown, Concerned

\* A row with another count.
LEMMA CountWritten ==
    ASSUME NEW row \in StorageRows, NEW n \in Int
    PROVE  /\ [row EXCEPT !.count = n] \in StorageRows /\ [row EXCEPT !.count = n].count = n
           /\ KeyOf([row EXCEPT !.count = n]) = KeyOf(row)
  BY DEF StorageRows, KeyOf

\* The count plus one is written.
LEMMA RaiseKeeps ==
    ASSUME IInv, NEW t \in Tasks, Raise(t)
    PROVE  IInv'
  <1> DEFINE b == req[t].id
             row == [Rows(t)[b] EXCEPT !.count = req[t].count]
  <1>1. step[t] = "raise" /\ ~Waits(t)
    BY DEF Raise, At
  <1>2. /\ req[t] \in Requests /\ StepFits(t) /\ req[t].op \in {"upload", "link", "bulk_copy"} /\ b \in Ids
        /\ req[t].count \in Int
    BY <1>1, ReqTyped DEF StepFits, Requests
  <1>3. ASSUME Rows(t)[b] # NoRow, WriteRow(t, b, row), objects' = objects,
               IF req[t].op = "bulk_copy" THEN Released(t) ELSE Goto(t, "find_file", req[t])
        PROVE  IInv'
    <2>1. /\ row \in StorageRows /\ row.count = req[t].count /\ KeyOf(row) = KeyOf(Rows(t)[b])
      BY <1>2, <1>3, CountTyped, CountWritten
    <2>2. /\ rows[b] # NoRow /\ rows[b].hash \in Concerned(t)
      BY <1>2, <1>3, RowBehind, HandTouched
    <2>3. \A u \in Tasks \ {t} : b \notin DOMAIN draft[u].rows
      BY <1>1, Unlocked
    <2> HIDE DEF row
    <2>4. /\ PlainStep(t) /\ Files(t)' = Files(t)
          /\ Rows(t)'[b] = row /\ \A c \in Ids \ {b} : Rows(t)'[c] = Rows(t)[c]
          /\ draft'[t].open = draft[t].open /\ (draft[t] = NoDraft => draft'[t] = NoDraft)
          /\ (draft[t].open => files' = files /\ rows' = rows)
      BY <1>1, <1>2, <1>3, <2>1, <2>2, <2>3, RowStep
    <2>5. CASE req[t].op # "bulk_copy"
      <3>1. Goto(t, "find_file", req[t]) /\ "find_file" \in Steps
        BY <1>3, <2>5 DEF Steps
      <3>2. /\ step'[t] = "find_file" /\ SameHands(req'[t], req[t])
            /\ req'[t].at = req[t].at /\ req'[t].hash = req[t].hash
        BY <1>2, <3>1, GotoFacts
      <3>3. ~draft[t].open /\ draft'[t] = NoDraft /\ ~draft'[t].open
        BY <1>2, <2>4, <2>5 DEF StepFits, BulkOps
      <3>4. StepFits(t)'
        BY <1>1, <1>2, <2>5, <3>2, <3>3 DEF StepFits, SameHands
      <3>5. KeysFit(t)'
        BY <3>2 DEF KeysFit
      <3>6. ASSUME NEW c \in Ids, rows[c] # NoRow, CountFits(t, c), Rows(t)'[c] # NoRow
            PROVE  CountsAs("find_file", req[t], Files(t)', Rows(t)', c)
        <4>1. Rows(t)[c] # NoRow
          BY <3>6, <2>4 DEF PlainStep
        <4>2. /\ Covers("raise", req[t], Files(t), Rows(t)[c].count, c) /\ Rows(t)[c].count \in Int
              /\ c = b => req[t].count = Rows(t)[c].count + 1
          BY <4>1, <3>6, <1>1, CountTyped DEF CountFits, CountsAs
        <4>3. /\ Leaving("find_file", req[t], c) = {} /\ Leaving("raise", req[t], c) = {}
              /\ Ahead("raise", req[t], c) = 0
              /\ Ahead("find_file", req[t], c) = IF c = b THEN 1 ELSE 0
          BY <2>5 DEF Leaving, Ahead
        <4>4. Rows(t)'[c].count = Rows(t)[c].count + (IF c = b THEN 1 ELSE 0)
          BY <2>1, <2>4, <4>2
        <4>5. Staying("find_file", req[t], Files(t)', c) \subseteq Staying("raise", req[t], Files(t), c)
          BY <2>4, <4>3 DEF Staying
        <4>6. Rows(t)'[c].count \in Int
          BY <4>2, <4>4
        <4>7. Rows(t)'[c].count - Ahead("find_file", req[t], c) >= Rows(t)[c].count - Ahead("raise", req[t], c)
          BY <4>2, <4>3, <4>4
        <4>8. Covers("find_file", req[t], Files(t)', Rows(t)'[c].count, c)
          BY <1>2, <4>2, <4>5, <4>6, <4>7, CoversLess
        <4> QED
          BY <4>8 DEF CountsAs
      <3>7. \A c \in Ids : rows[c] # NoRow /\ CountFits(t, c) => CountsAs("find_file", req[t], Files(t)', Rows(t)', c)
        BY <3>6 DEF CountsAs
      <3> QED
        BY <1>2, <2>4, <3>1, <3>3, <3>4, <3>5, <3>7, PlainGoto
    <2>6. CASE req[t].op = "bulk_copy"
      <3>1. Released(t) /\ req[t].op \in LoopOps
        BY <1>3, <2>6 DEF LoopOps, BulkOps
      <3>2. ASSUME NEW c \in Ids, Rows(t)[c] # NoRow, Covers(step[t], req[t], Files(t), Rows(t)[c].count, c),
                   CountsAs(step[t], req[t], Files(t), Rows(t), c)
            PROVE  Rows(t)'[c].count >= Cardinality(References(Files(t)', c) \ Entries(req[t], c))
                                          + Cardinality(Entries(req[t], c))
        <4>2. (c = b => req[t].count = Rows(t)[c].count + 1) /\ Rows(t)[c].count \in Int
          BY <3>2, <1>1, CountTyped DEF CountsAs
        <4>3. /\ Leaving("raise", req[t], c) = {} /\ Ahead("raise", req[t], c) = IF c = b THEN -1 ELSE 0
          BY <2>6 DEF Leaving, Ahead
        <4>4. Rows(t)'[c].count = Rows(t)[c].count + (IF c = b THEN 1 ELSE 0)
          BY <2>1, <2>4, <3>2, <4>2, CountTyped
        <4>5. References(Files(t)', c) \ Entries(req[t], c) \subseteq Staying("raise", req[t], Files(t), c)
          BY <2>4, <4>3 DEF Staying
        <4>6. Rows(t)[c].count \in Int /\ Rows(t)'[c].count \in Int
          BY <3>2, <4>4, CountTyped
        <4>7. Rows(t)'[c].count >= Rows(t)[c].count - Ahead("raise", req[t], c)
          BY <4>3, <4>4, <4>6
        <4> QED
          BY <1>1, <1>2, <3>2, <4>5, <4>6, <4>7, CoversDone
      <3> QED
        BY <2>4, <3>1, <3>2, PlainReleased
    <2> QED
      BY <2>5, <2>6
  <1>4. ASSUME GiveUp(t)
        PROVE  IInv'
    <2>1. draft[t].open \/ req[t].op \notin {"delete_item", "expire", "bulk_copy"}
      BY <1>2 DEF StepFits, BulkOps
    <2> QED
      BY <1>1, <1>4, <2>1, GiveUpKeeps
  <1> QED
    BY <1>3, <1>4 DEF Raise

\* The live file at the place takes the content.
LEMMA UpdateFileKeeps ==
    ASSUME IInv, NEW t \in Tasks, UpdateFile(t)
    PROVE  IInv'
  <1> DEFINE b == req[t].id
             i == req[t].target
             row == [files[i] EXCEPT !.blob = b, !.expires = req[t].expires]
  <1>1. step[t] = "update_file" /\ ~Waits(t)
    BY DEF UpdateFile, At
  <1>2. /\ req[t] \in Requests /\ StepFits(t) /\ req[t].op \in {"upload", "link"} /\ b \in Ids /\ i \in Items
        /\ req[t].expires \in BOOLEAN /\ req[t].old \in Ids \cup {NoId}
        /\ files \in [Items -> FileRows \cup {NoFile}]
    BY <1>1, ReqTyped DEF StepFits, Requests
  <1>3. draft[t] = NoDraft /\ Files(t) = files
    BY <1>2, ReqTyped DEF StepFits, BulkOps
  <1>4. ASSUME files[i] # NoFile, MayRefer(t, b), WriteFile(t, i, row), ReleaseOld(t), objects' = objects
        PROVE  IInv'
    <2>1. files[i] \in FileRows
      BY <1>2, <1>4
    <2>2. row \in FileRows /\ row.blob = b
      BY <1>2, <2>1 DEF FileRows
    <2>3. b # NoId /\ Lasts(b)
      <3>1. \A u \in Tasks \ {t} : ~(b \in DOMAIN draft[u].rows /\ draft[u].rows[b] = NoRow)
        BY <1>1, <1>2, Unlocked, NullAssumption
      <3> QED
        BY <1>2, <1>4, <3>1, ReferLasts, NullAssumption
    <2>4. rows[b].hash \in Concerned(t)
      BY <1>2, <2>3, HandTouched DEF Lasts
    <2>5. \A u \in Tasks \ {t} : i \notin DOMAIN draft[u].files
      BY <1>1, Unlocked
    <2> HIDE DEF row
    <2>6. /\ PlainStep(t) /\ Rows(t)' = Rows(t) /\ draft'[t] = NoDraft
          /\ \A c \in Ids : References(Files(t)', c) = IF row.live /\ row.blob = c THEN References(Files(t), c) \cup {i}
                                                       ELSE References(Files(t), c) \ {i}
      BY <1>1, <1>2, <1>3, <1>4, <2>2, <2>3, <2>4, <2>5, FileStep
    <2>7. \A c \in Ids : Rows(t)'[c] = Rows(t)[c] /\ Entries(req[t], c) = {}
      BY <1>2, <2>6 DEF Entries
    <2>8. ASSUME NEW c \in Ids, CountFits(t, c), Rows(t)'[c] # NoRow
          PROVE  /\ Covers("update_file", req[t], Files(t), Rows(t)[c].count, c) /\ Rows(t)[c].count \in Int
                 /\ Leaving("update_file", req[t], c) = IF req[t].old = c /\ b # c THEN {i} ELSE {}
                 /\ Ahead("update_file", req[t], c) = IF c \in {b, req[t].old} THEN 1 ELSE 0
      BY <1>1, <1>2, <2>7, <2>8, CountTyped DEF CountFits, CountsAs, Leaving, Ahead
    <2>9. CASE req[t].old \notin {NoId, b}
      <3> DEFINE r == [req[t] EXCEPT !.id = req[t].old]
      <3>1. /\ r \in Requests /\ r.op = req[t].op /\ r.id = req[t].old /\ r.old = req[t].old /\ r.todo = req[t].todo
            /\ r.at = req[t].at /\ r.hash = req[t].hash
        BY <1>2 DEF Requests
      <3>2. Goto(t, "read_count", r) /\ "read_count" \in Steps
        BY <1>4, <2>9 DEF ReleaseOld, Steps
      <3> HIDE DEF r
      <3>3. step'[t] = "read_count" /\ SameHands(req'[t], r) /\ req'[t].at = r.at
        BY <3>1, <3>2, GotoFacts
      <3>4. StepFits(t)'
        BY <1>2, <1>3, <2>6, <2>9, <3>1, <3>3 DEF StepFits, SameHands, LoopOps, BulkOps
      <3>5. KeysFit(t)' /\ ~draft'[t].open
        BY <2>6, <3>3 DEF KeysFit, NoDraft
      <3>6. ASSUME NEW c \in Ids, CountFits(t, c), Rows(t)'[c] # NoRow
            PROVE  Covers("read_count", r, Files(t)', Rows(t)'[c].count, c)
        <4>1. /\ Leaving("read_count", r, c) = {} /\ Entries(r, c) = Entries(req[t], c)
              /\ Ahead("read_count", r, c) = IF c = req[t].old THEN 1 ELSE 0
          BY <2>7, <3>1, <1>2 DEF Leaving, Entries, Ahead
        <4>2. CASE c = b
          <5>1. Staying("read_count", r, Files(t)', c) \subseteq Staying("update_file", req[t], Files(t), c) \cup {i}
            BY <4>2, <2>6, <2>7, <2>8, <3>6, <4>1 DEF Staying
          <5>2. Rows(t)'[c].count - Ahead("read_count", r, c) >= Rows(t)[c].count - Ahead("update_file", req[t], c) + 1
            BY <4>2, <2>7, <2>8, <2>9, <3>6, <4>1
          <5> QED
            BY <1>2, <2>7, <2>8, <3>1, <3>6, <4>1, <5>1, <5>2, CoversMore
        <4>3. CASE c # b
          <5>1. Staying("read_count", r, Files(t)', c) \subseteq Staying("update_file", req[t], Files(t), c)
            BY <4>3, <2>2, <2>6, <2>7, <2>8, <3>6, <4>1 DEF Staying
          <5>2. Rows(t)'[c].count - Ahead("read_count", r, c) >= Rows(t)[c].count - Ahead("update_file", req[t], c)
            BY <4>3, <2>7, <2>8, <2>9, <3>6, <4>1
          <5> QED
            BY <1>2, <2>7, <2>8, <3>1, <3>6, <4>1, <5>1, <5>2, CoversLess
        <4> QED
          BY <4>2, <4>3
      <3>7. \A c \in Ids : rows[c] # NoRow /\ CountFits(t, c) => CountsAs("read_count", r, Files(t)', Rows(t)', c)
        BY <3>6 DEF CountsAs
      <3> QED
        BY <1>2, <2>6, <3>1, <3>2, <3>4, <3>5, <3>7, PlainGoto
    <2>10. CASE req[t].old \in {NoId, b}
      <3>1. Finish(t)
        BY <1>4, <2>10 DEF ReleaseOld
      <3>2. ASSUME NEW c \in Ids, CountFits(t, c), Rows(t)'[c] # NoRow
            PROVE  Rows(t)'[c].count >= Cardinality(References(Files(t)', c))
        <4>0. c # NoId
          BY NullAssumption
        <4>1. CASE c = b
          <5>1. References(Files(t)', c) \subseteq Staying("update_file", req[t], Files(t), c) \cup {i}
            BY <4>1, <2>6, <2>7, <2>8, <3>2 DEF Staying
          <5>2. Rows(t)'[c].count >= Rows(t)[c].count - Ahead("update_file", req[t], c) + 1
            BY <4>1, <2>7, <2>8, <3>2
          <5> QED
            BY <1>2, <2>7, <2>8, <3>2, <5>1, <5>2, CoversEndMore
        <4>2. CASE c # b
          <5>1. References(Files(t)', c) \subseteq Staying("update_file", req[t], Files(t), c)
            BY <4>0, <4>2, <2>2, <2>6, <2>7, <2>8, <2>10, <3>2 DEF Staying
          <5>2. Rows(t)'[c].count >= Rows(t)[c].count - Ahead("update_file", req[t], c)
            BY <4>0, <4>2, <2>7, <2>8, <2>10, <3>2
          <5> QED
            BY <1>2, <2>7, <2>8, <3>2, <5>1, <5>2, CoversEnd
        <4> QED
          BY <4>1, <4>2
      <3> QED
        BY <1>2, <2>6, <3>1, <3>2, PlainFinish
    <2> QED
      BY <2>9, <2>10
  <1>5. ASSUME GiveUp(t)
        PROVE  IInv'
    BY <1>1, <1>2, <1>5, GiveUpKeeps
  <1> QED
    BY <1>4, <1>5 DEF UpdateFile

\* A new file takes the content.
LEMMA InsertFileKeeps ==
    ASSUME IInv, NEW t \in Tasks, InsertFile(t)
    PROVE  IInv'
  <1> DEFINE b == req[t].id
             row == [at |-> req[t].at, blob |-> b, live |-> TRUE, expires |-> req[t].expires]
  <1>1. step[t] = "insert_file" /\ ~Waits(t)
    BY DEF InsertFile, At
  <1>2. /\ req[t] \in Requests /\ StepFits(t) /\ req[t].op \in {"upload", "link"} /\ b \in Ids
        /\ req[t].expires \in BOOLEAN /\ req[t].at \in Places
    BY <1>1, ReqTyped DEF StepFits, Requests
  <1>3. draft[t] = NoDraft /\ Files(t) = files
    BY <1>2, ReqTyped DEF StepFits, BulkOps
  <1>4. ASSUME MayRefer(t, b), NEW i \in Items, FreshItem(i), WriteFile(t, i, row), Finish(t), objects' = objects
        PROVE  IInv'
    <2>1. row \in FileRows /\ row.blob = b
      BY <1>2 DEF FileRows
    <2>2. b # NoId /\ Lasts(b)
      <3>1. \A u \in Tasks \ {t} : ~(b \in DOMAIN draft[u].rows /\ draft[u].rows[b] = NoRow)
        BY <1>1, <1>2, Unlocked, NullAssumption
      <3> QED
        BY <1>2, <1>4, <3>1, ReferLasts, NullAssumption
    <2>3. rows[b].hash \in Concerned(t)
      BY <1>2, <2>2, HandTouched DEF Lasts
    <2>4. \A u \in Tasks \ {t} : i \notin DOMAIN draft[u].files
      BY <1>4 DEF FreshItem
    <2> HIDE DEF row
    <2>5. /\ PlainStep(t) /\ Rows(t)' = Rows(t) /\ draft'[t] = NoDraft
          /\ \A c \in Ids : References(Files(t)', c) = IF row.live /\ row.blob = c THEN References(Files(t), c) \cup {i}
                                                       ELSE References(Files(t), c) \ {i}
      BY <1>1, <1>2, <1>3, <1>4, <2>1, <2>2, <2>3, <2>4, FileStep
    <2>6. ASSUME NEW c \in Ids, CountFits(t, c), Rows(t)'[c] # NoRow
          PROVE  Rows(t)'[c].count >= Cardinality(References(Files(t)', c))
      <3>1. Rows(t)'[c] = Rows(t)[c] /\ Entries(req[t], c) = {}
        BY <1>2, <2>5 DEF Entries
      <3>2. /\ Covers("insert_file", req[t], Files(t), Rows(t)[c].count, c) /\ Rows(t)[c].count \in Int
            /\ Leaving("insert_file", req[t], c) = {}
            /\ Ahead("insert_file", req[t], c) = IF c = b THEN 1 ELSE 0
        BY <1>1, <1>2, <3>1, <2>6, CountTyped DEF CountFits, CountsAs, Leaving, Ahead
      <3>3. CASE c = b
        <4>1. References(Files(t)', c) \subseteq Staying("insert_file", req[t], Files(t), c) \cup {i}
          BY <3>1, <3>2, <3>3, <2>5 DEF Staying
        <4>2. Rows(t)'[c].count >= Rows(t)[c].count - Ahead("insert_file", req[t], c) + 1
          BY <3>1, <3>2, <3>3
        <4> QED
          BY <1>2, <3>1, <3>2, <4>1, <4>2, CoversEndMore
      <3>4. CASE c # b
        <4>1. References(Files(t)', c) \subseteq Staying("insert_file", req[t], Files(t), c)
          BY <3>1, <3>2, <3>4, <2>1, <2>5 DEF Staying
        <4>2. Rows(t)'[c].count >= Rows(t)[c].count - Ahead("insert_file", req[t], c)
          BY <3>1, <3>2, <3>4
        <4> QED
          BY <1>2, <3>1, <3>2, <4>1, <4>2, CoversEnd
      <3> QED
        BY <3>3, <3>4
    <2> QED
      BY <1>2, <1>4, <2>5, <2>6, PlainFinish
  <1>5. ASSUME GiveUp(t)
        PROVE  IInv'
    BY <1>1, <1>2, <1>5, GiveUpKeeps
  <1> QED
    BY <1>4, <1>5 DEF InsertFile

-----------------------------------------------------------------------------
\* The statements that release a content.
LEMMA ReadCountKeeps ==
    ASSUME IInv, NEW t \in Tasks, ReadCount(t)
    PROVE  IInv'
  <1> DEFINE b == req[t].id
             r == [req[t] EXCEPT !.count = Rows(t)[b].count - 1]
  <1>1. step[t] = "read_count"
    BY DEF ReadCount, At
  <1>2. /\ req[t] \in Requests /\ StepFits(t) /\ req[t].op \in LoopOps \cup {"upload", "link", "rename"} /\ b \in Ids
    BY <1>1, ReqTyped DEF StepFits
  <1>3. ASSUME Rows(t)[b] # NoRow, Goto(t, "lower", r), ReadOnly
        PROVE  IInv'
    <2>1. Rows(t)[b].count - 1 \in Int
      BY <1>2, <1>3, CountTyped
    <2>2. /\ r \in Requests /\ r.op = req[t].op /\ r.id = b /\ r.old = req[t].old /\ r.item = req[t].item
          /\ r.target = req[t].target /\ r.todo = req[t].todo
          /\ r.at = req[t].at /\ r.hash = req[t].hash /\ r.count = Rows(t)[b].count - 1
      BY <1>2, <2>1 DEF Requests
    <2> HIDE DEF r
    <2>3. Goto(t, "lower", r) /\ "lower" \in Steps /\ draft' = draft
      BY <1>3 DEF Steps, ReadOnly
    <2>4. step'[t] = "lower" /\ SameHands(req'[t], r) /\ req'[t].at = r.at
      BY <2>2, <2>3, GotoFacts
    <2>5. StepFits(t)'
      BY <1>1, <1>2, <2>2, <2>3, <2>4 DEF StepFits, SameHands, LoopOps, BulkOps
    <2>6. ASSUME NEW c \in Ids
          PROVE  /\ Staying("lower", r, Files(t), c) \subseteq Staying(step[t], req[t], Files(t), c)
                 /\ Ahead("lower", r, c) <= Ahead(step[t], req[t], c)
      <3>1. /\ Leaving("lower", r, c) = {} /\ Leaving("read_count", req[t], c) = {}
            /\ Entries(r, c) = Entries(req[t], c)
            /\ Ahead("lower", r, c) = Ahead("read_count", req[t], c) /\ Ahead("lower", r, c) \in Int
        BY <2>2 DEF Entries, Leaving, Ahead
      <3> QED
        BY <3>1, <1>1 DEF Staying
    <2>7. r.op # "scan"
      BY <1>2, <2>2 DEF LoopOps, BulkOps
    <2> QED
      BY <1>1, <1>3, <2>2, <2>3, <2>5, <2>6, <2>7, ReadSame
  <1>4. ASSUME ReleaseFails(t)
        PROVE  IInv'
    <2>1. \A c \in Ids : Ahead(step[t], req[t], c) >= 0 /\ Leaving(step[t], req[t], c) = {}
      BY <1>1 DEF Leaving, Ahead
    <2> QED
      BY <1>1, <1>2, <1>4, <2>1, ReleaseFailsKeeps
  <1> QED
    BY <1>3, <1>4 DEF ReadCount

\* The count less one is written.
LEMMA LowerKeeps ==
    ASSUME IInv, NEW t \in Tasks, Lower(t)
    PROVE  IInv'
  <1> DEFINE b == req[t].id
             row == [Rows(t)[b] EXCEPT !.count = req[t].count]
             r == [req[t] EXCEPT !.key = KeyOf(Rows(t)[b])]
  <1>1. step[t] = "lower" /\ ~Waits(t)
    BY DEF Lower, At
  <1>2. /\ req[t] \in Requests /\ StepFits(t) /\ req[t].op \in LoopOps \cup {"upload", "link", "rename"} /\ b \in Ids
        /\ req[t].count \in Int /\ req[t].op # "scan"
    BY <1>1, ReqTyped DEF StepFits, Requests, LoopOps, BulkOps
  <1>3. ASSUME Rows(t)[b] # NoRow, WriteRow(t, b, row), objects' = objects,
               IF req[t].count <= 0 THEN Goto(t, "delete_object", r) ELSE Released(t)
        PROVE  IInv'
    <2>1. /\ row \in StorageRows /\ row.count = req[t].count /\ KeyOf(row) = KeyOf(Rows(t)[b])
      BY <1>2, <1>3, CountTyped, CountWritten
    <2>2. /\ rows[b] # NoRow /\ rows[b].hash \in Concerned(t) /\ rows[b].hash \in req[t].touched
          /\ KeyOf(Rows(t)[b]) = KeyOf(rows[b])
      BY <1>2, <1>3, RowBehind, HandTouched
    <2>3. \A u \in Tasks \ {t} : b \notin DOMAIN draft[u].rows
      BY <1>1, Unlocked
    <2>4. KeyOf(Rows(t)[b]) \in Keys /\ KeyOf(Rows(t)[b])[1] = rows[b].hash
      <3>1. Rows(t)[b] \in StorageRows /\ Rows(t)[b].hash = rows[b].hash
        BY <1>2, <1>3, CountTyped, RowBehind
      <3> QED
        BY <3>1 DEF KeyOf, Keys, StorageRows
    <2>5. /\ r \in Requests /\ r.op = req[t].op /\ r.id = b /\ r.old = req[t].old /\ r.item = req[t].item
          /\ r.target = req[t].target /\ r.todo = req[t].todo
          /\ r.at = req[t].at /\ r.hash = req[t].hash /\ r.key = KeyOf(Rows(t)[b])
      BY <1>2, <2>4 DEF Requests
    <2> HIDE DEF row, r
    <2>6. /\ PlainStep(t) /\ Files(t)' = Files(t)
          /\ Rows(t)'[b] = row /\ \A c \in Ids \ {b} : Rows(t)'[c] = Rows(t)[c]
          /\ draft'[t].open = draft[t].open /\ (draft[t] = NoDraft => draft'[t] = NoDraft)
          /\ (draft[t].open => files' = files /\ rows' = rows)
          /\ rows'[b] # NoRow /\ KeyOf(rows'[b]) = KeyOf(rows[b])
          /\ draft[t].open => b \in DOMAIN draft'[t].rows /\ draft'[t].rows[b] = row
      BY <1>1, <1>2, <1>3, <2>1, <2>2, <2>3, RowStep
    <2>7. row # NoRow
      BY <2>1, NullAssumption
    <2>8. ASSUME NEW c \in Ids, Rows(t)[c] # NoRow, CountsAs("lower", req[t], Files(t), Rows(t), c)
          PROVE  /\ Covers("lower", req[t], Files(t), Rows(t)[c].count, c)
                 /\ Rows(t)[c].count \in Int /\ Rows(t)'[c].count \in Int
                 /\ Rows(t)'[c].count = Rows(t)[c].count - (IF c = b THEN 1 ELSE 0)
                 /\ Leaving("lower", req[t], c) = {}
                 /\ Ahead("lower", req[t], c) = IF c = b THEN 1 ELSE 0
      <3>1. /\ Rows(t)[c].count \in Int
            /\ c = b => req[t].count = Rows(t)[c].count - 1
            /\ Covers("lower", req[t], Files(t), Rows(t)[c].count, c)
        BY <2>8, <1>1, CountTyped DEF CountsAs
      <3>2. Rows(t)'[c].count = Rows(t)[c].count - (IF c = b THEN 1 ELSE 0)
        BY <2>1, <2>6, <2>8, <3>1
      <3>3. /\ Leaving("lower", req[t], c) = {} /\ Ahead("lower", req[t], c) = IF c = b THEN 1 ELSE 0
        BY DEF Leaving, Ahead
      <3>4. Rows(t)[c].count \in Int
        BY <2>8, CountTyped
      <3> QED
        BY <3>1, <3>2, <3>3, <3>4
    <2>9. CASE req[t].count <= 0
      <3>1. Goto(t, "delete_object", r) /\ "delete_object" \in Steps
        BY <1>3, <2>9 DEF Steps
      <3>2. /\ step'[t] = "delete_object" /\ SameHands(req'[t], r)
            /\ req'[t].at = r.at /\ req'[t].hash = r.hash /\ req'[t].key = r.key
            /\ req'[t].touched = req[t].touched \cup Contents(r)
        BY <2>5, <3>1, GotoFacts
      <3>3. ~draft'[t].open => draft'[t] = NoDraft
        BY <1>2, <2>6 DEF StepFits
      <3>4. StepFits(t)'
        BY <1>1, <1>2, <2>2, <2>4, <2>5, <2>6, <2>7, <3>2, <3>3 DEF StepFits, SameHands, LoopOps, BulkOps
      <3>5. KeysFit(t)'
        BY <2>2, <2>5, <2>6, <3>2 DEF KeysFit, SameHands
      <3>6. ASSUME NEW c \in Ids, rows[c] # NoRow, CountFits(t, c), Rows(t)'[c] # NoRow
            PROVE  /\ Covers("delete_object", r, Files(t)', Rows(t)'[c].count, c)
                   /\ r.id = c => Rows(t)'[c].count <= 0
        <4>1. Rows(t)[c] # NoRow
          BY <3>6, <2>6 DEF PlainStep
        <4>2. /\ Covers("lower", req[t], Files(t), Rows(t)[c].count, c)
              /\ Rows(t)[c].count \in Int /\ Rows(t)'[c].count \in Int
              /\ Rows(t)'[c].count = Rows(t)[c].count - (IF c = b THEN 1 ELSE 0)
              /\ Leaving("lower", req[t], c) = {}
              /\ Ahead("lower", req[t], c) = IF c = b THEN 1 ELSE 0
          BY <3>6, <4>1, <2>8, <1>1 DEF CountFits
        <4>3. /\ Leaving("delete_object", r, c) = {} /\ Ahead("delete_object", r, c) = 0
              /\ Entries(r, c) = Entries(req[t], c)
          BY <2>5 DEF Leaving, Ahead, Entries
        <4>4. Staying("delete_object", r, Files(t)', c) \subseteq Staying("lower", req[t], Files(t), c)
          BY <2>6, <4>2, <4>3 DEF Staying
        <4>5. Rows(t)'[c].count - Ahead("delete_object", r, c) >= Rows(t)[c].count - Ahead("lower", req[t], c)
          BY <4>2, <4>3
        <4>6. Covers("delete_object", r, Files(t)', Rows(t)'[c].count, c)
          BY <1>2, <2>5, <4>2, <4>3, <4>4, <4>5, CoversLess
        <4> QED
          BY <4>6, <2>1, <2>5, <2>6, <2>9
      <3>7. \A c \in Ids : rows[c] # NoRow /\ CountFits(t, c) => CountsAs("delete_object", r, Files(t)', Rows(t)', c)
        BY <3>6 DEF CountsAs
      <3> QED
        BY <1>2, <2>5, <2>6, <3>1, <3>4, <3>5, <3>7, PlainGoto
    <2>10. CASE ~(req[t].count <= 0)
      <3>1. Released(t)
        BY <1>3, <2>10
      <3>2. ASSUME NEW c \in Ids, Rows(t)[c] # NoRow, CountsAs(step[t], req[t], Files(t), Rows(t), c)
            PROVE  Rows(t)'[c].count >= Cardinality(References(Files(t)', c) \ Entries(req[t], c))
                                          + Cardinality(Entries(req[t], c))
        <4>1. /\ Covers("lower", req[t], Files(t), Rows(t)[c].count, c)
              /\ Rows(t)[c].count \in Int /\ Rows(t)'[c].count \in Int
              /\ Rows(t)'[c].count = Rows(t)[c].count - (IF c = b THEN 1 ELSE 0)
              /\ Leaving("lower", req[t], c) = {}
              /\ Ahead("lower", req[t], c) = IF c = b THEN 1 ELSE 0
          BY <3>2, <2>8, <1>1
        <4>2. References(Files(t)', c) \ Entries(req[t], c) \subseteq Staying("lower", req[t], Files(t), c)
          BY <2>6, <4>1 DEF Staying
        <4>3. Rows(t)'[c].count >= Rows(t)[c].count - Ahead("lower", req[t], c)
          BY <4>1
        <4> QED
          BY <1>2, <4>1, <4>2, <4>3, CoversDone
      <3> QED
        BY <1>2, <2>6, <3>1, <3>2, PlainReleased
    <2> QED
      BY <2>9, <2>10
  <1>4. ASSUME ReleaseFails(t)
        PROVE  IInv'
    <2>1. \A c \in Ids : Ahead(step[t], req[t], c) >= 0 /\ Leaving(step[t], req[t], c) = {}
      BY <1>1 DEF Leaving, Ahead
    <2> QED
      BY <1>1, <1>2, <1>4, <2>1, ReleaseFailsKeeps
  <1> QED
    BY <1>3, <1>4 DEF Lower

\* An object is deleted: that of the row in hand, if nobody has spoilt it.
LEMMA DeletedObject ==
    ASSUME IInv, NEW t \in Tasks, step[t] \in {"delete_object", "purge_object"}, Proceeds(t),
           objects' = objects \ {req[t].key}, UNCHANGED <<files, rows, draft>>
    PROVE  /\ Moves(t) /\ BytesStay(t)
           /\ Files(t)' = Files(t) /\ Rows(t)' = Rows(t)
           /\ \A b \in Ids : rows[b] # NoRow /\ rows[b].hash \notin disturbed' /\ KeyOf(rows[b]) \in objects =>
                KeyOf(rows[b]) \in objects' \/ b = req[t].id
  <1>1. /\ req[t] \in Requests /\ StepFits(t) /\ objects \subseteq Keys /\ draft \in [Tasks -> Transactions]
    BY ReqTyped
  <1>2. req[t].key[1] \in Concerned(t) /\ req[t].id \in Ids
    BY <1>1 DEF StepFits, Concerned
  <1>3. Moves(t)
    BY <1>1, StillMoves
  <1>4. BytesStay(t)
    BY <1>2 DEF BytesStay
  <1>5. Files(t)' = Files(t) /\ Rows(t)' = Rows(t)
    BY DEF Files, Rows
  <1>6. ASSUME NEW b \in Ids, rows[b] # NoRow, rows[b].hash \notin disturbed', KeyOf(rows[b]) = req[t].key
        PROVE  b = req[t].id
    <2>1. KeyOf(rows[b])[1] = rows[b].hash
      BY DEF KeyOf
    <2>2. req[t].key[1] \notin Exempt
      BY <1>6, <2>1 DEF Exempt, Proceeds
    <2>3. rows[req[t].id] # NoRow /\ KeyOf(rows[req[t].id]) = req[t].key
      BY <2>2 DEF IInv, KeysFit
    <2>4. rows[req[t].id].hash = rows[b].hash
      BY <1>6, <2>3 DEF KeyOf
    <2> QED
      BY <1>2, <1>6, <2>3, <2>4 DEF IInv, OneRowPerHash
  <1> QED
    BY <1>3, <1>4, <1>5, <1>6

\* The object of the last reference goes.
LEMMA DeleteObjectKeeps ==
    ASSUME IInv, NEW t \in Tasks, DeleteObject(t)
    PROVE  IInv'
  <1>1. /\ step[t] = "delete_object" /\ Goto(t, "delete_row", req[t]) /\ UNCHANGED <<files, rows, draft>>
        /\ objects' = objects \ {req[t].key} /\ "delete_row" \in Steps
    BY DEF DeleteObject, At, Steps
  <1>2. /\ req[t] \in Requests /\ StepFits(t) /\ req[t].op # "scan"
        /\ req[t].op \in LoopOps \cup {"upload", "link", "rename"} /\ req[t].id \in Ids
    BY <1>1, ReqTyped DEF StepFits, LoopOps, BulkOps
  <1>3. /\ Proceeds(t) /\ step'[t] = "delete_row" /\ SameHands(req'[t], req[t])
        /\ req'[t].at = req[t].at /\ req'[t].hash = req[t].hash
        /\ Concerned(t) = req[t].touched \cup Contents(req[t]) /\ req'[t].touched = Concerned(t)
    BY <1>1, <1>2, GotoFacts
  <1>4. /\ Moves(t) /\ BytesStay(t) /\ Files(t)' = Files(t) /\ Rows(t)' = Rows(t)
        /\ \A b \in Ids : rows[b] # NoRow /\ rows[b].hash \notin disturbed' /\ KeyOf(rows[b]) \in objects =>
             KeyOf(rows[b]) \in objects' \/ b = req[t].id
    BY <1>1, <1>3, DeletedObject
  <1>5. StepFits(t)'
    BY <1>1, <1>2, <1>3 DEF StepFits, SameHands, LoopOps, BulkOps
  <1>6. HandsKnown(t)'
    BY <1>2, <1>3, <1>4, HandsNext
  <1>7. KeysFit(t)' /\ AloneFits(t)'
    BY <1>1, <1>3, AloneNext DEF KeysFit
  <1>8. ASSUME NEW b \in Ids, CountFits(t, b)
        PROVE  CountsAs("delete_row", req[t], Files(t)', Rows(t)', b)
    <2>1. /\ Ahead("delete_row", req[t], b) = Ahead("delete_object", req[t], b)
          /\ Leaving("delete_row", req[t], b) = Leaving("delete_object", req[t], b)
      BY DEF Leaving, Ahead
    <2> QED
      BY <2>1, <1>1, <1>4, <1>8 DEF CountFits, CountsAs, Covers
  <1>9. ASSUME NEW b \in Ids, rows[b] # NoRow, rows[b].hash \notin disturbed',
               KeyOf(rows[b]) \in objects \/ Missing(t, b)
        PROVE  KeyOf(rows[b]) \in objects' \/ Missing(t, b)'
    <2>1. CASE KeyOf(rows[b]) \in objects /\ b # req[t].id
      BY <2>1, <1>4, <1>9
    <2>2. CASE b = req[t].id
      BY <2>2, <1>3 DEF Missing, SameHands
    <2>3. CASE Missing(t, b) /\ b # req[t].id
      BY <2>3, <1>4 DEF Missing
    <2> QED
      BY <2>1, <2>2, <2>3, <1>9
  <1> QED
    BY <1>1, <1>2, <1>3, <1>4, <1>5, <1>6, <1>7, <1>8, <1>9, OwnStep

\* A row is deleted, and what refers to it is set to NULL.
LEMMA DeletedRow ==
    ASSUME IInv, NEW t \in Tasks, step[t] \in {"delete_row", "purge_row"}, ~Waits(t), objects' = objects,
           Write(t, [i \in {j \in Items : Files(t)[j] # NoFile /\ Files(t)[j].blob = req[t].id} |->
                        [Files(t)[i] EXCEPT !.blob = NoId]], Row(req[t].id, NoRow))
    PROVE  /\ Moves(t) /\ BytesStay(t) /\ req[t].id \in Ids
           /\ Rows(t)'[req[t].id] = NoRow /\ \A c \in Ids \ {req[t].id} : Rows(t)'[c] = Rows(t)[c]
           /\ \A c \in Ids \ {req[t].id} : References(Files(t)', c) = References(Files(t), c)
           /\ draft'[t].open = draft[t].open /\ (draft[t] = NoDraft => draft'[t] = NoDraft)
           /\ (draft[t].open => files' = files /\ rows' = rows)
           /\ \A c \in Ids : rows[c] = NoRow => rows'[c] = NoRow
  <1> DEFINE b == req[t].id
             unlinked == {j \in Items : Files(t)[j] # NoFile /\ Files(t)[j].blob = b}
             fs == [i \in unlinked |-> [Files(t)[i] EXCEPT !.blob = NoId]]
             rs == Row(b, NoRow)
  <1>1. /\ StepFits(t) /\ TablesTyped /\ objects' \subseteq Keys /\ b \in Ids /\ DraftFits(t)
        /\ draft[t].open \/ draft[t] = NoDraft
        /\ req[t].op # "scan"
    BY ReqTyped DEF StepFits, LoopOps, BulkOps, IInv
  <1>2. /\ Files(t) \in [Items -> FileRows \cup {NoFile}]
        /\ \A i \in DOMAIN draft[t].files : Files(t)[i] = draft[t].files[i]
        /\ \A i \in Items \ DOMAIN draft[t].files : Files(t)[i] = files[i]
        /\ DOMAIN draft[t].files \in SUBSET Items
        /\ Rows(t) \in [Ids -> StorageRows \cup {NoRow}]
    BY <1>1, ViewFacts
  <1>3. /\ unlinked \in SUBSET Items /\ DOMAIN fs = unlinked
        /\ \A i \in unlinked : fs[i] \in FileRows /\ fs[i].blob = NoId
    BY <1>2 DEF FileRows
  <1>4. fs \in Some(Items, FileRows)
    <2>1. fs \in [unlinked -> FileRows]
      BY <1>3
    <2> HIDE DEF fs, unlinked
    <2> QED
      BY <1>3, <2>1, SomeIntro
  <1>5. rs \in Some(Ids, StorageRows \cup {NoRow}) /\ DOMAIN rs = {b} /\ rs[b] = NoRow
    <2>1. rs \in Some(Ids, StorageRows \cup {NoRow})
      BY <1>1, RowFacts
    <2> QED
      BY <2>1 DEF Row
  <1>6. ASSUME NEW u \in Tasks \ {t}
        PROVE  /\ DOMAIN fs \cap DOMAIN draft[u].files = {} /\ DOMAIN rs \cap DOMAIN draft[u].rows = {}
               /\ \A i \in DOMAIN draft[u].files : draft[u].files[i].blob # b
    <2>1. DOMAIN draft[u].files \in SUBSET Items
      BY <1>1, ViewFacts
    <2>2. /\ \A i \in Items : files[i] # NoFile /\ files[i].blob = b => i \notin DOMAIN draft[u].files
          /\ \A i \in DOMAIN draft[u].files \cap Items : draft[u].files[i].blob # b
          /\ b \notin DOMAIN draft[u].rows
      BY UnlockedFiles, Unlocked
    <2>3. DOMAIN draft[t].files \cap DOMAIN draft[u].files = {}
      BY <1>1 DEF DraftFits
    <2>4. \A i \in unlinked : i \notin DOMAIN draft[u].files
      BY <1>2, <2>2, <2>3
    <2> QED
      BY <1>3, <1>5, <2>1, <2>2, <2>4
  <1>7. /\ draft[t].open => rows[b] # NoRow
        /\ rows[b] # NoRow => rows[b].hash \in Concerned(t)
    <2>1. draft[t].open => rows[b] # NoRow
      BY <1>1 DEF StepFits, DraftFits, DraftKnown, BulkOps
    <2>2. rows[b] # NoRow => rows[b].hash \in Concerned(t)
      BY <1>1, HandTouched
    <2> QED
      BY <2>1, <2>2
  <1>8. \A i \in Items : Files(t)[i] # NoFile /\ Files(t)[i].blob = b => i \in unlinked
    OBVIOUS
  <1>9. Write(t, fs, rs)
    OBVIOUS
  <1> HIDE DEF fs, unlinked, rs
  <1>10. WriteFits(t, fs, rs)
    BY <1>3, <1>4, <1>5, <1>6, <1>7, <1>8 DEF WriteFits
  <1>11. Moves(t)
    BY <1>1, <1>9, <1>10, WriteMoves
  <1>12. /\ draft'[t].open = draft[t].open
         /\ draft[t] = NoDraft => draft'[t] = NoDraft
         /\ draft[t].open => files' = files /\ rows' = rows
         /\ \A i \in DOMAIN fs : Files(t)'[i] = fs[i]
         /\ \A i \in Items \ DOMAIN fs : Files(t)'[i] = Files(t)[i]
         /\ \A c \in DOMAIN rs : Rows(t)'[c] = rs[c]
         /\ \A c \in Ids \ DOMAIN rs : Rows(t)'[c] = Rows(t)[c]
    BY <1>1, <1>4, <1>5, <1>9, WriteViews
  <1>13. Rows(t)'[b] = NoRow /\ \A c \in Ids \ {b} : Rows(t)'[c] = Rows(t)[c]
    BY <1>5, <1>12
  <1>14. ASSUME NEW c \in Ids \ {b}
         PROVE  References(Files(t)', c) = References(Files(t), c)
    <2>1. c # NoId
      BY NullAssumption
    <2>2. \A i \in unlinked : Files(t)[i].blob = b /\ Files(t)'[i].blob = NoId
      BY <1>3, <1>12 DEF unlinked
    <2>3. \A i \in Items \ unlinked : Files(t)'[i] = Files(t)[i]
      BY <1>3, <1>12
    <2> QED
      BY <2>1, <2>2, <2>3, <1>14 DEF References, Live
  <1>15. \A c \in Ids : rows[c] = NoRow => rows'[c] = NoRow
    <2>1. CASE draft[t] = NoDraft
      <3>1. Rows(t) = rows /\ Rows(t)' = rows'
        BY <2>1, <1>1, <1>4, <1>5, <1>9, DirectWrite
      <3> QED
        BY <3>1, <1>13
    <2>2. CASE draft[t].open
      BY <2>2, <1>12
    <2> QED
      BY <2>1, <2>2, <1>1
  <1>16. BytesStay(t)
    BY DEF BytesStay
  <1> QED
    BY <1>1, <1>11, <1>12, <1>13, <1>14, <1>15, <1>16

\* A row that is deleted leaves every other content as it was.
LEMMA RowGone ==
    ASSUME IInv, NEW t \in Tasks, step[t] \in {"delete_row", "purge_row"}, ~Waits(t), objects' = objects, Released(t),
           Write(t, [i \in {j \in Items : Files(t)[j] # NoFile /\ Files(t)[j].blob = req[t].id} |->
                        [Files(t)[i] EXCEPT !.blob = NoId]], Row(req[t].id, NoRow))
    PROVE  IInv'
  <1> DEFINE b == req[t].id
  <1>1. /\ Moves(t) /\ BytesStay(t) /\ b \in Ids
        /\ Rows(t)'[b] = NoRow /\ \A c \in Ids \ {b} : Rows(t)'[c] = Rows(t)[c]
        /\ \A c \in Ids \ {b} : References(Files(t)', c) = References(Files(t), c)
        /\ draft'[t].open = draft[t].open /\ (draft[t] = NoDraft => draft'[t] = NoDraft)
        /\ (draft[t].open => files' = files /\ rows' = rows)
        /\ \A c \in Ids : rows[c] = NoRow => rows'[c] = NoRow
    BY DeletedRow
  <1>2. req[t] \in Requests /\ req[t].op \in LoopOps \cup {"upload", "link", "rename", "purge"}
    BY ReqTyped DEF StepFits
  <1>3. ASSUME NEW c \in Ids, CountFits(t, c), Rows(t)'[c] # NoRow
        PROVE  Rows(t)'[c].count >= Cardinality(References(Files(t)', c) \ Entries(req[t], c))
                                      + Cardinality(Entries(req[t], c))
    <2>1. c \in Ids \ {b}
      BY <1>1, <1>3
    <2>2. Rows(t)'[c] = Rows(t)[c] /\ References(Files(t)', c) = References(Files(t), c)
      BY <1>1, <2>1
    <2>3. Covers(step[t], req[t], Files(t), Rows(t)[c].count, c) /\ Rows(t)[c].count \in Int
      BY <1>3, <2>2, CountTyped DEF CountFits, CountsAs
    <2>4. Leaving(step[t], req[t], c) = {} /\ Ahead(step[t], req[t], c) = 0
      BY DEF Leaving, Ahead
    <2>5. References(Files(t)', c) \ Entries(req[t], c) \subseteq Staying(step[t], req[t], Files(t), c)
      BY <2>2, <2>4 DEF Staying
    <2>6. Rows(t)'[c].count \in Int /\ Rows(t)'[c].count >= Rows(t)[c].count - Ahead(step[t], req[t], c)
      BY <2>2, <2>3, <2>4
    <2> QED
      BY <1>2, <2>3, <2>5, <2>6, CoversDone
  <1>4. ASSUME NEW c \in Ids, KeyOf(rows[c]) \in objects \/ Missing(t, c)
        PROVE  KeyOf(rows[c]) \in objects' \/ Rows(t)'[c] = NoRow
    BY <1>1, <1>4 DEF Missing
  <1> QED
    BY <1>1, <1>2, <1>3, <1>4, ReleasedKeeps

\* Its row goes after it ...
LEMMA DeleteRowKeeps ==
    ASSUME IInv, NEW t \in Tasks, DeleteRow(t)
    PROVE  IInv'
  <1>1. step[t] = "delete_row" /\ ~Waits(t) /\ objects' = objects /\ Released(t)
    BY DEF DeleteRow, At
  <1>2. Write(t, [i \in {j \in Items : Files(t)[j] # NoFile /\ Files(t)[j].blob = req[t].id} |->
                    [Files(t)[i] EXCEPT !.blob = NoId]], Row(req[t].id, NoRow))
    BY DEF DeleteRow
  <1> QED
    BY <1>1, <1>2, RowGone

\* delete_storage_file of an infected content.
LEMMA PurgeRowKeeps ==
    ASSUME IInv, NEW t \in Tasks, PurgeRow(t)
    PROVE  IInv'
  <1>1. step[t] = "purge_row" /\ ~Waits(t) /\ objects' = objects /\ Finish(t)
    BY DEF PurgeRow, At
  <1>2. /\ req[t].op = "purge" /\ Files(t) = files
    BY <1>1, ReqTyped DEF StepFits, BulkOps
  <1>3. Released(t)
    BY <1>1, <1>2 DEF Released, LoopOps, BulkOps
  <1>4. Write(t, [i \in {j \in Items : files[j] # NoFile /\ files[j].blob = req[t].id} |->
                    [files[i] EXCEPT !.blob = NoId]], Row(req[t].id, NoRow))
    BY DEF PurgeRow
  <1>5. Write(t, [i \in {j \in Items : Files(t)[j] # NoFile /\ Files(t)[j].blob = req[t].id} |->
                    [Files(t)[i] EXCEPT !.blob = NoId]], Row(req[t].id, NoRow))
    BY <1>2, <1>4
  <1> QED
    BY <1>1, <1>3, <1>5, RowGone

\* The worker deletes the object of a threat, ...
LEMMA PurgeObjectKeeps ==
    ASSUME IInv, NEW t \in Tasks, PurgeObject(t)
    PROVE  IInv'
  <1>1. /\ step[t] = "purge_object" /\ Goto(t, "purge_files", req[t]) /\ UNCHANGED <<files, rows, draft>>
        /\ objects' = objects \ {req[t].key} /\ "purge_files" \in Steps
    BY DEF PurgeObject, At, Steps
  <1>2. /\ req[t] \in Requests /\ StepFits(t) /\ req[t].op = "purge" /\ req[t].id \in Ids
    BY <1>1, ReqTyped DEF StepFits
  <1>3. /\ Proceeds(t) /\ step'[t] = "purge_files" /\ SameHands(req'[t], req[t])
        /\ req'[t].at = req[t].at /\ req'[t].hash = req[t].hash
        /\ Concerned(t) = req[t].touched \cup Contents(req[t]) /\ req'[t].touched = Concerned(t)
    BY <1>1, <1>2, GotoFacts
  <1>4. /\ Moves(t) /\ BytesStay(t) /\ Files(t)' = Files(t) /\ Rows(t)' = Rows(t)
        /\ \A b \in Ids : rows[b] # NoRow /\ rows[b].hash \notin disturbed' /\ KeyOf(rows[b]) \in objects =>
             KeyOf(rows[b]) \in objects' \/ b = req[t].id
    BY <1>1, <1>3, DeletedObject
  <1>5. StepFits(t)'
    BY <1>1, <1>2, <1>3 DEF StepFits, SameHands, LoopOps, BulkOps
  <1>6. HandsKnown(t)'
    BY <1>2, <1>3, <1>4, HandsNext
  <1>7. KeysFit(t)' /\ AloneFits(t)'
    BY <1>1, <1>3, AloneNext DEF KeysFit
  <1>8. ASSUME NEW b \in Ids, CountFits(t, b)
        PROVE  CountsAs("purge_files", req[t], Files(t)', Rows(t)', b)
    <2>1. /\ Ahead("purge_files", req[t], b) = Ahead("purge_object", req[t], b)
          /\ Leaving("purge_files", req[t], b) = Leaving("purge_object", req[t], b)
      BY DEF Leaving, Ahead
    <2> QED
      BY <2>1, <1>1, <1>4, <1>8 DEF CountFits, CountsAs, Covers
  <1>9. ASSUME NEW b \in Ids, rows[b] # NoRow, rows[b].hash \notin disturbed',
               KeyOf(rows[b]) \in objects \/ Missing(t, b)
        PROVE  KeyOf(rows[b]) \in objects' \/ Missing(t, b)'
    <2>1. CASE KeyOf(rows[b]) \in objects /\ b # req[t].id
      BY <2>1, <1>4, <1>9
    <2>2. CASE b = req[t].id
      BY <2>2, <1>3 DEF Missing, SameHands
    <2>3. CASE Missing(t, b) /\ b # req[t].id
      BY <2>3, <1>4 DEF Missing
    <2> QED
      BY <2>1, <2>2, <2>3, <1>9
  <1> QED
    BY <1>1, <1>2, <1>3, <1>4, <1>5, <1>6, <1>7, <1>8, <1>9, OwnStep

\* ... then the files that refer to it.
LEMMA PurgeFilesKeeps ==
    ASSUME IInv, NEW t \in Tasks, PurgeFiles(t)
    PROVE  IInv'
  <1> DEFINE b == req[t].id
  <1>1. /\ step[t] = "purge_files" /\ ~Waits(t) /\ Goto(t, "purge_row", req[t]) /\ UNCHANGED <<rows, objects, draft>>
        /\ files' = [i \in Items |-> IF files[i] # NoFile /\ files[i].blob = b THEN NoFile ELSE files[i]]
        /\ "purge_row" \in Steps
    BY DEF PurgeFiles, At, Steps
  <1>2. /\ req[t] \in Requests /\ StepFits(t) /\ req[t].op = "purge" /\ b \in Ids /\ ~draft[t].open
        /\ draft[t] = NoDraft /\ Files(t) = files /\ Rows(t) = rows /\ TablesTyped
        /\ files \in [Items -> FileRows \cup {NoFile}]
    BY <1>1, ReqTyped DEF StepFits, BulkOps, LoopOps
  <1>3. /\ Proceeds(t) /\ step'[t] = "purge_row" /\ SameHands(req'[t], req[t])
        /\ req'[t].at = req[t].at /\ req'[t].hash = req[t].hash
        /\ Concerned(t) = req[t].touched \cup Contents(req[t]) /\ req'[t].touched = Concerned(t)
    BY <1>1, <1>2, GotoFacts
  <1>4. Moves(t)
    <2>1. \A u \in Tasks \ {t} : \A i \in DOMAIN draft[u].files : ~(files[i] # NoFile /\ files[i].blob = b)
      <3> SUFFICES ASSUME NEW u \in Tasks \ {t}, NEW i \in DOMAIN draft[u].files
                   PROVE  ~(files[i] # NoFile /\ files[i].blob = b)
        OBVIOUS
      <3>1. i \in Items
        BY <1>2, ViewFacts
      <3> QED
        BY <3>1, <1>1, UnlockedFiles
    <2> QED
      BY <1>1, <1>2, <2>1, PurgeMoves
  <1>5. BytesStay(t)
    BY <1>1 DEF BytesStay
  <1>6. /\ draft'[t] = NoDraft /\ Files(t)' = files' /\ Rows(t)' = rows /\ rows' = rows
    <2>1. DOMAIN draft'[t].files = {} /\ DOMAIN draft'[t].rows = {}
      BY <1>1, <1>2, EmptySome DEF NoDraft
    <2>2. files' \in [Items -> FileRows \cup {NoFile}] /\ rows' \in [Ids -> StorageRows \cup {NoRow}]
      BY <1>4 DEF Moves, TablesTyped
    <2> QED
      BY <2>1, <2>2, <1>1, <1>2, OverNothing DEF Files, Rows
  <1>7. StepFits(t)'
    BY <1>1, <1>2, <1>3 DEF StepFits, SameHands, LoopOps, BulkOps
  <1>8. HandsKnown(t)'
    BY <1>2, <1>3, <1>4, HandsNext
  <1>9. KeysFit(t)' /\ AloneFits(t)'
    BY <1>2, <1>3, <1>6, AloneNext DEF KeysFit
  <1>10. ASSUME NEW c \in Ids, CountFits(t, c), Rows(t)'[c] # NoRow
         PROVE  CountsAs("purge_row", req[t], Files(t)', Rows(t)', c)
    <2>1. /\ Covers("purge_files", req[t], files, rows[c].count, c) /\ rows[c].count \in Int
      BY <1>1, <1>2, <1>6, <1>10, CountTyped DEF CountFits, CountsAs
    <2>2. /\ Ahead("purge_row", req[t], c) = 0 /\ Ahead("purge_files", req[t], c) = 0
          /\ Leaving("purge_row", req[t], c) = {} /\ Leaving("purge_files", req[t], c) = {}
      BY DEF Leaving, Ahead
    <2>3. References(files', c) \subseteq References(files, c)
      BY <1>1 DEF References, Live
    <2>4. Staying("purge_row", req[t], files', c) \subseteq Staying("purge_files", req[t], files, c)
      BY <2>2, <2>3 DEF Staying
    <2>5. rows[c].count - Ahead("purge_row", req[t], c) >= rows[c].count - Ahead("purge_files", req[t], c)
      BY <2>1, <2>2
    <2>6. Covers("purge_row", req[t], files', rows[c].count, c)
      BY <1>2, <2>1, <2>4, <2>5, CoversLess
    <2>7. CountsAs("purge_row", req[t], files', rows, c)
      BY <2>6 DEF CountsAs
    <2> QED
      BY <2>7, <1>6
  <1>11. \A c \in Ids : CountFits(t, c) => CountsAs("purge_row", req[t], Files(t)', Rows(t)', c)
    BY <1>10 DEF CountsAs
  <1>12. \A c \in Ids : KeyOf(rows[c]) \in objects \/ Missing(t, c) => KeyOf(rows[c]) \in objects' \/ Missing(t, c)'
    BY <1>1, <1>2, <1>3, <1>6 DEF Missing, SameHands
  <1> QED
    BY <1>2, <1>3, <1>4, <1>5, <1>6, <1>7, <1>8, <1>9, <1>11, <1>12, OwnStep

-----------------------------------------------------------------------------
\* The loops over several items take one.
LEMMA TakenItem ==
    ASSUME IInv, NEW t \in Tasks, NEW i \in DOMAIN req[t].todo, NEW b \in Ids \cup {NoId}
    PROVE  LET r == [req[t] EXCEPT !.item = i, !.todo = Restrict(@, DOMAIN @ \ {i})]
               q == [r EXCEPT !.id = b]
               p == [r EXCEPT !.item = NoItem]
           IN  /\ i \in Items /\ req[t].todo[i] \in Ids \cup {NoId}
               /\ r \in Requests /\ q \in Requests /\ p \in Requests
               /\ r.op = req[t].op /\ q.op = req[t].op /\ p.op = req[t].op
               /\ r.at = req[t].at /\ q.at = req[t].at /\ p.at = req[t].at
               /\ r.item = i /\ q.item = i /\ q.id = b
               /\ DOMAIN r.todo = DOMAIN req[t].todo \ {i} /\ q.todo = r.todo /\ p.todo = r.todo
               /\ \A j \in DOMAIN r.todo : r.todo[j] = req[t].todo[j]
  <1> DEFINE r == [req[t] EXCEPT !.item = i, !.todo = Restrict(@, DOMAIN @ \ {i})]
             left == Restrict(req[t].todo, DOMAIN req[t].todo \ {i})
  <1>1. /\ req[t] \in Requests /\ DOMAIN req[t].todo \in SUBSET Items
        /\ \A j \in DOMAIN req[t].todo : req[t].todo[j] \in Ids \cup {NoId}
    BY ReqTyped, HandIds
  <1>2. /\ left = [j \in DOMAIN req[t].todo \ {i} |-> req[t].todo[j]]
    BY DEF Restrict
  <1>3. /\ DOMAIN left = DOMAIN req[t].todo \ {i}
        /\ \A j \in DOMAIN left : left[j] = req[t].todo[j]
        /\ left \in [DOMAIN req[t].todo \ {i} -> Ids \cup {NoId}]
    BY <1>1, <1>2
  <1>4. DOMAIN req[t].todo \ {i} \in SUBSET Items
    BY <1>1
  <1> HIDE DEF left
  <1>5. left \in Some(Items, Ids \cup {NoId})
    BY <1>3, <1>4, SomeIntro
  <1>6. i \in Items
    BY <1>1
  <1>7. /\ r = [req[t] EXCEPT !.item = i, !.todo = left]
    BY DEF left
  <1>8. /\ r \in Requests /\ r.op = req[t].op /\ r.at = req[t].at /\ r.item = i /\ r.todo = left
    BY <1>1, <1>5, <1>6, <1>7 DEF Requests
  <1> HIDE DEF r
  <1>9. /\ [r EXCEPT !.id = b] \in Requests /\ [r EXCEPT !.id = b].op = r.op /\ [r EXCEPT !.id = b].at = r.at
        /\ [r EXCEPT !.id = b].item = r.item /\ [r EXCEPT !.id = b].id = b /\ [r EXCEPT !.id = b].todo = r.todo
    BY <1>8 DEF Requests
  <1>10. /\ [r EXCEPT !.item = NoItem] \in Requests /\ [r EXCEPT !.item = NoItem].op = r.op
         /\ [r EXCEPT !.item = NoItem].at = r.at /\ [r EXCEPT !.item = NoItem].todo = r.todo
    BY <1>8 DEF Requests
  <1>11. /\ i \in Items /\ req[t].todo[i] \in Ids \cup {NoId}
         /\ DOMAIN r.todo = DOMAIN req[t].todo \ {i}
         /\ \A j \in DOMAIN r.todo : r.todo[j] = req[t].todo[j]
    BY <1>1, <1>3, <1>6, <1>8
  <1> QED
    BY <1>8, <1>9, <1>10, <1>11 DEF r

\* ... and go on with it, if the counts allow.
LEMMA LoopGoto ==
    ASSUME IInv, NEW t \in Tasks, step[t] = "next", ReadOnly, NEW s \in {"next", "soft_delete", "insert_copy", "move_file"},
           NEW r \in Requests, Goto(t, s, r), r.op = req[t].op, r.at = req[t].at,
           s = "soft_delete" => r.op \in {"delete_item", "expire", "bulk_delete"} /\ r.item \in Items \ DOMAIN r.todo,
           s = "insert_copy" => r.op = "bulk_copy" /\ r.item \in Items,
           s = "move_file" => r.op = "bulk_move" /\ r.item \in Items,
           \A b \in Ids, n \in Int : Covers("next", req[t], Files(t), n, b) => Covers(s, r, Files(t), n, b)
    PROVE  IInv'
  <1>1. /\ req[t] \in Requests /\ StepFits(t) /\ req[t].op \in LoopOps
    BY ReqTyped DEF StepFits
  <1>2. s \in Steps /\ draft' = draft /\ r.op # "scan" /\ r.op \in LoopOps
    BY <1>1 DEF Steps, ReadOnly, LoopOps, BulkOps
  <1>3. step'[t] = s /\ SameHands(req'[t], r) /\ req'[t].at = r.at
    BY <1>2, GotoFacts
  <1>4. StepFits(t)'
    BY <1>1, <1>2, <1>3 DEF StepFits, SameHands, LoopOps, BulkOps
  <1>5. ASSUME NEW b \in Ids, Rows(t)[b] # NoRow, CountsAs(step[t], req[t], Files(t), Rows(t), b)
        PROVE  CountsAs(s, r, Files(t), Rows(t), b)
    <2>1. Covers("next", req[t], Files(t), Rows(t)[b].count, b) /\ Rows(t)[b].count \in Int
      BY <1>5, CountTyped DEF CountsAs
    <2>2. Covers(s, r, Files(t), Rows(t)[b].count, b)
      BY <2>1
    <2> QED
      BY <2>2 DEF CountsAs
  <1> QED
    BY <1>1, <1>2, <1>4, <1>5, ReadGoto

\* delete_item and perform_cleanup release the content that was read with the item.
LEMMA EntryCovers ==
    ASSUME NEW q \in Requests, NEW r \in Requests, NEW i \in DOMAIN q.todo, i \in Items,
           q.op \in {"delete_item", "expire"}, r.op = q.op, r.item = i, r.id = q.todo[i],
           DOMAIN r.todo = DOMAIN q.todo \ {i}, \A j \in DOMAIN r.todo : r.todo[j] = q.todo[j],
           NEW fs, NEW n \in Int, NEW b \in Ids, Covers("next", q, fs, n, b)
    PROVE  Covers("soft_delete", r, fs, n, b)
  <1> DEFINE S == Staying("soft_delete", r, fs, b)
             R == Staying("next", q, fs, b)
             E == Entries(q, b)
             F == Entries(r, b)
  <1>1. /\ Leaving("next", q, b) = {} /\ Ahead("next", q, b) = 0
        /\ Leaving("soft_delete", r, b) = (IF r.id = b THEN {i} ELSE {})
        /\ Ahead("soft_delete", r, b) = (IF r.id = b THEN 1 ELSE 0)
    BY DEF Leaving, Ahead
  <1>2. F = (IF r.id = b THEN E \ {i} ELSE E) /\ (r.id = b => i \in E)
    BY DEF Entries
  <1>3. S = R
    BY <1>1, <1>2 DEF Staying
  <1>4. E \in SUBSET Items
    BY HandIds DEF Entries
  <1>5. /\ Cardinality(R) \in Nat /\ Cardinality(E) \in Nat /\ Cardinality(F) \in Nat
    BY StayingFinite
  <1>6. r.id = b => Cardinality(E) = Cardinality(E \ {i}) + 1
    BY <1>2, <1>4, CardOne
  <1>7. Cardinality(E) = Cardinality(F) + Ahead("soft_delete", r, b)
    BY <1>1, <1>2, <1>5, <1>6
  <1>8. n >= Cardinality(R) + Cardinality(E) + 0
    BY <1>1 DEF Covers, Staying
  <1>9. Ahead("soft_delete", r, b) \in Int
    BY <1>1
  <1>10. n >= Cardinality(S) + Cardinality(F) + Ahead("soft_delete", r, b)
    <2> HIDE DEF S, R, E, F
    <2> QED
      BY <1>3, <1>5, <1>7, <1>8, <1>9
  <1> QED
    BY <1>10 DEF Covers, Staying

\* A loop takes its next item.
LEMMA NextItemKeeps ==
    ASSUME IInv, NEW t \in Tasks, NextItem(t)
    PROVE  IInv'
  <1>1. step[t] = "next"
    BY DEF NextItem, At
  <1>2. req[t] \in Requests /\ StepFits(t) /\ Files(t) \in [Items -> FileRows \cup {NoFile}]
    BY ReqTyped, ViewFacts
  <1>3. PICK i \in DOMAIN req[t].todo :
          LET op == req[t].op
              seen == Files(t)[i]
              r == [req[t] EXCEPT !.item = i, !.todo = Restrict(@, DOMAIN @ \ {i})]
          IN  \/ /\ op \in {"delete_item", "expire"}
                 /\ Goto(t, "soft_delete", [r EXCEPT !.id = req[t].todo[i]])
                 /\ ReadOnly
              \/ /\ op = "bulk_delete"
                 /\ IF Live(Files(t), i) THEN Goto(t, "soft_delete", [r EXCEPT !.id = seen.blob])
                    ELSE Goto(t, "next", [r EXCEPT !.item = NoItem])
                 /\ ReadOnly
              \/ /\ op \in {"bulk_move", "bulk_copy"} /\ seen # NoFile
                 /\ IF op = "bulk_move" THEN Goto(t, "move_file", r)
                    ELSE Goto(t, "insert_copy", [r EXCEPT !.id = seen.blob])
                 /\ ReadOnly
              \/ op \in {"bulk_move", "bulk_copy"} /\ seen = NoFile /\ GiveUp(t)
    BY DEF NextItem
  <1> DEFINE r == [req[t] EXCEPT !.item = i, !.todo = Restrict(@, DOMAIN @ \ {i})]
             seen == Files(t)[i]
  <1>4. i \in Items /\ req[t].todo[i] \in Ids \cup {NoId} /\ NoId \in Ids \cup {NoId}
    BY TakenItem
  <1>4a. /\ r \in Requests /\ r.op = req[t].op /\ r.at = req[t].at /\ r.item = i
         /\ DOMAIN r.todo = DOMAIN req[t].todo \ {i} /\ \A j \in DOMAIN r.todo : r.todo[j] = req[t].todo[j]
    BY <1>4, TakenItem
  <1>4b. ASSUME NEW b \in Ids \cup {NoId}
         PROVE  /\ [r EXCEPT !.id = b] \in Requests /\ [r EXCEPT !.id = b].op = req[t].op
                /\ [r EXCEPT !.id = b].at = req[t].at /\ [r EXCEPT !.id = b].item = i
                /\ [r EXCEPT !.id = b].id = b /\ [r EXCEPT !.id = b].todo = r.todo
    <2> HIDE DEF r
    <2> QED
      BY <1>4a DEF Requests
  <1>5. seen # NoFile => seen.blob \in Ids \cup {NoId}
    BY <1>2, <1>4 DEF FileRows
  <1>6. \A b \in Ids : Leaving("next", req[t], b) = {} /\ Ahead("next", req[t], b) = 0
    BY DEF Leaving, Ahead
  <1>7. ASSUME req[t].op \in {"delete_item", "expire"}, ReadOnly, Goto(t, "soft_delete", [r EXCEPT !.id = req[t].todo[i]])
        PROVE  IInv'
    <2> DEFINE q == [r EXCEPT !.id = req[t].todo[i]]
    <2>1. /\ q \in Requests /\ q.op = req[t].op /\ q.at = req[t].at /\ q.item = i /\ q.id = req[t].todo[i]
          /\ DOMAIN q.todo = DOMAIN req[t].todo \ {i} /\ \A j \in DOMAIN q.todo : q.todo[j] = req[t].todo[j]
      <3> HIDE DEF r
      <3> QED
        BY <1>4, <1>4a, <1>4b
    <2>2. Goto(t, "soft_delete", q)
      BY <1>7
    <2> HIDE DEF q, r
    <2>3. ASSUME NEW b \in Ids, NEW n \in Int, Covers("next", req[t], Files(t), n, b)
          PROVE  Covers("soft_delete", q, Files(t), n, b)
      BY <1>2, <1>4, <1>7, <2>1, <2>3, EntryCovers
    <2> QED
      BY <1>1, <1>4, <1>7, <2>1, <2>2, <2>3, LoopGoto
  <1>8. ASSUME req[t].op = "bulk_delete", ReadOnly, Live(Files(t), i), Goto(t, "soft_delete", [r EXCEPT !.id = seen.blob])
        PROVE  IInv'
    <2> DEFINE q == [r EXCEPT !.id = seen.blob]
    <2>0. seen.blob \in Ids \cup {NoId}
      BY <1>5, <1>8 DEF Live
    <2>1. /\ q \in Requests /\ q.op = req[t].op /\ q.at = req[t].at /\ q.item = i /\ q.id = seen.blob
          /\ DOMAIN q.todo = DOMAIN req[t].todo \ {i}
      <3> HIDE DEF r
      <3> QED
        BY <2>0, <1>4a, <1>4b
    <2>2. Goto(t, "soft_delete", q)
      BY <1>8
    <2> HIDE DEF q, r
    <2>3. ASSUME NEW b \in Ids, NEW n \in Int, Covers("next", req[t], Files(t), n, b)
          PROVE  Covers("soft_delete", q, Files(t), n, b)
      <3>1. /\ Entries(q, b) = {} /\ Entries(req[t], b) = {}
            /\ Leaving("soft_delete", q, b) = (IF q.id = b THEN {i} ELSE {})
            /\ Ahead("soft_delete", q, b) = (IF q.id = b THEN 1 ELSE 0)
        BY <1>4, <1>8, <2>1 DEF Entries, Leaving, Ahead
      <3>2. CASE q.id = b
        <4>1. i \in References(Files(t), b)
          BY <1>4, <1>8, <2>1, <3>2 DEF References
        <4>2. /\ i \in Staying("next", req[t], Files(t), b)
              /\ Staying("soft_delete", q, Files(t), b) \subseteq Staying("next", req[t], Files(t), b) \ {i}
          BY <4>1, <3>1, <3>2, <1>6 DEF Staying
        <4>3. n - Ahead("soft_delete", q, b) >= n - Ahead("next", req[t], b) - 1
          BY <3>1, <3>2, <1>6
        <4> QED
          BY <1>2, <1>4, <2>1, <2>3, <3>1, <4>2, <4>3, CoversTake
      <3>3. CASE q.id # b
        <4>1. Staying("soft_delete", q, Files(t), b) \subseteq Staying("next", req[t], Files(t), b)
          BY <3>1, <3>3, <1>6 DEF Staying
        <4>2. n - Ahead("soft_delete", q, b) >= n - Ahead("next", req[t], b)
          BY <3>1, <3>3, <1>6
        <4> QED
          BY <1>2, <2>1, <2>3, <3>1, <4>1, <4>2, CoversLess
      <3> QED
        BY <3>2, <3>3
    <2> QED
      BY <1>1, <1>4, <1>8, <2>1, <2>2, <2>3, LoopGoto
  <1>9. ASSUME req[t].op \in BulkOps, ReadOnly,
               NEW s \in {"next", "insert_copy", "move_file"}, NEW q \in Requests, Goto(t, s, q),
               q.op = req[t].op, q.at = req[t].at,
               s = "insert_copy" => q.op = "bulk_copy" /\ q.item \in Items,
               s = "move_file" => q.op = "bulk_move" /\ q.item \in Items
        PROVE  IInv'
    <2>1. ASSUME NEW b \in Ids, NEW n \in Int, Covers("next", req[t], Files(t), n, b)
          PROVE  Covers(s, q, Files(t), n, b)
      <3>1. /\ Entries(q, b) = {} /\ Entries(req[t], b) = {}
            /\ Leaving(s, q, b) = {} /\ Ahead(s, q, b) = 0
        BY <1>9 DEF Entries, Leaving, Ahead, BulkOps
      <3>2. Staying(s, q, Files(t), b) \subseteq Staying("next", req[t], Files(t), b)
        BY <3>1, <1>6 DEF Staying
      <3>3. n - Ahead(s, q, b) >= n - Ahead("next", req[t], b)
        BY <3>1, <1>6
      <3>4. Entries(q, b) = Entries(req[t], b)
        BY <3>1
      <3> QED
        BY <1>2, <1>9, <2>1, <3>2, <3>3, <3>4, CoversLess
    <2> QED
      BY <1>1, <1>9, <2>1, LoopGoto
  <1>10. ASSUME req[t].op = "bulk_delete", ReadOnly, Goto(t, "next", [r EXCEPT !.item = NoItem])
         PROVE  IInv'
    <2> DEFINE q == [r EXCEPT !.item = NoItem]
    <2>1. q \in Requests /\ q.op = req[t].op /\ q.at = req[t].at
      BY <1>4, TakenItem
    <2>2. Goto(t, "next", q)
      BY <1>10
    <2> HIDE DEF q, r
    <2> QED
      BY <1>9, <1>10, <2>1, <2>2 DEF BulkOps
  <1>11. ASSUME req[t].op = "bulk_move", ReadOnly, Goto(t, "move_file", r)
         PROVE  IInv'
    <2>1. r \in Requests /\ r.op = req[t].op /\ r.at = req[t].at /\ r.item = i
      BY <1>4, TakenItem
    <2> HIDE DEF r
    <2> QED
      BY <1>4, <1>9, <1>11, <2>1 DEF BulkOps
  <1>12. ASSUME req[t].op = "bulk_copy", seen # NoFile, ReadOnly, Goto(t, "insert_copy", [r EXCEPT !.id = seen.blob])
         PROVE  IInv'
    <2> DEFINE q == [r EXCEPT !.id = seen.blob]
    <2>1. q \in Requests /\ q.op = req[t].op /\ q.at = req[t].at /\ q.item = i
      <3> HIDE DEF r
      <3> QED
        BY <1>5, <1>12, <1>4b
    <2>2. Goto(t, "insert_copy", q)
      BY <1>12
    <2> HIDE DEF q, r
    <2> QED
      BY <1>4, <1>9, <1>12, <2>1, <2>2 DEF BulkOps
  <1>13. ASSUME req[t].op \in {"bulk_move", "bulk_copy"}, GiveUp(t)
         PROVE  IInv'
    <2>1. draft[t].open
      BY <1>2, <1>13 DEF StepFits, BulkOps
    <2> QED
      BY <1>13, <2>1, GiveUpKeeps
  <1> QED
    BY <1>3, <1>7, <1>8, <1>10, <1>11, <1>12, <1>13

\* A transaction commits, or a batch is done.
LEMMA CommitKeeps ==
    ASSUME IInv, NEW t \in Tasks, Commit(t)
    PROVE  IInv'
  <1>1. /\ step[t] = "next" /\ req[t].todo = <<>> /\ files' = Files(t) /\ rows' = Rows(t)
        /\ draft' = [draft EXCEPT ![t] = NoDraft] /\ Finish(t) /\ objects' = objects
    BY DEF Commit, At
  <1>2. /\ req[t] \in Requests /\ req[t].op \in LoopOps /\ draft \in [Tasks -> Transactions]
        /\ req[t].op # "scan"
    BY <1>1, ReqTyped DEF StepFits, LoopOps, BulkOps
  <1>3. Moves(t) /\ draft'[t] = NoDraft
    BY <1>1, <1>2, CommitMoves
  <1>4. Files(t)' = Files(t) /\ Rows(t)' = Rows(t)
    <2>1. DOMAIN draft'[t].files = {} /\ DOMAIN draft'[t].rows = {}
      BY <1>3, EmptySome DEF NoDraft
    <2>2. files' \in [Items -> FileRows \cup {NoFile}] /\ rows' \in [Ids -> StorageRows \cup {NoRow}]
      BY <1>3 DEF Moves, TablesTyped
    <2>3. Files(t)' = files' /\ Rows(t)' = rows'
      BY <2>1, <2>2, OverNothing DEF Files, Rows
    <2> QED
      BY <1>1, <2>3
  <1>5. PlainStep(t)
    BY <1>1, <1>3, <1>4, RowBehind DEF PlainStep
  <1>6. ASSUME NEW b \in Ids, CountFits(t, b), Rows(t)'[b] # NoRow
        PROVE  Rows(t)'[b].count >= Cardinality(References(Files(t)', b))
    <2>1. Covers("next", req[t], Files(t), Rows(t)[b].count, b)
      BY <1>1, <1>4, <1>6 DEF CountFits, CountsAs
    <2>2. /\ Entries(req[t], b) = {} /\ Leaving("next", req[t], b) = {} /\ Ahead("next", req[t], b) = 0
      BY <1>1, EmptySome DEF Entries, Leaving, Ahead
    <2>3. /\ Cardinality(References(Files(t), b)) \in Nat
          /\ References(Files(t), b) \ ({} \cup {}) = References(Files(t), b)
      BY ReferencesFinite
    <2>4. Rows(t)[b].count >= Cardinality(References(Files(t), b)) + 0 + 0
      BY <2>1, <2>2, <2>3, NothingCounted DEF Covers
    <2>5. Rows(t)[b].count >= Cardinality(References(Files(t), b))
      BY <2>3, <2>4
    <2> QED
      BY <2>5, <1>4
  <1> QED
    BY <1>1, <1>2, <1>3, <1>5, <1>6, PlainFinish

\* A file is deleted before its content is released.
LEMMA SoftDeleteKeeps ==
    ASSUME IInv, NEW t \in Tasks, SoftDelete(t)
    PROVE  IInv'
  <1> DEFINE b == req[t].id
             i == req[t].item
             row == [Files(t)[i] EXCEPT !.live = FALSE]
  <1>1. step[t] = "soft_delete" /\ ~Waits(t)
    BY DEF SoftDelete, At
  <1>2. /\ req[t] \in Requests /\ StepFits(t) /\ req[t].op \in {"delete_item", "expire", "bulk_delete"}
        /\ i \in Items /\ b \in Ids \cup {NoId} /\ req[t].op \in LoopOps
        /\ Files(t) \in [Items -> FileRows \cup {NoFile}]
    BY <1>1, ReqTyped, ViewFacts DEF StepFits, Requests, LoopOps, BulkOps
  <1>3. ASSUME Files(t)[i] # NoFile, WriteFile(t, i, row), objects' = objects,
               IF b = NoId THEN Released(t) ELSE Goto(t, "read_count", req[t])
        PROVE  IInv'
    <2>1. row \in FileRows /\ row.blob = Files(t)[i].blob /\ ~row.live
      BY <1>2, <1>3 DEF FileRows
    <2>2. \A u \in Tasks \ {t} : i \notin DOMAIN draft[u].files
      BY <1>1, Unlocked
    <2>3. row.blob # NoId => Lasts(row.blob)
      BY <1>2, <1>3, <2>1, <2>2, BlobLasts
    <2> HIDE DEF row
    <2>4. /\ PlainStep(t) /\ Rows(t)' = Rows(t)
          /\ \A c \in Ids : References(Files(t)', c) = References(Files(t), c) \ {i}
          /\ draft'[t].open = draft[t].open /\ (draft[t] = NoDraft => draft'[t] = NoDraft)
          /\ (draft[t].open => files' = files /\ rows' = rows)
      BY <1>1, <1>2, <1>3, <2>1, <2>2, <2>3, FileStep
    <2>5. ASSUME NEW c \in Ids, Rows(t)'[c] # NoRow, CountsAs(step[t], req[t], Files(t), Rows(t), c)
          PROVE  /\ Covers("soft_delete", req[t], Files(t), Rows(t)[c].count, c)
                 /\ Rows(t)[c].count \in Int /\ Rows(t)'[c].count = Rows(t)[c].count
                 /\ Leaving("soft_delete", req[t], c) = (IF b = c THEN {i} ELSE {})
                 /\ Ahead("soft_delete", req[t], c) = (IF b = c THEN 1 ELSE 0)
      BY <1>1, <1>2, <2>4, <2>5, CountTyped DEF CountsAs, Leaving, Ahead
    <2>6. CASE b = NoId
      <3>1. Released(t)
        BY <1>3, <2>6
      <3>2. ASSUME NEW c \in Ids, Rows(t)'[c] # NoRow, CountsAs(step[t], req[t], Files(t), Rows(t), c)
            PROVE  Rows(t)'[c].count >= Cardinality(References(Files(t)', c) \ Entries(req[t], c))
                                          + Cardinality(Entries(req[t], c))
        <4>1. c # NoId
          BY NullAssumption
        <4>2. References(Files(t)', c) \ Entries(req[t], c) \subseteq Staying("soft_delete", req[t], Files(t), c)
          BY <2>4, <2>5, <2>6, <3>2, <4>1 DEF Staying
        <4>3. Rows(t)'[c].count >= Rows(t)[c].count - Ahead("soft_delete", req[t], c)
          BY <2>5, <2>6, <3>2, <4>1
        <4> QED
          BY <1>2, <2>5, <3>2, <4>2, <4>3, CoversDone
      <3> QED
        BY <1>2, <2>4, <3>1, <3>2, PlainReleased
    <2>7. CASE b # NoId
      <3>1. Goto(t, "read_count", req[t]) /\ "read_count" \in Steps
        BY <1>3, <2>7 DEF Steps
      <3>2. /\ step'[t] = "read_count" /\ SameHands(req'[t], req[t])
            /\ req'[t].at = req[t].at /\ req'[t].hash = req[t].hash
        BY <1>2, <3>1, GotoFacts
      <3>3. ~draft'[t].open => draft'[t] = NoDraft
        BY <1>2, <2>4 DEF StepFits
      <3>4. StepFits(t)'
        BY <1>1, <1>2, <2>4, <2>7, <3>2, <3>3 DEF StepFits, SameHands, LoopOps, BulkOps
      <3>5. KeysFit(t)'
        BY <3>2 DEF KeysFit
      <3>6. ASSUME NEW c \in Ids, rows[c] # NoRow, CountFits(t, c), Rows(t)'[c] # NoRow
            PROVE  Covers("read_count", req[t], Files(t)', Rows(t)'[c].count, c)
        <4>1. /\ Covers("soft_delete", req[t], Files(t), Rows(t)[c].count, c)
              /\ Rows(t)[c].count \in Int /\ Rows(t)'[c].count = Rows(t)[c].count
              /\ Leaving("soft_delete", req[t], c) = (IF b = c THEN {i} ELSE {})
              /\ Ahead("soft_delete", req[t], c) = (IF b = c THEN 1 ELSE 0)
          BY <3>6, <2>5 DEF CountFits
        <4>2. /\ Leaving("read_count", req[t], c) = {}
              /\ Ahead("read_count", req[t], c) = (IF b = c THEN 1 ELSE 0)
          BY DEF Leaving, Ahead
        <4>3. Staying("read_count", req[t], Files(t)', c) \subseteq Staying("soft_delete", req[t], Files(t), c)
          BY <2>4, <3>6, <4>1, <4>2 DEF Staying
        <4>4. Rows(t)'[c].count - Ahead("read_count", req[t], c) >= Rows(t)[c].count - Ahead("soft_delete", req[t], c)
          BY <4>1, <4>2
        <4> QED
          BY <1>2, <4>1, <4>3, <4>4, CoversLess
      <3>7. \A c \in Ids : rows[c] # NoRow /\ CountFits(t, c) => CountsAs("read_count", req[t], Files(t)', Rows(t)', c)
        BY <3>6 DEF CountsAs
      <3>8. req[t].op # "scan"
        BY <1>2
      <3> QED
        BY <1>2, <2>4, <3>1, <3>4, <3>5, <3>7, <3>8, PlainGoto
    <2> QED
      BY <2>6, <2>7
  <1>4. ASSUME Files(t)[i] = NoFile, ReleaseFails(t)
        PROVE  IInv'
    <2>1. ASSUME ~draft[t].open, NEW c \in Ids
          PROVE  /\ Ahead(step[t], req[t], c) >= 0
                 /\ References(files, c) \cap Leaving(step[t], req[t], c) = {}
      <3>1. files[i] = NoFile
        BY <1>4, <2>1, ReqTyped
      <3>2. Leaving(step[t], req[t], c) \subseteq {i} /\ Ahead(step[t], req[t], c) >= 0
        BY <1>1 DEF Leaving, Ahead
      <3> QED
        BY <3>1, <3>2 DEF References, Live
    <2> QED
      BY <1>1, <1>2, <1>4, <2>1, ReleaseFailsKeeps
  <1> QED
    BY <1>3, <1>4 DEF SoftDelete

\* A copy refers to the content before it is counted.
LEMMA InsertCopyKeeps ==
    ASSUME IInv, NEW t \in Tasks, InsertCopy(t)
    PROVE  IInv'
  <1> DEFINE b == req[t].id
  <1>1. step[t] = "insert_copy" /\ ~Waits(t)
    BY DEF InsertCopy, At
  <1>2. /\ req[t] \in Requests /\ StepFits(t) /\ req[t].op = "bulk_copy" /\ b \in Ids \cup {NoId}
        /\ req[t].at \in Places /\ draft[t].open /\ req[t].op \in LoopOps
    BY <1>1, ReqTyped DEF StepFits, Requests, LoopOps, BulkOps
  <1>3. ASSUME MayRefer(t, b), NEW i \in Items, NEW n \in Names, FreshItem(i),
               WriteFile(t, i, [at |-> [req[t].at EXCEPT !.name = n], blob |-> b, live |-> TRUE, expires |-> FALSE]),
               IF b = NoId THEN Released(t) ELSE Goto(t, "copy_count", req[t]), objects' = objects
        PROVE  IInv'
    <2> DEFINE row == [at |-> [req[t].at EXCEPT !.name = n], blob |-> b, live |-> TRUE, expires |-> FALSE]
    <2>1. row \in FileRows /\ row.blob = b /\ row.live
      BY <1>2 DEF FileRows, Places
    <2>2. \A u \in Tasks \ {t} : i \notin DOMAIN draft[u].files
      BY <1>3 DEF FreshItem
    <2>3. b # NoId => Lasts(b) /\ b \in Ids
      <3> SUFFICES ASSUME b # NoId
                   PROVE  Lasts(b) /\ b \in Ids
        OBVIOUS
      <3>1. \A u \in Tasks \ {t} : ~(b \in DOMAIN draft[u].rows /\ draft[u].rows[b] = NoRow)
        BY <1>1, Unlocked
      <3> QED
        BY <1>3, <3>1, ReferLasts
    <2>4. b # NoId => rows[b].hash \in Concerned(t)
      BY <1>2, <2>3, HandTouched DEF Lasts
    <2>5. WriteFile(t, i, row)
      BY <1>3
    <2> HIDE DEF row
    <2>10. /\ row.blob # NoId => Lasts(row.blob)
           /\ row.live /\ row.blob # NoId /\ rows[row.blob].hash \notin Concerned(t) =>
                Live(Files(t), i) /\ Files(t)[i].blob = row.blob
           /\ step[t] \notin {"delete_row", "purge_files", "purge_row"}
      BY <1>1, <2>1, <2>3, <2>4
    <2>6. /\ PlainStep(t) /\ Rows(t)' = Rows(t)
          /\ \A c \in Ids : References(Files(t)', c) = IF row.live /\ row.blob = c THEN References(Files(t), c) \cup {i}
                                                       ELSE References(Files(t), c) \ {i}
          /\ draft'[t].open = draft[t].open /\ (draft[t] = NoDraft => draft'[t] = NoDraft)
          /\ (draft[t].open => files' = files /\ rows' = rows)
          /\ (draft[t].open => i \in DOMAIN draft'[t].files /\ draft'[t].files[i] = row)
      BY <1>3, <2>1, <2>2, <2>5, <2>10, FileStep
    <2>7. ASSUME NEW c \in Ids, Rows(t)'[c] # NoRow, CountsAs(step[t], req[t], Files(t), Rows(t), c)
          PROVE  /\ Covers("insert_copy", req[t], Files(t), Rows(t)[c].count, c)
                 /\ Rows(t)[c].count \in Int /\ Rows(t)'[c].count = Rows(t)[c].count
                 /\ Leaving("insert_copy", req[t], c) = {} /\ Ahead("insert_copy", req[t], c) = 0
      BY <1>1, <1>2, <2>6, <2>7, CountTyped DEF CountsAs, Leaving, Ahead
    <2>8. CASE b = NoId
      <3>1. Released(t)
        BY <1>3, <2>8
      <3>2. ASSUME NEW c \in Ids, Rows(t)'[c] # NoRow, CountsAs(step[t], req[t], Files(t), Rows(t), c)
            PROVE  Rows(t)'[c].count >= Cardinality(References(Files(t)', c) \ Entries(req[t], c))
                                          + Cardinality(Entries(req[t], c))
        <4>1. c # NoId
          BY NullAssumption
        <4>2. References(Files(t)', c) \ Entries(req[t], c) \subseteq Staying("insert_copy", req[t], Files(t), c)
          BY <2>1, <2>6, <2>7, <2>8, <3>2, <4>1 DEF Staying
        <4>3. Rows(t)'[c].count >= Rows(t)[c].count - Ahead("insert_copy", req[t], c)
          BY <2>7, <3>2
        <4> QED
          BY <1>2, <2>7, <3>2, <4>2, <4>3, CoversDone
      <3> QED
        BY <1>2, <2>6, <3>1, <3>2, PlainReleased
    <2>9. CASE b # NoId
      <3>1. Goto(t, "copy_count", req[t]) /\ "copy_count" \in Steps
        BY <1>3, <2>9 DEF Steps
      <3>2. /\ step'[t] = "copy_count" /\ SameHands(req'[t], req[t])
            /\ req'[t].at = req[t].at /\ req'[t].hash = req[t].hash
        BY <1>2, <3>1, GotoFacts
      <3>3. draft'[t].open /\ \E j \in DOMAIN draft'[t].files : draft'[t].files[j].blob = b
        BY <1>2, <2>1, <2>6
      <3>4. StepFits(t)'
        BY <1>1, <1>2, <2>3, <2>9, <3>2, <3>3 DEF StepFits, SameHands, LoopOps, BulkOps
      <3>5. KeysFit(t)'
        BY <3>2 DEF KeysFit
      <3>6. ASSUME NEW c \in Ids, rows[c] # NoRow, CountFits(t, c), Rows(t)'[c] # NoRow
            PROVE  Covers("copy_count", req[t], Files(t)', Rows(t)'[c].count, c)
        <4>1. /\ Covers("insert_copy", req[t], Files(t), Rows(t)[c].count, c)
              /\ Rows(t)[c].count \in Int /\ Rows(t)'[c].count = Rows(t)[c].count
              /\ Leaving("insert_copy", req[t], c) = {} /\ Ahead("insert_copy", req[t], c) = 0
          BY <3>6, <2>7 DEF CountFits
        <4>2. /\ Leaving("copy_count", req[t], c) = {}
              /\ Ahead("copy_count", req[t], c) = (IF b = c THEN -1 ELSE 0)
          BY <1>2 DEF Leaving, Ahead
        <4>3. CASE b = c
          <5>1. Staying("copy_count", req[t], Files(t)', c) \subseteq Staying("insert_copy", req[t], Files(t), c) \cup {i}
            BY <2>6, <3>6, <4>1, <4>2 DEF Staying
          <5>2. Rows(t)'[c].count - Ahead("copy_count", req[t], c) >= Rows(t)[c].count - Ahead("insert_copy", req[t], c) + 1
            BY <4>1, <4>2, <4>3
          <5> QED
            BY <1>2, <4>1, <5>1, <5>2, CoversMore
        <4>4. CASE b # c
          <5>1. Staying("copy_count", req[t], Files(t)', c) \subseteq Staying("insert_copy", req[t], Files(t), c)
            BY <2>1, <2>6, <3>6, <4>1, <4>2, <4>4 DEF Staying
          <5>2. Rows(t)'[c].count - Ahead("copy_count", req[t], c) >= Rows(t)[c].count - Ahead("insert_copy", req[t], c)
            BY <4>1, <4>2, <4>4
          <5> QED
            BY <1>2, <4>1, <5>1, <5>2, CoversLess
        <4> QED
          BY <4>3, <4>4
      <3>7. \A c \in Ids : rows[c] # NoRow /\ CountFits(t, c) => CountsAs("copy_count", req[t], Files(t)', Rows(t)', c)
        BY <3>6 DEF CountsAs
      <3>8. req[t].op # "scan"
        BY <1>2
      <3> QED
        BY <1>2, <2>6, <3>1, <3>4, <3>5, <3>7, <3>8, PlainGoto
    <2> QED
      BY <2>8, <2>9
  <1>4. ASSUME GiveUp(t)
        PROVE  IInv'
    BY <1>2, <1>4, GiveUpKeeps
  <1> QED
    BY <1>3, <1>4 DEF InsertCopy

\* The count of what was copied is read.
LEMMA CopyCountKeeps ==
    ASSUME IInv, NEW t \in Tasks, CopyCount(t)
    PROVE  IInv'
  <1> DEFINE b == req[t].id
             r == [req[t] EXCEPT !.count = Rows(t)[b].count + 1]
  <1>1. step[t] = "copy_count" /\ Goto(t, "raise", r) /\ ReadOnly
    BY DEF CopyCount, At
  <1>2. /\ req[t] \in Requests /\ StepFits(t) /\ req[t].op = "bulk_copy" /\ b \in Ids /\ TablesTyped
    BY <1>1, ReqTyped DEF StepFits
  <1>3. Rows(t)[b] # NoRow
    <2>1. PICK i \in DOMAIN draft[t].files : draft[t].files[i].blob = b
      BY <1>1, <1>2 DEF StepFits
    <2>2. i \in Items /\ Files(t)[i] = draft[t].files[i] /\ draft[t].files[i] \in FileRows
      BY <1>2, ViewFacts
    <2> QED
      BY <1>2, <2>1, <2>2, ViewLinked, NullAssumption
  <1>4. Rows(t)[b].count + 1 \in Int
    BY <1>2, <1>3, CountTyped
  <1>5. /\ r \in Requests /\ r.op = req[t].op /\ r.id = b /\ r.old = req[t].old /\ r.item = req[t].item
        /\ r.target = req[t].target /\ r.todo = req[t].todo
        /\ r.at = req[t].at /\ r.hash = req[t].hash /\ r.count = Rows(t)[b].count + 1
    BY <1>2, <1>4 DEF Requests
  <1> HIDE DEF r
  <1>6. "raise" \in Steps /\ draft' = draft
    BY <1>1 DEF Steps, ReadOnly
  <1>7. step'[t] = "raise" /\ SameHands(req'[t], r) /\ req'[t].at = r.at
    BY <1>1, <1>5, <1>6, GotoFacts
  <1>8. StepFits(t)'
    BY <1>1, <1>2, <1>5, <1>6, <1>7 DEF StepFits, SameHands, LoopOps, BulkOps
  <1>9. ASSUME NEW c \in Ids
        PROVE  /\ Staying("raise", r, Files(t), c) \subseteq Staying(step[t], req[t], Files(t), c)
               /\ Ahead("raise", r, c) <= Ahead(step[t], req[t], c)
    <2>1. /\ Leaving("raise", r, c) = {} /\ Leaving("copy_count", req[t], c) = {}
          /\ Entries(r, c) = Entries(req[t], c)
          /\ Ahead("raise", r, c) = Ahead("copy_count", req[t], c) /\ Ahead("raise", r, c) \in Int
      BY <1>2, <1>5 DEF Entries, Leaving, Ahead
    <2> QED
      BY <2>1, <1>1 DEF Staying
  <1>10. r.op # "scan"
    BY <1>2, <1>5
  <1> QED
    BY <1>1, <1>5, <1>6, <1>8, <1>9, <1>10, ReadSame

\* A file moves to another folder.
LEMMA MoveFileKeeps ==
    ASSUME IInv, NEW t \in Tasks, MoveFile(t)
    PROVE  IInv'
  <1> DEFINE i == req[t].item
             row == [Files(t)[i] EXCEPT !.at.folder = req[t].at.folder]
  <1>1. step[t] = "move_file" /\ ~Waits(t)
    BY DEF MoveFile, At
  <1>2. /\ req[t] \in Requests /\ StepFits(t) /\ req[t].op = "bulk_move" /\ i \in Items
        /\ req[t].at \in Places /\ draft[t].open /\ req[t].op \in LoopOps
        /\ Files(t) \in [Items -> FileRows \cup {NoFile}]
    BY <1>1, ReqTyped, ViewFacts DEF StepFits, LoopOps, BulkOps
  <1>3. ASSUME Files(t)[i] # NoFile, WriteFile(t, i, row), Released(t), objects' = objects
        PROVE  IInv'
    <2>1. row \in FileRows /\ row.blob = Files(t)[i].blob /\ row.live = Files(t)[i].live
      BY <1>2, <1>3 DEF FileRows, Places
    <2>2. \A u \in Tasks \ {t} : i \notin DOMAIN draft[u].files
      BY <1>1, Unlocked
    <2>3. row.blob # NoId => Lasts(row.blob)
      BY <1>2, <1>3, <2>1, <2>2, BlobLasts
    <2>4. row.live => Live(Files(t), i)
      BY <1>3, <2>1 DEF Live
    <2>9. WriteFile(t, i, row) /\ objects' = objects /\ i \in Items
      BY <1>2, <1>3
    <2> HIDE DEF row
    <2>8. /\ row.live /\ row.blob # NoId /\ rows[row.blob].hash \notin Concerned(t) =>
               Live(Files(t), i) /\ Files(t)[i].blob = row.blob
          /\ step[t] \notin {"delete_row", "purge_files", "purge_row"}
          /\ row \in FileRows
      BY <1>1, <2>1, <2>4
    <2>5. /\ PlainStep(t) /\ Rows(t)' = Rows(t)
          /\ \A c \in Ids : References(Files(t)', c) = IF row.live /\ row.blob = c THEN References(Files(t), c) \cup {i}
                                                       ELSE References(Files(t), c) \ {i}
          /\ draft'[t].open = draft[t].open /\ (draft[t] = NoDraft => draft'[t] = NoDraft)
          /\ (draft[t].open => files' = files /\ rows' = rows)
      BY <2>2, <2>3, <2>8, <2>9, FileStep
    <2>6. \A c \in Ids : References(Files(t)', c) \subseteq References(Files(t), c)
      <3>1. \A c \in Ids : row.live /\ row.blob = c => i \in References(Files(t), c)
        BY <1>2, <2>1, <2>4 DEF References
      <3> QED
        BY <2>5, <3>1
    <2>7. ASSUME NEW c \in Ids, Rows(t)'[c] # NoRow, CountsAs(step[t], req[t], Files(t), Rows(t), c)
          PROVE  Rows(t)'[c].count >= Cardinality(References(Files(t)', c) \ Entries(req[t], c))
                                        + Cardinality(Entries(req[t], c))
      <3>1. /\ Covers("move_file", req[t], Files(t), Rows(t)[c].count, c)
            /\ Rows(t)[c].count \in Int /\ Rows(t)'[c].count = Rows(t)[c].count
        BY <1>1, <2>5, <2>7, CountTyped DEF CountsAs
      <3>2. Leaving("move_file", req[t], c) = {} /\ Ahead("move_file", req[t], c) = 0
        BY DEF Leaving, Ahead
      <3>3. References(Files(t)', c) \ Entries(req[t], c) \subseteq Staying("move_file", req[t], Files(t), c)
        BY <2>6, <2>7, <3>2 DEF Staying
      <3>4. Rows(t)'[c].count >= Rows(t)[c].count - Ahead("move_file", req[t], c)
        BY <3>1, <3>2
      <3> QED
        BY <1>2, <3>1, <3>3, <3>4, CoversDone
    <2> QED
      BY <1>1, <1>2, <1>3, <2>5, <2>7, PlainReleased
  <1>4. ASSUME GiveUp(t)
        PROVE  IInv'
    BY <1>2, <1>4, GiveUpKeeps
  <1> QED
    BY <1>3, <1>4 DEF MoveFile

-----------------------------------------------------------------------------
\* rename_item of a file.
LEMMA DirectNext ==
    ASSUME TablesTyped', NEW t \in Tasks, draft'[t] = NoDraft
    PROVE  Files(t)' = files' /\ Rows(t)' = rows'
  <1>1. DOMAIN draft'[t].files = {} /\ DOMAIN draft'[t].rows = {}
    BY EmptySome DEF NoDraft
  <1>2. files' \in [Items -> FileRows \cup {NoFile}] /\ rows' \in [Ids -> StorageRows \cup {NoRow}]
    BY DEF TablesTyped
  <1> QED
    BY <1>1, <1>2, OverNothing DEF Files, Rows

\* What a rename works with.
LEMMA RenameTyped ==
    ASSUME IInv, NEW t \in Tasks, step[t] \in {"find_target", "merge", "retire", "rename_file"}
    PROVE  /\ req[t] \in Requests /\ StepFits(t) /\ req[t].op = "rename"
           /\ req[t].item \in Items /\ req[t].id \in Ids \cup {NoId} /\ req[t].old \in Ids \cup {NoId}
           /\ req[t].at \in Places /\ draft[t] = NoDraft /\ ~draft[t].open
           /\ Files(t) = files /\ Rows(t) = rows
           /\ files \in [Items -> FileRows \cup {NoFile}]
           /\ Alone => files[req[t].item] # NoFile
           /\ \A c \in Ids : Entries(req[t], c) = {}
  <1>1. /\ req[t] \in Requests /\ StepFits(t) /\ req[t].op = "rename" /\ req[t].item \in Items /\ ~draft[t].open
        /\ files \in [Items -> FileRows \cup {NoFile}] /\ AloneFits(t)
    BY ReqTyped DEF StepFits, LoopOps, BulkOps, IInv
  <1>2. draft[t] = NoDraft /\ Files(t) = files /\ Rows(t) = rows
    BY <1>1, ReqTyped
  <1>3. req[t].at \in Places /\ req[t].id \in Ids \cup {NoId} /\ req[t].old \in Ids \cup {NoId}
    BY <1>1, HandIds DEF StepFits
  <1> QED
    BY <1>1, <1>2, <1>3 DEF AloneFits, Entries

\* A rename looks up the file that has the name.
LEMMA FindTargetKeeps ==
    ASSUME IInv, NEW t \in Tasks, FindTarget(t)
    PROVE  IInv'
  <1> DEFINE b == req[t].id
             i == req[t].item
  <1>1. step[t] = "find_target" /\ ReadOnly
    BY DEF FindTarget, At
  <1>2. /\ req[t] \in Requests /\ StepFits(t) /\ req[t].op = "rename" /\ i \in Items /\ b \in Ids \cup {NoId}
        /\ req[t].at \in Places /\ ~draft[t].open /\ Files(t) = files /\ Rows(t) = rows
        /\ files \in [Items -> FileRows \cup {NoFile}] /\ (Alone => files[i] # NoFile)
        /\ \A c \in Ids : Entries(req[t], c) = {}
    BY <1>1, RenameTyped
  <1>3. draft' = draft
    BY <1>1 DEF ReadOnly
  <1>4. \A c \in Ids : /\ Leaving("find_target", req[t], c) = (IF b = c THEN {i} ELSE {})
                       /\ Ahead("find_target", req[t], c) = (IF b = c THEN 1 ELSE 0)
    BY <1>2 DEF Leaving, Ahead
  <1>5. ASSUME NEW j \in LiveAt(req[t].at) \ {i}, Goto(t, "merge", [req[t] EXCEPT !.target = j, !.old = files[j].blob])
        PROVE  IInv'
    <2> DEFINE r == [req[t] EXCEPT !.target = j, !.old = files[j].blob]
    <2>1. j \in Items /\ Live(files, j) /\ files[j].blob \in Ids \cup {NoId}
      BY <1>2, <1>5 DEF LiveAt, Live, FileRows
    <2>2. /\ r \in Requests /\ r.op = req[t].op /\ r.id = b /\ r.target = j /\ r.old = files[j].blob
          /\ r.item = i /\ r.todo = req[t].todo /\ r.at = req[t].at /\ r.hash = req[t].hash
      BY <1>2, <2>1 DEF Requests
    <2> HIDE DEF r
    <2>3. Goto(t, "merge", r) /\ "merge" \in Steps
      BY <1>5 DEF r, Steps
    <2>4. step'[t] = "merge" /\ SameHands(req'[t], r) /\ req'[t].at = r.at
      BY <2>2, <2>3, GotoFacts
    <2>5. StepFits(t)'
      BY <1>1, <1>2, <1>3, <2>1, <2>2, <2>4 DEF StepFits, SameHands, LoopOps, BulkOps
    <2>6. ASSUME NEW c \in Ids, Rows(t)[c] # NoRow, CountsAs(step[t], req[t], Files(t), Rows(t), c)
          PROVE  CountsAs("merge", r, Files(t), Rows(t), c)
      <3>1. Rows(t)[c].count \in Int /\ Covers("find_target", req[t], Files(t), Rows(t)[c].count, c)
        BY <1>1, <2>6, CountTyped DEF CountsAs
      <3>2. Entries(r, c) = {} /\ Entries(r, c) = Entries(req[t], c)
        BY <1>2, <2>2 DEF Entries
      <3>3. CASE files[j].blob = c /\ b # c
        <4>1. Leaving("merge", r, c) = {j} /\ Ahead("merge", r, c) = 1
          BY <2>1, <2>2, <3>3 DEF Leaving, Ahead
        <4>2. j \in References(Files(t), c)
          BY <1>2, <2>1, <3>3 DEF References
        <4>3. /\ j \in Staying("find_target", req[t], Files(t), c)
              /\ Staying("merge", r, Files(t), c) \subseteq Staying("find_target", req[t], Files(t), c) \ {j}
          BY <1>2, <1>4, <3>2, <3>3, <4>1, <4>2 DEF Staying
        <4>4. Rows(t)[c].count - Ahead("merge", r, c) >= Rows(t)[c].count - Ahead("find_target", req[t], c) - 1
          BY <1>4, <3>1, <3>3, <4>1
        <4>5. Covers("merge", r, Files(t), Rows(t)[c].count, c)
          BY <1>2, <2>1, <2>2, <3>1, <3>2, <4>3, <4>4, CoversTake
        <4> QED
          BY <4>5 DEF CountsAs
      <3>4. CASE ~(files[j].blob = c /\ b # c)
        <4>1. Leaving("merge", r, c) = (IF b = c THEN {i} ELSE {}) /\ Ahead("merge", r, c) = (IF b = c THEN 1 ELSE 0)
          BY <1>2, <2>2, <3>4 DEF Leaving, Ahead
        <4>2. Staying("merge", r, Files(t), c) \subseteq Staying("find_target", req[t], Files(t), c)
          BY <1>4, <3>2, <4>1 DEF Staying
        <4>3. Rows(t)[c].count - Ahead("merge", r, c) >= Rows(t)[c].count - Ahead("find_target", req[t], c)
          BY <1>4, <3>1, <4>1
        <4>4. Covers("merge", r, Files(t), Rows(t)[c].count, c)
          BY <1>2, <2>2, <3>1, <3>2, <4>2, <4>3, CoversLess
        <4> QED
          BY <4>4 DEF CountsAs
      <3> QED
        BY <3>3, <3>4
    <2>7. r.op # "scan"
      BY <1>2, <2>2
    <2> QED
      BY <1>1, <1>2, <2>2, <2>3, <2>5, <2>6, <2>7, ReadGoto
  <1>6. ASSUME Goto(t, "rename_file", req[t])
        PROVE  IInv'
    <2>1. "rename_file" \in Steps
      BY DEF Steps
    <2>2. step'[t] = "rename_file" /\ SameHands(req'[t], req[t]) /\ req'[t].at = req[t].at
      BY <1>2, <1>6, <2>1, GotoFacts
    <2>3. StepFits(t)'
      BY <1>1, <1>2, <1>3, <2>2 DEF StepFits, SameHands, LoopOps, BulkOps
    <2>4. ASSUME NEW c \in Ids, Rows(t)[c] # NoRow, CountsAs(step[t], req[t], Files(t), Rows(t), c)
          PROVE  CountsAs("rename_file", req[t], Files(t), Rows(t), c)
      <3>1. Rows(t)[c].count \in Int /\ Covers("find_target", req[t], Files(t), Rows(t)[c].count, c)
        BY <1>1, <2>4, CountTyped DEF CountsAs
      <3>2. Leaving("rename_file", req[t], c) = {} /\ Ahead("rename_file", req[t], c) = 0
        BY <1>2 DEF Leaving, Ahead
      <3>3. CASE b = c
        <4>1. Staying("rename_file", req[t], Files(t), c) \subseteq Staying("find_target", req[t], Files(t), c) \cup {i}
          BY <1>4, <3>2, <3>3 DEF Staying
        <4>2. Rows(t)[c].count - Ahead("rename_file", req[t], c) >= Rows(t)[c].count - Ahead("find_target", req[t], c) + 1
          BY <1>4, <3>1, <3>2, <3>3
        <4>3. Covers("rename_file", req[t], Files(t), Rows(t)[c].count, c)
          BY <1>2, <3>1, <4>1, <4>2, CoversMore
        <4> QED
          BY <4>3 DEF CountsAs
      <3>4. CASE b # c
        <4>1. Staying("rename_file", req[t], Files(t), c) \subseteq Staying("find_target", req[t], Files(t), c)
          BY <1>4, <3>2, <3>4, <2>4 DEF Staying
        <4>2. Rows(t)[c].count - Ahead("rename_file", req[t], c) >= Rows(t)[c].count - Ahead("find_target", req[t], c)
          BY <1>4, <3>1, <3>2, <3>4, <2>4
        <4>3. Covers("rename_file", req[t], Files(t), Rows(t)[c].count, c)
          BY <1>2, <3>1, <4>1, <4>2, CoversLess
        <4> QED
          BY <4>3 DEF CountsAs
      <3> QED
        BY <3>3, <3>4
    <2> QED
      BY <1>1, <1>2, <1>6, <2>1, <2>3, <2>4, ReadGoto
  <1> QED
    BY <1>1, <1>5, <1>6 DEF FindTarget

\* The file that has the name takes the content of the renamed one, ...
LEMMA MergeIntoKeeps ==
    ASSUME IInv, NEW t \in Tasks, MergeInto(t)
    PROVE  IInv'
  <1> DEFINE b == req[t].id
             i == req[t].item
             j == req[t].target
             row == [files[j] EXCEPT !.blob = b]
  <1>1. step[t] = "merge" /\ ~Waits(t)
    BY DEF MergeInto, At
  <1>2. /\ req[t] \in Requests /\ StepFits(t) /\ req[t].op = "rename" /\ i \in Items /\ b \in Ids \cup {NoId}
        /\ req[t].at \in Places /\ ~draft[t].open /\ draft[t] = NoDraft /\ Files(t) = files /\ Rows(t) = rows
        /\ files \in [Items -> FileRows \cup {NoFile}] /\ (Alone => files[i] # NoFile)
        /\ \A c \in Ids : Entries(req[t], c) = {}
    BY <1>1, RenameTyped
  <1>3. j \in Items
    BY <1>1, <1>2 DEF StepFits
  <1>4. ASSUME files[j] # NoFile, MayRefer(t, b), WriteFile(t, j, row), Goto(t, "retire", req[t]), objects' = objects
        PROVE  IInv'
    <2>1. row \in FileRows /\ row.blob = b /\ row # NoFile
      <3>1. files[j] \in FileRows
        BY <1>2, <1>3, <1>4
      <3>2. row \in FileRows /\ row.blob = b
        BY <1>2, <3>1 DEF FileRows
      <3> QED
        BY <3>2, NullAssumption
    <2>2. b # NoId => Lasts(b) /\ rows[b].hash \in Concerned(t)
      <3> SUFFICES ASSUME b # NoId
                   PROVE  Lasts(b) /\ rows[b].hash \in Concerned(t)
        OBVIOUS
      <3>1. \A u \in Tasks \ {t} : ~(b \in DOMAIN draft[u].rows /\ draft[u].rows[b] = NoRow)
        BY <1>1, Unlocked
      <3>2. Lasts(b) /\ b \in Ids
        BY <1>4, <3>1, ReferLasts
      <3> QED
        BY <1>2, <3>2, HandTouched DEF Lasts
    <2>3. \A u \in Tasks \ {t} : j \notin DOMAIN draft[u].files
      BY <1>1, Unlocked
    <2>4. WriteFile(t, j, row)
      BY <1>4
    <2> HIDE DEF row
    <2>5. /\ row.blob # NoId => Lasts(row.blob)
          /\ row.live /\ row.blob # NoId /\ rows[row.blob].hash \notin Concerned(t) =>
               Live(Files(t), j) /\ Files(t)[j].blob = row.blob
          /\ step[t] \notin {"delete_row", "purge_files", "purge_row"}
          /\ row \in FileRows
      BY <1>1, <2>1, <2>2
    <2>6. /\ PlainStep(t) /\ Rows(t)' = Rows(t) /\ draft'[t] = NoDraft
          /\ Files(t)'[j] = row /\ \A k \in Items \ {j} : Files(t)'[k] = Files(t)[k]
          /\ \A c \in Ids : References(Files(t)', c) = IF row.live /\ row.blob = c THEN References(Files(t), c) \cup {j}
                                                       ELSE References(Files(t), c) \ {j}
      BY <1>2, <1>3, <1>4, <2>3, <2>4, <2>5, FileStep
    <2>7. "retire" \in Steps
      BY DEF Steps
    <2>8. step'[t] = "retire" /\ SameHands(req'[t], req[t]) /\ req'[t].at = req[t].at
      BY <1>2, <1>4, <2>7, GotoFacts
    <2>9. StepFits(t)'
      BY <1>1, <1>2, <2>6, <2>8 DEF StepFits, SameHands, LoopOps, BulkOps
    <2>10. KeysFit(t)' /\ ~draft'[t].open
      BY <2>6, <2>8 DEF KeysFit, NoDraft
    <2>11. Alone => files'[i] # NoFile
      <3>1. Files(t)' = files'
        BY <2>6, DirectNext DEF PlainStep, Moves
      <3> QED
        BY <3>1, <1>2, <2>1, <2>6
    <2>12. ASSUME NEW c \in Ids, rows[c] # NoRow, CountFits(t, c), Rows(t)'[c] # NoRow
           PROVE  Covers("retire", req[t], Files(t)', Rows(t)'[c].count, c)
      <3>1. /\ Covers("merge", req[t], Files(t), Rows(t)[c].count, c)
            /\ Rows(t)[c].count \in Int /\ Rows(t)'[c].count = Rows(t)[c].count
        BY <1>1, <2>6, <2>12, CountTyped DEF CountFits, CountsAs
      <3>2. /\ Leaving("merge", req[t], c) = (IF b = c THEN {i} ELSE IF req[t].old = c THEN {j} ELSE {})
            /\ Ahead("merge", req[t], c) = (IF c \in {b, req[t].old} THEN 1 ELSE 0)
            /\ Leaving("retire", req[t], c) = (IF b = c THEN {i} ELSE {})
            /\ Ahead("retire", req[t], c) = (IF req[t].old = c /\ b # c THEN 1 ELSE 0)
            /\ Entries(req[t], c) = {}
        BY <1>2, <1>3, <2>12 DEF Leaving, Ahead
      <3>3. CASE b = c
        <4>1. Staying("retire", req[t], Files(t)', c) \subseteq Staying("merge", req[t], Files(t), c) \cup {j}
          BY <2>6, <2>12, <3>2, <3>3 DEF Staying
        <4>2. Rows(t)'[c].count - Ahead("retire", req[t], c) >= Rows(t)[c].count - Ahead("merge", req[t], c) + 1
          BY <3>1, <3>2, <3>3
        <4> QED
          BY <1>2, <1>3, <3>1, <4>1, <4>2, CoversMore
      <3>4. CASE b # c
        <4>1. Staying("retire", req[t], Files(t)', c) \subseteq Staying("merge", req[t], Files(t), c)
          BY <2>1, <2>6, <2>12, <3>2, <3>4 DEF Staying
        <4>2. Rows(t)'[c].count - Ahead("retire", req[t], c) >= Rows(t)[c].count - Ahead("merge", req[t], c)
          BY <3>1, <3>2, <3>4
        <4> QED
          BY <1>2, <3>1, <4>1, <4>2, CoversLess
      <3> QED
        BY <3>3, <3>4
    <2>13. \A c \in Ids : rows[c] # NoRow /\ CountFits(t, c) => CountsAs("retire", req[t], Files(t)', Rows(t)', c)
      BY <2>12 DEF CountsAs
    <2>14. req[t].op # "scan"
      BY <1>2
    <2> QED
      BY <1>2, <1>4, <2>6, <2>7, <2>9, <2>10, <2>11, <2>13, <2>14, PlainGoto
  <1>5. ASSUME GiveUp(t)
        PROVE  IInv'
    BY <1>1, <1>2, <1>5, GiveUpKeeps
  <1> QED
    BY <1>4, <1>5 DEF MergeInto

\* ... which is deleted.
LEMMA RetireKeeps ==
    ASSUME IInv, NEW t \in Tasks, Retire(t)
    PROVE  IInv'
  <1> DEFINE b == req[t].id
             i == req[t].item
             row == [files[i] EXCEPT !.live = FALSE]
  <1>1. step[t] = "retire" /\ ~Waits(t)
    BY DEF Retire, At
  <1>2. /\ req[t] \in Requests /\ StepFits(t) /\ req[t].op = "rename" /\ i \in Items /\ b \in Ids \cup {NoId}
        /\ req[t].old \in Ids \cup {NoId}
        /\ req[t].at \in Places /\ ~draft[t].open /\ draft[t] = NoDraft /\ Files(t) = files /\ Rows(t) = rows
        /\ files \in [Items -> FileRows \cup {NoFile}] /\ (Alone => files[i] # NoFile)
        /\ \A c \in Ids : Entries(req[t], c) = {}
    BY <1>1, RenameTyped
  <1>3. ASSUME files[i] # NoFile, WriteFile(t, i, row), ReleaseOld(t), objects' = objects
        PROVE  IInv'
    <2>1. row \in FileRows /\ row.blob = files[i].blob /\ ~row.live
      BY <1>2, <1>3 DEF FileRows
    <2>2. \A u \in Tasks \ {t} : i \notin DOMAIN draft[u].files
      BY <1>1, Unlocked
    <2>3. WriteFile(t, i, row)
      BY <1>3
    <2> HIDE DEF row
    <2>4. row.blob # NoId => Lasts(row.blob)
      BY <1>2, <1>3, <2>1, <2>2, BlobLasts
    <2>5. /\ PlainStep(t) /\ Rows(t)' = Rows(t) /\ draft'[t] = NoDraft
          /\ \A c \in Ids : References(Files(t)', c) = References(Files(t), c) \ {i}
      BY <1>1, <1>2, <1>3, <2>1, <2>2, <2>3, <2>4, FileStep
    <2>6. ASSUME NEW c \in Ids, CountFits(t, c), Rows(t)'[c] # NoRow
          PROVE  /\ Covers("retire", req[t], Files(t), Rows(t)[c].count, c)
                 /\ Rows(t)[c].count \in Int /\ Rows(t)'[c].count = Rows(t)[c].count
                 /\ Leaving("retire", req[t], c) = (IF b = c THEN {i} ELSE {})
                 /\ Ahead("retire", req[t], c) = (IF req[t].old = c /\ b # c THEN 1 ELSE 0)
                 /\ References(Files(t)', c) \subseteq Staying("retire", req[t], Files(t), c)
      <3>1. /\ Covers("retire", req[t], Files(t), Rows(t)[c].count, c)
            /\ Rows(t)[c].count \in Int /\ Rows(t)'[c].count = Rows(t)[c].count
        BY <1>1, <2>5, <2>6, CountTyped DEF CountFits, CountsAs
      <3>2. /\ Leaving("retire", req[t], c) = (IF b = c THEN {i} ELSE {})
            /\ Ahead("retire", req[t], c) = (IF req[t].old = c /\ b # c THEN 1 ELSE 0)
        BY <1>2 DEF Leaving, Ahead
      <3>3. References(Files(t)', c) \subseteq Staying("retire", req[t], Files(t), c)
        BY <1>2, <2>5, <2>6, <3>2 DEF Staying
      <3> QED
        BY <3>1, <3>2, <3>3
    <2>7. CASE req[t].old \notin {NoId, b}
      <3> DEFINE r == [req[t] EXCEPT !.id = req[t].old]
      <3>1. /\ r \in Requests /\ r.op = req[t].op /\ r.id = req[t].old /\ r.todo = req[t].todo
            /\ r.at = req[t].at /\ r.hash = req[t].hash
        BY <1>2 DEF Requests
      <3>2. Goto(t, "read_count", r) /\ "read_count" \in Steps
        BY <1>3, <2>7 DEF ReleaseOld, Steps
      <3> HIDE DEF r
      <3>3. step'[t] = "read_count" /\ SameHands(req'[t], r) /\ req'[t].at = r.at
        BY <3>1, <3>2, GotoFacts
      <3>4. StepFits(t)'
        BY <1>2, <2>5, <2>7, <3>1, <3>3 DEF StepFits, SameHands, LoopOps, BulkOps
      <3>5. KeysFit(t)' /\ ~draft'[t].open
        BY <2>5, <3>3 DEF KeysFit, NoDraft
      <3>6. ASSUME NEW c \in Ids, CountFits(t, c), Rows(t)'[c] # NoRow
            PROVE  Covers("read_count", r, Files(t)', Rows(t)'[c].count, c)
        <4>1. /\ Entries(r, c) = Entries(req[t], c) /\ Leaving("read_count", r, c) = {}
              /\ Ahead("read_count", r, c) = (IF c = req[t].old THEN 1 ELSE 0)
          BY <1>2, <3>1 DEF Leaving, Entries, Ahead
        <4>2. Staying("read_count", r, Files(t)', c) \subseteq Staying("retire", req[t], Files(t), c)
          BY <2>6, <3>6 DEF Staying
        <4>3. Rows(t)'[c].count - Ahead("read_count", r, c) >= Rows(t)[c].count - Ahead("retire", req[t], c)
          BY <2>6, <2>7, <3>6, <4>1
        <4> QED
          BY <1>2, <2>6, <3>1, <3>6, <4>1, <4>2, <4>3, CoversLess
      <3>7. \A c \in Ids : rows[c] # NoRow /\ CountFits(t, c) => CountsAs("read_count", r, Files(t)', Rows(t)', c)
        BY <3>6 DEF CountsAs
      <3> QED
        BY <1>2, <2>5, <3>1, <3>2, <3>4, <3>5, <3>7, PlainGoto
    <2>8. CASE req[t].old \in {NoId, b}
      <3>1. Finish(t)
        BY <1>3, <2>8 DEF ReleaseOld
      <3>2. ASSUME NEW c \in Ids, CountFits(t, c), Rows(t)'[c] # NoRow
            PROVE  Rows(t)'[c].count >= Cardinality(References(Files(t)', c))
        <4>1. c # NoId
          BY NullAssumption
        <4>2. Rows(t)'[c].count >= Rows(t)[c].count - Ahead("retire", req[t], c)
          BY <4>1, <2>6, <2>8, <3>2
        <4> QED
          BY <1>2, <2>6, <3>2, <4>2, CoversEnd
      <3>3. req[t].op # "scan"
        BY <1>2
      <3> QED
        BY <2>5, <3>1, <3>2, <3>3, PlainFinish
    <2> QED
      BY <2>7, <2>8
  <1>4. ASSUME files[i] = NoFile, GiveUp(t)
        PROVE  IInv'
    BY <1>2, <1>4, GiveUpKeeps
  <1> QED
    BY <1>3, <1>4 DEF Retire

\* Nobody has the name: the file takes it.
LEMMA RenameFileKeeps ==
    ASSUME IInv, NEW t \in Tasks, RenameFile(t)
    PROVE  IInv'
  <1> DEFINE i == req[t].item
             row == [files[i] EXCEPT !.at = req[t].at]
  <1>1. step[t] = "rename_file" /\ ~Waits(t)
    BY DEF RenameFile, At
  <1>2. /\ req[t] \in Requests /\ StepFits(t) /\ req[t].op = "rename" /\ i \in Items
        /\ req[t].at \in Places /\ ~draft[t].open /\ draft[t] = NoDraft /\ Files(t) = files /\ Rows(t) = rows
        /\ files \in [Items -> FileRows \cup {NoFile}]
        /\ \A c \in Ids : Entries(req[t], c) = {}
    BY <1>1, RenameTyped
  <1>3. ASSUME files[i] # NoFile, WriteFile(t, i, row), Finish(t), objects' = objects
        PROVE  IInv'
    <2>1. row \in FileRows /\ row.blob = files[i].blob /\ row.live = files[i].live
      BY <1>2, <1>3 DEF FileRows
    <2>2. \A u \in Tasks \ {t} : i \notin DOMAIN draft[u].files
      BY <1>1, Unlocked
    <2>3. row.blob # NoId => Lasts(row.blob)
      BY <1>2, <1>3, <2>1, <2>2, BlobLasts
    <2>4. WriteFile(t, i, row) /\ objects' = objects /\ i \in Items
      BY <1>2, <1>3
    <2>5. /\ row.live => Live(Files(t), i)
          /\ row.blob = Files(t)[i].blob
      BY <1>2, <1>3, <2>1 DEF Live
    <2> HIDE DEF row
    <2>6. /\ row.live /\ row.blob # NoId /\ rows[row.blob].hash \notin Concerned(t) =>
               Live(Files(t), i) /\ Files(t)[i].blob = row.blob
          /\ step[t] \notin {"delete_row", "purge_files", "purge_row"}
          /\ row \in FileRows
      BY <1>1, <2>1, <2>5
    <2>7. /\ PlainStep(t) /\ Rows(t)' = Rows(t) /\ (draft[t] = NoDraft => draft'[t] = NoDraft)
          /\ \A c \in Ids : References(Files(t)', c) = IF row.live /\ row.blob = c THEN References(Files(t), c) \cup {i}
                                                       ELSE References(Files(t), c) \ {i}
      BY <2>2, <2>3, <2>4, <2>6, FileStep
    <2>8. \A c \in Ids : row.live /\ row.blob = c => i \in References(Files(t), c)
      BY <1>2, <2>5 DEF References
    <2>9. ASSUME NEW c \in Ids, CountFits(t, c), Rows(t)'[c] # NoRow
          PROVE  Rows(t)'[c].count >= Cardinality(References(Files(t)', c))
      <3>1. /\ Covers("rename_file", req[t], Files(t), Rows(t)[c].count, c)
            /\ Rows(t)[c].count \in Int /\ Rows(t)'[c].count = Rows(t)[c].count
        BY <1>1, <2>7, <2>9, CountTyped DEF CountFits, CountsAs
      <3>2. Leaving("rename_file", req[t], c) = {} /\ Ahead("rename_file", req[t], c) = 0
        BY <1>2 DEF Leaving, Ahead
      <3>3. References(Files(t)', c) \subseteq References(Files(t), c)
        BY <2>7, <2>8, <2>9
      <3>4. References(Files(t)', c) \subseteq Staying("rename_file", req[t], Files(t), c)
        BY <1>2, <2>9, <3>2, <3>3 DEF Staying
      <3>5. Rows(t)'[c].count >= Rows(t)[c].count - Ahead("rename_file", req[t], c)
        BY <3>1, <3>2
      <3> QED
        BY <1>2, <3>1, <3>4, <3>5, CoversEnd
    <2>10. req[t].op # "scan" /\ draft'[t] = NoDraft
      BY <1>2, <2>7
    <2> QED
      BY <1>3, <2>7, <2>9, <2>10, PlainFinish
  <1>4. ASSUME GiveUp(t)
        PROVE  IInv'
    BY <1>1, <1>2, <1>4, GiveUpKeeps
  <1> QED
    BY <1>3, <1>4 DEF RenameFile

-----------------------------------------------------------------------------
\* A scan counts nothing and keeps every hash and name.
LEMMA ReportKeeps ==
    ASSUME IInv, NEW t \in Tasks, Report(t)
    PROVE  IInv'
  <1> DEFINE b == req[t].id
             row == [rows[b] EXCEPT !.infected = TRUE]
  <1>1. /\ step[t] = "report" /\ ~Waits(t) /\ Finish(t) /\ objects' = objects
        /\ IF rows[b] = NoRow THEN UNCHANGED <<files, rows, draft>> ELSE WriteRow(t, b, row)
    BY DEF Report, At
  <1>2. /\ req[t] \in Requests /\ req[t].op = "scan" /\ b \in Ids /\ ~draft[t].open /\ draft[t] = NoDraft
        /\ Rows(t) = rows /\ objects \subseteq Keys /\ draft \in [Tasks -> Transactions]
        /\ rows \in [Ids -> StorageRows \cup {NoRow}]
    BY <1>1, ReqTyped DEF StepFits, BulkOps
  <1>3. /\ Proceeds(t) /\ step'[t] = "idle" /\ req'[t] = NoReq /\ Concerned(t) = req[t].touched
    BY <1>1, EndFacts DEF Finish, End, IInv, Typed
  <1>4. Concerned(t) = {}
    BY <1>2, <1>3 DEF IInv, HandsKnown
  <1>5. Moves(t) /\ draft'[t] = NoDraft
    <2>1. CASE rows[b] = NoRow
      BY <2>1, <1>1, <1>2, StillMoves
    <2>2. CASE rows[b] # NoRow
      <3>1. row \in StorageRows /\ KeyOf(row) = KeyOf(rows[b]) /\ row.count = rows[b].count
        BY <2>2, <1>2 DEF StorageRows, KeyOf
      <3>2. \A u \in Tasks \ {t} : b \notin DOMAIN draft[u].rows
        BY <1>1, Unlocked
      <3>3. WriteRow(t, b, row)
        BY <2>2, <1>1
      <3> HIDE DEF row
      <3>4. PlainStep(t) /\ (draft[t] = NoDraft => draft'[t] = NoDraft)
        BY <2>2, <1>1, <1>2, <3>1, <3>2, <3>3, RowStep
      <3> QED
        BY <3>4, <1>2 DEF PlainStep
    <2> QED
      BY <2>1, <2>2
  <1>6. BytesStay(t)
    BY <1>1 DEF BytesStay
  <1>7. OwnFits(t)
    BY <1>3, <1>4, <1>5, IdleFits DEF OwnFits
  <1> QED
    BY <1>3, <1>5, <1>6, <1>7, StepKeeps

-----------------------------------------------------------------------------
\* Requests are stopped.
LEMMA AbortDeadlockedKeeps ==
    ASSUME IInv, NEW t \in Tasks, AbortDeadlocked(t)
    PROVE  IInv'
  BY GiveUpKeeps DEF AbortDeadlocked

\* A request fails half-way.
LEMMA FailKeeps ==
    ASSUME IInv, NEW t \in Tasks, Fail(t)
    PROVE  IInv'
  <1>1. /\ spent \in [requests : Nat, faults : Nat] /\ spent.faults < MaxFaults
        /\ spent' = [spent EXCEPT !.faults = @ + 1]
        /\ step' = [step EXCEPT ![t] = "idle"] /\ req' = [req EXCEPT ![t] = NoReq]
        /\ draft' = [draft EXCEPT ![t] = NoDraft] /\ disturbed' = disturbed \cup req[t].touched
        /\ UNCHANGED <<files, rows, objects>>
    BY DEF Fail, IInv, Typed
  <1>2. spent' \in [requests : Nat, faults : Nat] /\ ~Alone
    BY <1>1 DEF Alone
  <1> QED
    BY <1>1, <1>2, DropKeeps

-----------------------------------------------------------------------------
\* Requests arrive: what they take in hand is counted as nobody has it in hand.
LEMMA BeginFacts ==
    ASSUME IInv, NEW t \in Tasks, NEW s \in Steps, NEW r \in Requests, NEW d \in {NoDraft, Begun},
           Begin(t, s, r, d)
    PROVE  /\ Proceeds(t) /\ step'[t] = s /\ SameHands(req'[t], r)
           /\ req'[t].at = r.at /\ req'[t].hash = r.hash /\ req'[t].key = r.key
           /\ Concerned(t) = Contents(r) /\ req'[t].touched = Contents(r)
           /\ req[t] = NoReq /\ step[t] = "idle" /\ draft[t] = NoDraft
           /\ Moves(t) /\ BytesStay(t) /\ draft'[t] = d
           /\ Files(t)' = files /\ Rows(t)' = rows /\ Files(t) = files /\ Rows(t) = rows
           /\ files' = files /\ rows' = rows /\ objects' = objects
  <1>1. /\ step \in [Tasks -> Steps] /\ req \in [Tasks -> Requests] /\ disturbed \subseteq Hashes
        /\ spent \in [requests : Nat, faults : Nat] /\ StepFits(t) /\ TablesTyped
        /\ draft \in [Tasks -> Transactions] /\ objects \subseteq Keys
    BY DEF IInv, Typed, TablesTyped
  <1>2. /\ step[t] = "idle"
        /\ spent' = [spent EXCEPT !.requests = @ + 1]
        /\ req' = [req EXCEPT ![t] = [r EXCEPT !.touched = Contents(r)]]
        /\ disturbed' = disturbed \cup {h \in Contents(r) : \E u \in Tasks : h \in req[u].touched}
        /\ step' = [step EXCEPT ![t] = s] /\ draft' = [draft EXCEPT ![t] = d]
        /\ files' = files /\ rows' = rows /\ objects' = objects
    BY DEF Begin, Idle
  <1>3. req[t] = NoReq /\ req[t].touched = {} /\ req[t].op = "none"
    BY <1>1, <1>2, NoReqTyped DEF StepFits
  <1>4. ~draft[t].open /\ draft[t] = NoDraft
    BY <1>1, <1>3 DEF StepFits, BulkOps
  <1>5. Contents(r) \subseteq Hashes
    BY ContentsTyped
  <1>6. [r EXCEPT !.touched = Contents(r)] \in Requests
    BY <1>5 DEF Requests
  <1>7. /\ req'[t] = [r EXCEPT !.touched = Contents(r)]
        /\ \A u \in Tasks \ {t} : req'[u] = req[u] /\ step'[u] = step[u]
        /\ step'[t] = s /\ step' \in [Tasks -> Steps] /\ req' \in [Tasks -> Requests]
    BY <1>1, <1>2, <1>6
  <1>8. /\ req'[t].touched = Contents(r) /\ SameHands(req'[t], r)
        /\ req'[t].at = r.at /\ req'[t].hash = r.hash /\ req'[t].key = r.key
    BY <1>7 DEF Requests, SameHands
  <1>9. Concerned(t) = Contents(r)
    BY <1>3, <1>8 DEF Concerned
  <1>10. /\ disturbed \subseteq disturbed' /\ disturbed' \subseteq Hashes
         /\ \A u \in Tasks \ {t} : Concerned(t) \cap req[u].touched \subseteq disturbed'
    BY <1>1, <1>2, <1>5, <1>9
  <1>11. spent' \in [requests : Nat, faults : Nat]
    BY <1>1, <1>2
  <1>12. Proceeds(t)
    BY <1>3, <1>7, <1>10, <1>11 DEF Proceeds
  <1>13. d \in Transactions
    <2>1. <<>> \in Some(Items, FileRows) /\ <<>> \in Some(Ids, StorageRows \cup {NoRow})
      BY EmptySome
    <2>2. NoDraft \in Transactions
      BY <2>1 DEF NoDraft, Transactions
    <2>3. Begun \in Transactions
      BY <2>1 DEF NoDraft, Begun, Transactions
    <2> QED
      BY <2>2, <2>3
  <1>14. draft' \in [Tasks -> Transactions] /\ draft'[t] = d /\ \A u \in Tasks \ {t} : draft'[u] = draft[u]
    BY <1>1, <1>2, <1>13
  <1>15. Moves(t)
    BY <1>1, <1>2, <1>14, StillMoves
  <1>16. BytesStay(t)
    BY <1>2 DEF BytesStay
  <1>17. Files(t)' = files /\ Rows(t)' = rows
    <2>1. DOMAIN draft'[t].files = {} /\ DOMAIN draft'[t].rows = {}
      BY <1>14, EmptySome DEF NoDraft, Begun
    <2>2. files \in [Items -> FileRows \cup {NoFile}] /\ rows \in [Ids -> StorageRows \cup {NoRow}]
      BY <1>1 DEF TablesTyped
    <2> QED
      BY <2>1, <2>2, <1>2, OverNothing DEF Files, Rows
  <1>18. Files(t) = files /\ Rows(t) = rows
    BY <1>1, <1>4, DirectView
  <1> QED
    BY <1>2, <1>3, <1>4, <1>7, <1>8, <1>9, <1>12, <1>14, <1>15, <1>16, <1>17, <1>18

\* ... provided that what the request is to know of the counts follows from the references.
LEMMA BeginKeeps ==
    ASSUME IInv, NEW t \in Tasks, NEW s \in Steps, NEW r \in Requests, NEW d \in {NoDraft, Begun},
           Begin(t, s, r, d), r.op # "scan", StepFits(t)', KeysFit(t)',
           s \notin {"raise", "lower", "delete_object"},
           Alone /\ s \in {"find_target", "merge", "retire", "rename_file"} => files[r.item] # NoFile,
           \A b \in Ids, n \in Int : n >= Cardinality(References(files, b)) => Covers(s, r, files, n, b)
    PROVE  IInv'
  <1>1. /\ Proceeds(t) /\ step'[t] = s /\ SameHands(req'[t], r) /\ req'[t].hash = r.hash
        /\ Concerned(t) = Contents(r) /\ req'[t].touched = Contents(r)
        /\ req[t] = NoReq /\ step[t] = "idle" /\ Moves(t) /\ BytesStay(t)
        /\ Files(t)' = files /\ Rows(t)' = rows /\ Files(t) = files /\ Rows(t) = rows
        /\ files' = files /\ rows' = rows /\ objects' = objects
    BY BeginFacts
  <1>2. /\ rows \in [Ids -> StorageRows \cup {NoRow}] /\ Counted
    BY DEF IInv, Typed, TablesTyped
  <1>3. HandsKnown(t)'
    BY <1>1, HandsNext
  <1>4. req[t].op # "scan" /\ req[t].touched = {}
    BY <1>1, NoReqTyped
  <1>5. AloneFits(t)'
    <2>1. ASSUME Alone, NEW b \in Ids, rows[b] # NoRow
          PROVE  rows[b].count >= Cardinality(References(files, b))
      <3>1. Exempt = {} /\ \A u \in Tasks : rows[b].hash \notin req[u].touched
        BY <2>1, <1>4 DEF Exempt, Alone
      <3> QED
        BY <2>1, <3>1, <1>2 DEF Counted
    <2> QED
      BY <2>1, <1>1 DEF AloneFits, SameHands, References, Live
  <1>6. ASSUME NEW b \in Ids, rows[b] # NoRow, rows[b].hash \in Concerned(t) \ Exempt'
        PROVE  CountFits(t, b)'
    <2>1. CountFits(t, b)
      BY <1>1, <1>4, <1>6, CountsKnown
    <2>2. rows[b].count >= Cardinality(References(files, b)) /\ rows[b].count \in Int
      BY <2>1, <1>1, <1>2, <1>6, IdleCovers DEF CountFits, CountsAs, StorageRows
    <2>3. CountsAs(s, r, files, rows, b)
      BY <2>2 DEF CountsAs
    <2>4. CountsAs(s, req'[t], files, rows, b)
      BY <2>3, <1>1, SameCounts
    <2> QED
      BY <2>4, <1>1 DEF CountFits, CountsAs, Covers, References, Live
  <1>7. ASSUME NEW b \in Ids, rows[b] # NoRow, rows[b].hash \in Concerned(t) \ disturbed'
        PROVE  KeyOf(rows[b]) \in objects
    BY <1>1, <1>7, BytesKnown DEF Missing
  <1>8. OwnFits(t)
    BY <1>1, <1>3, <1>5, <1>6, <1>7 DEF OwnFits
  <1> QED
    BY <1>1, <1>8, StepKeeps

-----------------------------------------------------------------------------
\* What has been read with the items still to do refers to them at that moment.
LEMMA BeginCovers ==
    ASSUME NEW s \in {"find", "find_linked", "next", "purge_object"}, NEW r \in Requests, NEW fs,
           NEW b \in Ids, NEW n \in Int, Entries(r, b) \subseteq References(fs, b),
           n >= Cardinality(References(fs, b))
    PROVE  Covers(s, r, fs, n, b)
  <1> DEFINE R == References(fs, b)
             E == Entries(r, b)
  <1>1. Leaving(s, r, b) = {} /\ Ahead(s, r, b) = 0
    BY DEF Leaving, Ahead
  <1>2. IsFiniteSet(R) /\ Cardinality(R) \in Nat /\ R \in SUBSET Items
    BY ReferencesFinite
  <1>3. IsFiniteSet(E) /\ Cardinality(E) \in Nat
    BY <1>2, FS_Subset, FS_CardinalityType
  <1>4. R \cap E = E
    OBVIOUS
  <1>5. Cardinality(R \ E) = Cardinality(R) - Cardinality(R \cap E)
    BY <1>2, <1>3, FS_Difference
  <1>6. R \ (E \cup Leaving(s, r, b)) = R \ E
    BY <1>1
  <1> HIDE DEF R, E
  <1>7. Cardinality(R \ E) + Cardinality(E) = Cardinality(R)
    <2>1. Cardinality(R \cap E) = Cardinality(E)
      BY <1>4
    <2> DEFINE m == Cardinality(R \ E)
               k == Cardinality(E)
               l == Cardinality(R)
    <2>2. m = l - k /\ k \in Nat /\ l \in Nat
      BY <1>2, <1>3, <1>5, <2>1
    <2> HIDE DEF m, k, l
    <2>3. m + k = l
      BY <2>2
    <2> QED
      BY <2>3 DEF m, k, l
  <1>8. n >= Cardinality(R \ E) + Cardinality(E) + Ahead(s, r, b)
    BY <1>1, <1>2, <1>7 DEF R
  <1> QED
    BY <1>6, <1>8 DEF Covers, R, E

\* The upload is known by its hash only.
LEMMA BeginUploadKeeps ==
    ASSUME IInv, NEW t \in Tasks, NEW p \in Places, NEW h \in Hashes, NEW e \in Expiries,
           BeginUpload(t, p, h, e)
    PROVE  IInv'
  <1> DEFINE r == [NoReq EXCEPT !.op = "upload", !.at = p, !.hash = h, !.expires = e]
  <1>1. Begin(t, "find", r, NoDraft)
    BY DEF BeginUpload
  <1>2. "find" \in Steps /\ NoDraft \in {NoDraft, Begun} /\ e \in BOOLEAN
    BY ExpiriesAssumption DEF Steps
  <1>3. r \in Requests
    BY <1>2, NoReqTyped DEF NoReq, Requests, Ops
  <1>4. /\ r.op = "upload" /\ r.at = p /\ r.hash = h /\ r.todo = NoReq.todo
    BY DEF NoReq
  <1> HIDE DEF r
  <1>5. /\ step'[t] = "find" /\ SameHands(req'[t], r) /\ req'[t].at = p /\ req'[t].hash = h
        /\ draft'[t] = NoDraft /\ req'[t].op = "upload" /\ req'[t].todo = NoReq.todo
    BY <1>1, <1>2, <1>3, <1>4, BeginFacts DEF SameHands
  <1>6. StepFits(t)'
    BY <1>4, <1>5, NoReqTyped DEF StepFits, NoDraft, BulkOps, LoopOps
  <1>7. KeysFit(t)'
    BY <1>5 DEF KeysFit
  <1>8. \A b \in Ids, n \in Int : n >= Cardinality(References(files, b)) => Covers("find", r, files, n, b)
    BY <1>3, <1>4, BeginCovers DEF Entries
  <1> QED
    BY <1>1, <1>2, <1>3, <1>4, <1>6, <1>7, <1>8, BeginKeeps

\* The link names a row that was there.
LEMMA BeginLinkKeeps ==
    ASSUME IInv, NEW t \in Tasks, NEW p \in Places, NEW c \in Ids, NEW e \in Expiries,
           BeginLink(t, p, c, e)
    PROVE  IInv'
  <1> DEFINE r == [NoReq EXCEPT !.op = "link", !.at = p, !.id = c, !.expires = e]
  <1>1. Begin(t, "find_linked", r, NoDraft)
    BY DEF BeginLink
  <1>2. "find_linked" \in Steps /\ NoDraft \in {NoDraft, Begun} /\ e \in BOOLEAN
    BY ExpiriesAssumption DEF Steps
  <1>3. r \in Requests
    BY <1>2, NoReqTyped DEF NoReq, Requests, Ops
  <1>4. /\ r.op = "link" /\ r.at = p /\ r.id = c /\ r.todo = NoReq.todo
    BY DEF NoReq
  <1> HIDE DEF r
  <1>5. /\ step'[t] = "find_linked" /\ SameHands(req'[t], r) /\ req'[t].at = p /\ req'[t].id = c
        /\ draft'[t] = NoDraft /\ req'[t].op = "link" /\ req'[t].todo = NoReq.todo
    BY <1>1, <1>2, <1>3, <1>4, BeginFacts DEF SameHands
  <1>6. StepFits(t)'
    BY <1>4, <1>5, NoReqTyped DEF StepFits, NoDraft, BulkOps, LoopOps
  <1>7. KeysFit(t)'
    BY <1>5 DEF KeysFit
  <1>8. \A b \in Ids, n \in Int : n >= Cardinality(References(files, b)) => Covers("find_linked", r, files, n, b)
    BY <1>3, <1>4, BeginCovers DEF Entries
  <1> QED
    BY <1>1, <1>2, <1>3, <1>4, <1>6, <1>7, <1>8, BeginKeeps

\* The purge has read the key of its row.
LEMMA BeginPurgeKeeps ==
    ASSUME IInv, NEW t \in Tasks, NEW c \in Ids, BeginPurge(t, c)
    PROVE  IInv'
  <1> DEFINE key == KeyOf(rows[c])
             r == [NoReq EXCEPT !.op = "purge", !.id = c, !.key = key]
  <1>1. Begin(t, "purge_object", r, NoDraft) /\ rows[c] # NoRow
    BY DEF BeginPurge
  <1>2. "purge_object" \in Steps /\ NoDraft \in {NoDraft, Begun}
    BY DEF Steps
  <1>3. /\ key \in Keys /\ key[1] = rows[c].hash /\ c # NoId
    BY <1>1, NullAssumption, ReqTyped DEF StorageRows, KeyOf, Keys
  <1>4. r \in Requests
    BY <1>3, NoReqTyped DEF NoReq, Requests, Ops
  <1>5. /\ r.op = "purge" /\ r.key = key /\ r.id = c /\ r.todo = NoReq.todo
    BY DEF NoReq
  <1> HIDE DEF r
  <1>6. /\ step'[t] = "purge_object" /\ SameHands(req'[t], r) /\ req'[t].key = key /\ req'[t].id = c
        /\ draft'[t] = NoDraft /\ req'[t].op = "purge" /\ req'[t].todo = NoReq.todo
        /\ req'[t].touched = Contents(r) /\ rows' = rows
    BY <1>1, <1>2, <1>4, <1>5, BeginFacts DEF SameHands
  <1>7. rows[c].hash \in Contents(r)
    BY <1>1, <1>3, <1>5 DEF Contents
  <1>8. StepFits(t)'
    BY <1>3, <1>6, <1>7, NoReqTyped DEF StepFits, NoDraft, BulkOps, LoopOps
  <1>9. KeysFit(t)'
    BY <1>1, <1>6 DEF KeysFit
  <1>10. \A b \in Ids, n \in Int : n >= Cardinality(References(files, b)) => Covers("purge_object", r, files, n, b)
    BY <1>4, <1>5, BeginCovers DEF Entries
  <1> QED
    BY <1>1, <1>2, <1>4, <1>5, <1>8, <1>9, <1>10, BeginKeeps

\* A request for several items, or a transaction.
LEMMA BeginLoop ==
    ASSUME IInv, NEW t \in Tasks, NEW r \in Requests, NEW d \in {NoDraft, Begun}, Begin(t, "next", r, d),
           r.op \in LoopOps, d = Begun <=> r.op \in BulkOps \cup {"delete_item"},
           r.op \in {"bulk_move", "bulk_copy"} => r.at \in Places,
           \A b \in Ids : Entries(r, b) \subseteq References(files, b)
    PROVE  IInv'
  <1>1. "next" \in Steps /\ r.op # "scan" /\ r.op # "none"
    BY DEF Steps, LoopOps, BulkOps
  <1>2. /\ step'[t] = "next" /\ SameHands(req'[t], r) /\ req'[t].at = r.at /\ draft'[t] = d
    BY <1>1, BeginFacts
  <1>3. req'[t].op = r.op /\ (draft'[t].open <=> d = Begun) /\ (~draft'[t].open => draft'[t] = NoDraft)
    BY <1>2 DEF SameHands, NoDraft, Begun
  <1>4. StepFits(t)'
    BY <1>1, <1>2, <1>3 DEF StepFits, LoopOps, BulkOps
  <1>5. KeysFit(t)'
    BY <1>2 DEF KeysFit
  <1>6. \A b \in Ids, n \in Int : n >= Cardinality(References(files, b)) => Covers("next", r, files, n, b)
    BY BeginCovers
  <1> QED
    BY <1>1, <1>4, <1>5, <1>6, BeginKeeps

\* The storage ids read with the items.
LEMMA BlobsRead ==
    ASSUME IInv, NEW D \in SUBSET Items, \A i \in D : files[i] # NoFile
    PROVE  /\ [i \in D |-> files[i].blob] \in Some(Items, Ids \cup {NoId})
           /\ DOMAIN [i \in D |-> files[i].blob] = D
  <1>1. \A i \in D : files[i].blob \in Ids \cup {NoId}
    BY DEF IInv, Typed, TablesTyped, FileRows
  <1>2. [i \in D |-> files[i].blob] \in [D -> Ids \cup {NoId}]
    BY <1>1
  <1> QED
    BY <1>2, SomeIntro

\* A deletion has read its item.
LEMMA BeginDeleteItemKeeps ==
    ASSUME IInv, NEW t \in Tasks, NEW i \in Items, BeginDeleteItem(t, i)
    PROVE  IInv'
  <1> DEFINE todo == Row(i, files[i].blob)
             r == [NoReq EXCEPT !.op = "delete_item", !.todo = todo]
  <1>1. Begin(t, "next", r, Begun) /\ Live(files, i)
    BY DEF BeginDeleteItem
  <1>2. files[i].blob \in Ids \cup {NoId}
    BY <1>1 DEF Live, IInv, Typed, TablesTyped, FileRows
  <1>3. todo \in Some(Items, Ids \cup {NoId}) /\ DOMAIN todo = {i} /\ todo[i] = files[i].blob
    <2>1. Row(i, files[i].blob) \in Some(Items, Ids \cup {NoId})
      BY <1>2, RowFacts
    <2> QED
      BY <2>1 DEF Row
  <1> HIDE DEF todo
  <1>4. r \in Requests
    BY <1>3, NoReqTyped DEF NoReq, Requests, Ops
  <1>5. r.op = "delete_item" /\ r.todo = todo
    BY DEF NoReq
  <1> HIDE DEF r
  <1>6. \A b \in Ids : Entries(r, b) \subseteq References(files, b)
    BY <1>1, <1>3, <1>5 DEF Entries, References
  <1>7. Begun \in {NoDraft, Begun} /\ r.op \in LoopOps
    BY <1>5 DEF LoopOps
  <1> QED
    BY <1>1, <1>4, <1>5, <1>6, <1>7, BeginLoop

\* The worker has read its batch.
LEMMA BeginExpireKeeps ==
    ASSUME IInv, NEW t \in Tasks, BeginExpire(t)
    PROVE  IInv'
  <1> DEFINE due == {i \in Items : Live(files, i) /\ files[i].expires}
             todo == [i \in due |-> files[i].blob]
             r == [NoReq EXCEPT !.op = "expire", !.todo = todo]
  <1>1. Begin(t, "next", r, NoDraft)
    BY DEF BeginExpire
  <1>2. due \in SUBSET Items /\ \A i \in due : files[i] # NoFile /\ Live(files, i)
    BY DEF Live
  <1>3. todo \in Some(Items, Ids \cup {NoId}) /\ DOMAIN todo = due /\ \A i \in due : todo[i] = files[i].blob
    <2> HIDE DEF due
    <2> QED
      BY <1>2, BlobsRead
  <1> HIDE DEF todo, due
  <1>4. r \in Requests
    BY <1>3, NoReqTyped DEF NoReq, Requests, Ops
  <1>5. r.op = "expire" /\ r.todo = todo
    BY DEF NoReq
  <1> HIDE DEF r
  <1>6. \A b \in Ids : Entries(r, b) \subseteq References(files, b)
    BY <1>2, <1>3, <1>5 DEF Entries, References
  <1>7. NoDraft \in {NoDraft, Begun} /\ r.op \in LoopOps /\ NoDraft # Begun
    BY <1>5 DEF LoopOps, NoDraft, Begun
  <1>8. r.op \notin BulkOps \cup {"delete_item"}
    BY <1>5 DEF BulkOps
  <1> QED
    BY <1>1, <1>4, <1>5, <1>6, <1>7, <1>8, BeginLoop

\* A bulk operation has its items, and the lock of its user.
LEMMA BeginBulkKeeps ==
    ASSUME IInv, NEW t \in Tasks, NEW op \in BulkOps, NEW u \in Users, NEW D, NEW p \in Places \cup {NoPlace},
           op # "bulk_delete" => p \in Places, BeginBulk(t, op, u, D, p)
    PROVE  IInv'
  <1> DEFINE todo == [i \in D |-> files[i].blob]
             r == [NoReq EXCEPT !.op = op, !.lock = u, !.at = p, !.todo = todo]
  <1>1. Begin(t, "next", r, Begun) /\ D \in SUBSET Items /\ \A i \in D : files[i] # NoFile
    BY DEF BeginBulk, OwnedBy
  <1>2. todo \in Some(Items, Ids \cup {NoId})
    BY <1>1, BlobsRead
  <1> HIDE DEF todo
  <1>3. op \in Ops \cup {"none"} /\ op \in LoopOps
    BY DEF Ops, LoopOps
  <1>4. r \in Requests
    BY <1>2, <1>3, NoReqTyped DEF NoReq, Requests
  <1>5. r.op = op /\ r.at = p
    BY DEF NoReq
  <1> HIDE DEF r
  <1>6. \A b \in Ids : Entries(r, b) \subseteq References(files, b)
    BY <1>5 DEF Entries, BulkOps
  <1>7. Begun \in {NoDraft, Begun} /\ r.op \in LoopOps
    BY <1>3, <1>5
  <1>8. r.op \in {"bulk_move", "bulk_copy"} => r.at \in Places
    BY <1>5
  <1> QED
    BY <1>1, <1>4, <1>5, <1>6, <1>7, <1>8, BeginLoop

\* A rename is to take its own reference from its content.
LEMMA BeginRenameKeeps ==
    ASSUME IInv, NEW t \in Tasks, NEW i \in Items, NEW p \in Places, BeginRename(t, i, p)
    PROVE  IInv'
  <1> DEFINE c == files[i].blob
             r == [NoReq EXCEPT !.op = "rename", !.at = p, !.item = i, !.id = c]
  <1>1. Begin(t, "find_target", r, NoDraft) /\ Live(files, i)
    BY DEF BeginRename
  <1>2. "find_target" \in Steps /\ NoDraft \in {NoDraft, Begun} /\ c \in Ids \cup {NoId}
    BY <1>1 DEF Steps, Live, IInv, Typed, TablesTyped, FileRows
  <1>3. r \in Requests
    BY <1>2, NoReqTyped DEF NoReq, Requests, Ops
  <1>4. /\ r.op = "rename" /\ r.at = p /\ r.item = i /\ r.id = c /\ r.todo = NoReq.todo /\ r.old = NoId
    BY DEF NoReq
  <1> HIDE DEF r
  <1>5. /\ step'[t] = "find_target" /\ SameHands(req'[t], r) /\ req'[t].at = p /\ req'[t].item = i
        /\ draft'[t] = NoDraft /\ req'[t].op = "rename" /\ req'[t].todo = NoReq.todo
    BY <1>1, <1>2, <1>3, <1>4, BeginFacts DEF SameHands
  <1>6. StepFits(t)'
    BY <1>4, <1>5, NoReqTyped DEF StepFits, NoDraft, BulkOps, LoopOps
  <1>7. KeysFit(t)'
    BY <1>5 DEF KeysFit
  <1>8. ASSUME NEW b \in Ids, NEW n \in Int, n >= Cardinality(References(files, b))
        PROVE  Covers("find_target", r, files, n, b)
    <2> DEFINE R == References(files, b)
    <2>1. R \in SUBSET Items /\ Cardinality(R) \in Nat
      BY ReferencesFinite
    <2>2. CASE c = b
      <3>1. Leaving("find_target", r, b) = {i} /\ Ahead("find_target", r, b) = 1
        BY <2>2, <1>4 DEF Leaving, Ahead
      <3>2. i \in R
        BY <2>2, <1>1 DEF References
      <3>3. Cardinality(R) = Cardinality(R \ {i}) + 1 /\ Cardinality(R \ {i}) \in Nat
        BY <2>1, <3>2, CardOne
      <3> HIDE DEF R
      <3>4. n >= Cardinality(R \ {i}) + 1
        BY <1>8, <3>3 DEF R
      <3> QED
        BY <3>1, <3>4, <1>4, PlainCovers DEF R
    <2>3. CASE c # b
      <3>1. Leaving("find_target", r, b) = {} /\ Ahead("find_target", r, b) = 0
        BY <2>3, <1>4 DEF Leaving, Ahead
      <3>2. R \ {} = R
        OBVIOUS
      <3> HIDE DEF R
      <3>3. n >= Cardinality(R \ {}) + 0
        BY <1>8, <2>1, <3>2 DEF R
      <3> QED
        BY <3>1, <3>3, <1>4, PlainCovers DEF R
    <2> QED
      BY <2>2, <2>3
  <1>9. files[r.item] # NoFile
    BY <1>1, <1>4 DEF Live
  <1> QED
    BY <1>1, <1>2, <1>3, <1>4, <1>6, <1>7, <1>8, <1>9, BeginKeeps

\* A scan has nothing in hand.
LEMMA BeginReportKeeps ==
    ASSUME IInv, NEW t \in Tasks, NEW c \in Ids, BeginReport(t, c)
    PROVE  IInv'
  <1> DEFINE r == [NoReq EXCEPT !.op = "scan", !.id = c]
  <1>1. Begin(t, "report", r, NoDraft)
    BY DEF BeginReport
  <1>2. "report" \in Steps /\ NoDraft \in {NoDraft, Begun}
    BY DEF Steps
  <1>3. r \in Requests
    BY NoReqTyped DEF NoReq, Requests, Ops
  <1>4. /\ r.op = "scan" /\ r.id = c /\ r.todo = NoReq.todo /\ Contents(r) = {}
    BY DEF NoReq, Contents
  <1> HIDE DEF r
  <1>5. /\ step'[t] = "report" /\ req'[t].id = c /\ req'[t].touched = {} /\ Concerned(t) = {}
        /\ draft'[t] = NoDraft /\ req'[t].op = "scan" /\ req'[t].todo = NoReq.todo
        /\ Proceeds(t) /\ Moves(t) /\ BytesStay(t)
        /\ req[t].op = "none" /\ Files(t)' = files /\ files' = files /\ rows' = rows
    BY <1>1, <1>2, <1>3, <1>4, BeginFacts, NoReqTyped DEF SameHands
  <1>6. StepFits(t)'
    BY <1>4, <1>5, NoReqTyped DEF StepFits, NoDraft, BulkOps, LoopOps
  <1>7. KeysFit(t)'
    BY <1>5 DEF KeysFit
  <1>8. HandsKnown(t)'
    BY <1>5 DEF HandsKnown, Contents
  <1>9. AloneFits(t)'
    BY <1>5 DEF AloneFits, NoDraft
  <1>10. OwnFits(t)
    BY <1>5, <1>6, <1>7, <1>8, <1>9 DEF OwnFits
  <1> QED
    BY <1>5, <1>10, StepKeeps

-----------------------------------------------------------------------------
\* The inductive invariant.
LEMMA InitIInv == Init => IInv
  <1> SUFFICES ASSUME Init
               PROVE  IInv
    OBVIOUS
  <1>1. /\ files = [i \in Items |-> NoFile] /\ rows = [b \in Ids |-> NoRow] /\ objects = {}
        /\ draft = [t \in Tasks |-> NoDraft] /\ step = [t \in Tasks |-> "idle"]
        /\ req = [t \in Tasks |-> NoReq] /\ spent = [requests |-> 0, faults |-> 0] /\ disturbed = {}
    BY DEF Init
  <1>2. <<>> \in Some(Items, FileRows) /\ <<>> \in Some(Ids, StorageRows \cup {NoRow})
    BY EmptySome
  <1>3. NoDraft \in Transactions
    BY <1>2 DEF NoDraft, Transactions
  <1>4. Typed
    <2>1. TablesTyped
      BY <1>1, <1>3 DEF TablesTyped
    <2>2. "idle" \in Steps
      BY DEF Steps
    <2> QED
      BY <1>1, <2>1, <2>2, NoReqTyped DEF Typed
  <1>5. \A t \in Tasks : StepFits(t) /\ HandsKnown(t) /\ KeysFit(t) /\ AloneFits(t)
    <2> SUFFICES ASSUME NEW t \in Tasks
                 PROVE  StepFits(t) /\ HandsKnown(t) /\ KeysFit(t) /\ AloneFits(t)
      OBVIOUS
    <2>1. step[t] = "idle" /\ req[t] = NoReq /\ draft[t] = NoDraft /\ ~draft[t].open
      BY <1>1 DEF NoDraft
    <2>2. StepFits(t)
      BY <2>1, NoReqTyped DEF StepFits, BulkOps
    <2>3. HandsKnown(t)
      BY <2>1, NoReqTyped DEF HandsKnown
    <2>4. KeysFit(t) /\ AloneFits(t)
      BY <2>1 DEF KeysFit, AloneFits
    <2> QED
      BY <2>2, <2>3, <2>4
  <1>6. \A t \in Tasks : DOMAIN draft[t].files = {} /\ DOMAIN draft[t].rows = {}
    BY <1>1, EmptySome DEF NoDraft
  <1>7. \A t \in Tasks : DraftFits(t)
    BY <1>6 DEF DraftFits, DraftKnown
  <1>8. MeetingsRecorded
    BY <1>1, NoReqTyped DEF MeetingsRecorded
  <1>9. OneRowPerHash /\ Linked
    BY <1>1, <1>6 DEF OneRowPerHash, Linked
  <1>10. Counted /\ BytesKept
    BY <1>1 DEF Counted, BytesKept
  <1> QED
    BY <1>4, <1>5, <1>7, <1>8, <1>9, <1>10 DEF IInv

\* Nothing else happens.
LEMMA StutterIInv ==
    ASSUME IInv, UNCHANGED vars
    PROVE  IInv'
  <1>1. /\ files' = files /\ rows' = rows /\ objects' = objects /\ draft' = draft /\ step' = step
        /\ req' = req /\ spent' = spent /\ disturbed' = disturbed
    BY DEF vars
  <1>2. Typed' /\ OneRowPerHash' /\ Linked' /\ MeetingsRecorded'
    BY <1>1 DEF IInv, Typed, TablesTyped, OneRowPerHash, Linked, MeetingsRecorded
  <1>3. \A t \in Tasks : StepFits(t)' /\ HandsKnown(t)' /\ KeysFit(t)'
    BY <1>1 DEF IInv, StepFits, HandsKnown, KeysFit, Contents, Exempt
  <1>4. \A t \in Tasks : DraftFits(t)' /\ AloneFits(t)'
    BY <1>1 DEF IInv, DraftFits, DraftKnown, AloneFits, References, Live
  <1>5. \A t \in Tasks : Files(t)' = Files(t) /\ Rows(t)' = Rows(t)
    BY <1>1 DEF Files, Rows
  <1>6. \A t \in Tasks, b \in Ids : CountFits(t, b) => CountFits(t, b)'
    <2> SUFFICES ASSUME NEW t \in Tasks, NEW b \in Ids, CountFits(t, b)
                 PROVE  CountFits(t, b)'
      OBVIOUS
    <2>1. Files(t)' = Files(t) /\ Rows(t)' = Rows(t) /\ step'[t] = step[t] /\ req'[t] = req[t]
      BY <1>1, <1>5
    <2>2. CountsAs(step'[t], req'[t], Files(t)', Rows(t)', b)
      BY <2>1 DEF CountFits
    <2> QED
      BY <2>2 DEF CountFits, CountsAs, Covers, References, Live
  <1>7. Counted'
    BY <1>1, <1>6 DEF IInv, Counted, Exempt, References, Live
  <1>8. BytesKept'
    BY <1>1, <1>5 DEF IInv, BytesKept, Missing, KeyOf
  <1> QED
    BY <1>2, <1>3, <1>4, <1>7, <1>8 DEF IInv

\* Any request arrives.
LEMMA ArriveKeeps ==
    ASSUME IInv, NEW t \in Tasks, Arrive(t)
    PROVE  IInv'
  <1>1. ASSUME NEW p \in Places, NEW h \in Hashes, NEW e \in Expiries, BeginUpload(t, p, h, e)
        PROVE  IInv'
    BY <1>1, BeginUploadKeeps
  <1>2. ASSUME NEW p \in Places, NEW b \in Ids, NEW e \in Expiries, BeginLink(t, p, b, e)
        PROVE  IInv'
    BY <1>2, BeginLinkKeeps
  <1>3. ASSUME NEW i \in Items, BeginDeleteItem(t, i)
        PROVE  IInv'
    BY <1>3, BeginDeleteItemKeeps
  <1>4. ASSUME NEW u \in Users, NEW D, BeginBulk(t, "bulk_delete", u, D, NoPlace)
        PROVE  IInv'
    <2>1. "bulk_delete" \in BulkOps /\ NoPlace \in Places \cup {NoPlace}
      BY DEF BulkOps
    <2> QED
      BY <1>4, <2>1, BeginBulkKeeps
  <1>5. ASSUME NEW p \in Places, NEW op \in {"bulk_move", "bulk_copy"}, NEW D, BeginBulk(t, op, p.user, D, p)
        PROVE  IInv'
    <2>1. op \in BulkOps /\ p \in Places \cup {NoPlace} /\ p.user \in Users
      BY DEF BulkOps, Places
    <2> QED
      BY <1>5, <2>1, BeginBulkKeeps
  <1>6. CASE BeginExpire(t)
    BY <1>6, BeginExpireKeeps
  <1>7. ASSUME NEW i \in Items, NEW p \in Places, BeginRename(t, i, p)
        PROVE  IInv'
    BY <1>7, BeginRenameKeeps
  <1>8. ASSUME NEW b \in Ids, BeginReport(t, b)
        PROVE  IInv'
    BY <1>8, BeginReportKeeps
  <1>9. ASSUME NEW b \in Ids, BeginPurge(t, b)
        PROVE  IInv'
    BY <1>9, BeginPurgeKeeps
  <1> QED
    BY <1>1, <1>2, <1>3, <1>4, <1>5, <1>6, <1>7, <1>8, <1>9 DEF Arrive

\* Any statement runs.
LEMMA WorkKeeps ==
    ASSUME IInv, NEW t \in Tasks, Work(t)
    PROVE  IInv'
  <1>1. CASE FindContent(t) \/ FindLinked(t) \/ StoreObject(t) \/ InsertRow(t) \/ Refind(t) \/ Raise(t)
    BY <1>1, FindContentKeeps, FindLinkedKeeps, StoreObjectKeeps, InsertRowKeeps, RefindKeeps, RaiseKeeps
  <1>2. CASE FindFile(t) \/ UpdateFile(t) \/ InsertFile(t)
    BY <1>2, FindFileKeeps, UpdateFileKeeps, InsertFileKeeps
  <1>3. CASE ReadCount(t) \/ Lower(t) \/ DeleteObject(t) \/ DeleteRow(t)
    BY <1>3, ReadCountKeeps, LowerKeeps, DeleteObjectKeeps, DeleteRowKeeps
  <1>4. CASE NextItem(t) \/ Commit(t) \/ SoftDelete(t) \/ InsertCopy(t) \/ CopyCount(t) \/ MoveFile(t)
    BY <1>4, NextItemKeeps, CommitKeeps, SoftDeleteKeeps, InsertCopyKeeps, CopyCountKeeps, MoveFileKeeps
  <1>5. CASE FindTarget(t) \/ MergeInto(t) \/ Retire(t) \/ RenameFile(t)
    BY <1>5, FindTargetKeeps, MergeIntoKeeps, RetireKeeps, RenameFileKeeps
  <1>6. CASE Report(t) \/ PurgeObject(t) \/ PurgeFiles(t) \/ PurgeRow(t)
    BY <1>6, ReportKeeps, PurgeObjectKeeps, PurgeFilesKeeps, PurgeRowKeeps
  <1> QED
    BY <1>1, <1>2, <1>3, <1>4, <1>5, <1>6 DEF Work

\* Any step keeps the invariant.
LEMMA NextIInv == IInv /\ [Next]_vars => IInv'
  <1> SUFFICES ASSUME IInv, [Next]_vars
               PROVE  IInv'
    OBVIOUS
  <1>1. ASSUME NEW t \in Tasks, Arrive(t) \/ Work(t) \/ AbortDeadlocked(t) \/ Fail(t)
        PROVE  IInv'
    BY <1>1, ArriveKeeps, WorkKeeps, AbortDeadlockedKeeps, FailKeeps
  <1>2. CASE UNCHANGED vars
    BY <1>2, StutterIInv
  <1> QED
    BY <1>1, <1>2 DEF Next

\* The counts, the foreign key, the locks and the local variables of every request fit
\* together in every state (file_service, cleanup and bulk handlers of the API).
THEOREM StorageTasksInvariant == Spec => []IInv
  BY InitIInv, NextIInv, PTL DEF Spec

-----------------------------------------------------------------------------
\* An object is deleted for its last reference, unless requests met on its content.
DeletesUnreferenced ==
    \A t \in Tasks : step[t] = "delete_object" /\ req[t].key[1] \notin Exempt =>
        ~\E i \in Items : /\ Live(Files(t), i) /\ Files(t)[i].blob # NoId
                          /\ KeyOf(Rows(t)[Files(t)[i].blob]) = req[t].key

\* A content whose count is used up has no reference left.
LEMMA Unreferenced == IInv => DeletesUnreferenced
  <1> SUFFICES ASSUME IInv, NEW t \in Tasks, step[t] = "delete_object", req[t].key[1] \notin Exempt,
                      NEW i \in Items, Live(Files(t), i), Files(t)[i].blob # NoId,
                      KeyOf(Rows(t)[Files(t)[i].blob]) = req[t].key
               PROVE  FALSE
    BY DEF DeletesUnreferenced
  <1> DEFINE b == req[t].id
             c == Files(t)[i].blob
  <1>1. /\ b \in Ids /\ req[t].key[1] \in req[t].touched /\ req[t] \in Requests
        /\ rows[b] # NoRow /\ KeyOf(rows[b]) = req[t].key
        /\ Files(t) \in [Items -> FileRows \cup {NoFile}] /\ Rows(t) \in [Ids -> StorageRows \cup {NoRow}]
        /\ OneRowPerHash /\ Counted
    BY ReqTyped, ViewFacts DEF IInv, StepFits, KeysFit
  <1>2. c \in Ids
    BY <1>1 DEF Live, FileRows
  <1>3. Rows(t)[c] # NoRow
    BY ViewLinked DEF Live
  <1>4. rows[c] # NoRow /\ KeyOf(Rows(t)[c]) = KeyOf(rows[c])
    BY <1>2, <1>3, RowBehind
  <1>5. rows[c].hash = rows[b].hash /\ rows[b].hash = req[t].key[1]
    BY <1>1, <1>4 DEF KeyOf
  <1>6. c = b
    BY <1>1, <1>2, <1>4, <1>5 DEF OneRowPerHash
  <1>7. CountFits(t, b)
    BY <1>1, <1>5 DEF Counted
  <1>8. /\ Covers("delete_object", req[t], Files(t), Rows(t)[b].count, b) /\ Rows(t)[b].count <= 0
        /\ Rows(t)[b].count \in Int
    BY <1>1, <1>3, <1>6, <1>7, CountTyped DEF CountFits, CountsAs
  <1> DEFINE R == References(Files(t), b)
             E == Entries(req[t], b)
  <1>9. Leaving("delete_object", req[t], b) = {} /\ Ahead("delete_object", req[t], b) = 0
    BY DEF Leaving, Ahead
  <1>10. i \in R /\ R \in SUBSET Items /\ E \in SUBSET Items
    BY <1>6, ReferencesFinite, HandIds, <1>1 DEF References, Entries
  <1>11. R \ (E \cup Leaving("delete_object", req[t], b)) = R \ E
    BY <1>9
  <1> HIDE DEF R, E, b, c
  <1>12. Rows(t)[b].count >= Cardinality(R \ E) + Cardinality(E) + 0
    BY <1>8, <1>9, <1>11 DEF Covers, R, E
  <1>13. Cardinality(R \ E) \in Nat /\ Cardinality(E) \in Nat
    BY <1>10, CardMono
  <1>14. CASE i \in E
    <2>1. Cardinality(E) = Cardinality(E \ {i}) + 1 /\ Cardinality(E \ {i}) \in Nat
      BY <1>10, <1>14, CardOne
    <2> QED
      BY <1>8, <1>12, <1>13, <2>1
  <1>15. CASE i \in R \ E
    <2>1. Cardinality(R \ E) = Cardinality((R \ E) \ {i}) + 1 /\ Cardinality((R \ E) \ {i}) \in Nat
      BY <1>10, <1>15, CardOne
    <2> QED
      BY <1>8, <1>12, <1>13, <2>1
  <1> QED
    BY <1>10, <1>14, <1>15

\* An object is deleted only for the last live reference to it, as the request counts, unless
\* two requests, or one that failed, had its content in hand (decrement_ref_count).
THEOREM StorageTasksDeletesUnreferenced == Spec => []DeletesUnreferenced
  BY StorageTasksInvariant, Unreferenced, PTL

\* The type invariant follows.
LEMMA TypesKept == IInv => TypeOK
  <1> SUFFICES ASSUME IInv
               PROVE  TypeOK
    OBVIOUS
  <1>1. TablesTyped /\ step \in [Tasks -> Steps] /\ disturbed \subseteq Hashes
    BY DEF IInv, Typed
  <1>2. ASSUME NEW t \in Tasks
        PROVE  /\ DOMAIN draft[t].files \subseteq Items /\ DOMAIN draft[t].rows \subseteq Ids
               /\ \A i \in DOMAIN draft[t].files : draft[t].files[i] \in FileRows
               /\ \A b \in DOMAIN draft[t].rows : draft[t].rows[b] \in StorageRows \cup {NoRow}
    BY <1>1, ViewFacts
  <1>3. ASSUME NEW t \in Tasks
        PROVE  /\ req[t].op = "none" <=> step[t] = "idle"
               /\ draft[t].open => req[t].op \in BulkOps \cup {"delete_item"}
               /\ ~draft[t].open => draft[t] = NoDraft
    BY DEF IInv, StepFits
  <1> QED
    BY <1>1, <1>2, <1>3 DEF TypeOK, TablesTyped

\* The tables, the transactions and the local variables are well formed in every state.
THEOREM StorageTasksTypes == Spec => []TypeOK
  BY StorageTasksInvariant, TypesKept, PTL

\* Requests that have the server for themselves, one after the other, delete no object that a
\* live file refers to (ARCHITECTURE.md, rule 5), whatever becomes of them.
THEOREM StorageTasksKept ==
    ASSUME MaxFaults = 0, \A t, u \in Tasks : t = u
    PROVE  Spec => []StorageKept
  <1>1. IInv => StorageKept
    BY Unreferenced, TypesKept DEF StorageKept, SharedStorageKept, DeletesUnreferenced, Exempt, Alone
  <1> QED
    BY <1>1, StorageTasksInvariant, PTL

\* Overlapping and failing requests spoil the counts and objects only of contents that two of
\* them, or one that failed, had in hand: every other content has its object, and counts at
\* least its live references.
THEOREM StorageTasksConfined == Spec => []InterferenceConfined
  <1>1. IInv => InterferenceConfined
    <2> SUFFICES ASSUME IInv, NEW b \in Ids, rows[b] # NoRow, rows[b].hash \notin disturbed,
                        \A t \in Tasks : rows[b].hash \notin req[t].touched
                 PROVE  Sound(b)
      BY DEF InterferenceConfined
    <2>1. rows[b].hash \notin Exempt
      BY DEF Exempt
    <2>2. rows[b].count >= Cardinality(References(files, b))
      BY <2>1 DEF IInv, Counted
    <2>3. ASSUME NEW t \in Tasks, Missing(t, b)
          PROVE  FALSE
      <3>1. /\ StepFits(t) /\ DraftFits(t)
            /\ \A c \in Ids \ DOMAIN draft[t].rows : Rows(t)[c] = rows[c]
        BY ViewFacts DEF IInv, Typed
      <3>2. CASE Rows(t)[b] = NoRow
        BY <3>1, <3>2 DEF DraftFits, DraftKnown
      <3>3. CASE req[t].id = b /\ step[t] \in {"delete_row", "purge_files", "purge_row"}
        <4>1. req[t].op # "scan"
          BY <3>1, <3>3 DEF StepFits, LoopOps, BulkOps
        <4> QED
          BY <3>3, <4>1, HandTouched
      <3> QED
        BY <2>3, <3>2, <3>3 DEF Missing
    <2>4. KeyOf(rows[b]) \in objects
      BY <2>3 DEF IInv, BytesKept
    <2> QED
      BY <2>2, <2>4 DEF Sound
  <1> QED
    BY <1>1, StorageTasksInvariant, PTL
=============================================================================
