----------------------------- MODULE UploadQueue -----------------------------
(***************************************************************************)
(* Uploads in the browser: onUpload, cancelUpload and the resumption of    *)
(* web/src/features/dashboard/hooks/useFileUpload.ts, with the chunks of   *)
(* services/uploadService.ts and the IndexedDB of services/uploadDb.ts.    *)
(*                                                                         *)
(* Every drop of files has a queue, a cache of folders and up to           *)
(* CONCURRENCY workers that share them; all drops share the list of rows   *)
(* on the screen and the one dialog that asks before a file is replaced.   *)
(* A step is what runs between two awaits.  A large file is kept in        *)
(* IndexedDB, sent in parts and resumed, after the page was reloaded, by   *)
(* the worker of ResumeDrop.  A request may fail before or after the       *)
(* server has done its work.                                               *)
(*                                                                         *)
(* The server is what its answers show: create_folder always makes a new   *)
(* folder, an upload replaces the file of its name and folder, and a       *)
(* session is pending, completed or aborted (see UploadSession).           *)
(***************************************************************************)
EXTENDS Naturals, FiniteSets, Sequences

CONSTANTS
    Drops,        \* calls of onUpload, numbers above 0
    Items,        \* the files the user may drop
    PathOf,       \* per file: the folders above it, a sequence of names
    NameOf,       \* per file: its name
    ContentOf,    \* per file: its content
    Large,        \* files above the THRESHOLD of the chunked upload
    Selections,   \* what is dropped: [drops: per drop a sequence of files, stored: files in the root
                  \* before, and how many faults, reloads and cancels there may be]
    Parts,        \* part numbers of a large file
    CONCURRENCY,
    MAX_RETRIES,
    Nobody        \* neither a file nor a worker

Root == 0         \* the folder everything is dropped into
ResumeDrop == 0   \* stands for resumePendingUploads among the drops

FolderNames == UNION {{PathOf[i][n] : n \in DOMAIN PathOf[i]} : i \in Items}

ASSUME DropsAssumption == Drops \subseteq Nat \ {0}
ASSUME BoundAssumption == {CONCURRENCY, MAX_RETRIES} \subseteq Nat
ASSUME ItemsAssumption ==
    /\ IsFiniteSet(Items) /\ Large \subseteq Items
    /\ PathOf \in [Items -> Seq(FolderNames)]

\* A file on the server shows by its name and content where it was dropped.
ASSUME ContentAssumption ==
    \A i, j \in Items : ContentOf[i] = ContentOf[j] /\ NameOf[i] = NameOf[j] => PathOf[i] = PathOf[j]

\* A large file has one upload session: to drop it twice is to drop two files.
ASSUME SelectionsAssumption ==
    \A s \in Selections :
        /\ s.drops \in [Drops -> Seq(Items)]
        /\ \A d, e \in Drops : \A m \in DOMAIN s.drops[d], n \in DOMAIN s.drops[e] :
             s.drops[d][m] = s.drops[e][n] /\ s.drops[d][m] \in Large => d = e /\ m = n
        /\ \A p \in DOMAIN s.stored :
             /\ p = <<Root, p[2]>>
             /\ \A i \in Items : s.stored[p] = ContentOf[i] /\ NameOf[i] = p[2] => PathOf[i] = <<>>
        /\ {s.faults, s.reloads, s.cancels} \subseteq Nat

VARIABLES
    todo,      \* per drop: its uploadQueue
    phase,     \* per drop: "new", "running" or "swept"
    cache,     \* per drop: its folderCache, from paths to folders
    work,      \* per worker: where it is
    dialog,    \* overwriteConfirm: the worker whose question is shown
    rows,      \* activeUploads: per row its status and upload session
    listing,   \* currentFilesRef: the root's files as last read
    folders,   \* server: the folders made, with the drop that made them
    stored,    \* server: per folder and name, the content
    session,   \* server: per large file, its upload session
    metas,     \* IndexedDB: sessions whose metadata is stored
    chunks,    \* IndexedDB: sessions whose data is stored
    job,       \* per large file: what is left to send
    doubled,   \* history: paths that a drop made twice at once, or knew nothing of having made
    clobbered, \* history: workers whose question was replaced by another
    cancelled, \* history: rows the user removed
    faults, reloads, cancels  \* how many there may still be

screen == <<dialog, rows, listing>>
queues == <<todo, phase, cache>>
server == <<folders, stored, session>>
indexedDB == <<metas, chunks>>
history == <<doubled, clobbered, cancelled>>
tally == <<faults, reloads, cancels>>
vars == <<queues, work, screen, server, indexedDB, job, history, tally>>

-----------------------------------------------------------------------------
Paths == UNION {{SubSeq(PathOf[i], 1, n) : n \in 0 .. Len(PathOf[i])} : i \in Items}
Workers(d) == {d} \X (1 .. IF d = ResumeDrop THEN 1 ELSE CONCURRENCY)
Queues == Drops \cup {ResumeDrop}
Agents == UNION {Workers(d) : d \in Queues}
ASSUME NullAssumption == Nobody \notin Items \cup Agents

Idle == [pc |-> "off", item |-> Nobody, depth |-> 0, folder |-> Root]
NoJob == [on |-> FALSE, open |-> {}, tries |-> [p \in Parts |-> 0], failed |-> FALSE]
NoSession == [state |-> "none", parts |-> {}, folder |-> Root]

Steps == {"off", "folders", "creating", "listing", "hashing", "asking", "uploading",
          "saving", "savingChunks", "sending", "completing", "cleaning", "done"}
Statuses == {"queued", "hashing", "processing", "uploading", "completed", "error"}

TypeOK ==
    /\ \A d \in Queues : \A n \in DOMAIN todo[d] : todo[d][n] \in Items
    /\ \A d \in Queues : phase[d] \in {"new", "running", "swept"}
    /\ \A d \in Queues : DOMAIN cache[d] \subseteq Paths /\ \A p \in DOMAIN cache[d] : cache[d][p] \in DOMAIN folders
    /\ \A w \in Agents :
         /\ work[w].pc \in Steps
         /\ (work[w].item = Nobody) = (work[w].pc \in {"off", "done"})
         /\ work[w].folder \in DOMAIN folders \cup {Root}
    /\ dialog \in Agents \cup {Nobody} /\ (dialog # Nobody => work[dialog].pc = "asking")
    /\ DOMAIN rows \subseteq Items
    /\ \A i \in DOMAIN rows : rows[i].status \in Statuses /\ rows[i].session \in Large \cup {Nobody}
    /\ \A i \in Large : session[i].state \in {"none", "pending", "completed", "aborted"}
    /\ \A i \in Large : session[i].state = "completed" => session[i].parts = Parts
    /\ metas \subseteq Large /\ chunks \subseteq Large
    /\ {faults, reloads, cancels} \subseteq Nat

\* The root has been read when the user drops files into it.
Init ==
    /\ \E s \in Selections :
         /\ todo = [d \in Queues |-> IF d = ResumeDrop THEN <<>> ELSE s.drops[d]]
         /\ phase = [d \in Queues |-> IF d = ResumeDrop THEN "swept" ELSE "new"]
         /\ stored = s.stored
         /\ faults = s.faults /\ reloads = s.reloads /\ cancels = s.cancels
    /\ cache = [d \in Queues |-> <<>>]
    /\ work = [w \in Agents |-> Idle]
    /\ dialog = Nobody /\ rows = <<>>
    /\ listing = [n \in {p[2] : p \in DOMAIN stored} |-> stored[<<Root, n>>]]
    /\ folders = <<>>
    /\ session = [i \in Large |-> NoSession]
    /\ metas = {} /\ chunks = {}
    /\ job = [i \in Large |-> NoJob]
    /\ doubled = {} /\ clobbered = {} /\ cancelled = {}
-----------------------------------------------------------------------------
\* f with k mapped to v.
With(f, k, v) == [x \in DOMAIN f \cup {k} |-> IF x = k THEN v ELSE f[x]]

Item(w) == work[w].item
At(w, s) == work[w].pc = s

\* updateStatus: a row that is gone stays gone.
SetRow(i, s) == rows' = IF i \in DOMAIN rows THEN [rows EXCEPT ![i].status = s] ELSE rows

Goto(w, s) == work' = [work EXCEPT ![w].pc = s]

Fault == faults > 0 /\ faults' = faults - 1 /\ UNCHANGED <<reloads, cancels>>

\* The worker goes on with the next file of its queue, if there is one.
Shifted(d) ==
    IF todo[d] = <<>> THEN [Idle EXCEPT !.pc = "done"]
    ELSE [Idle EXCEPT !.pc = IF d = ResumeDrop THEN "sending" ELSE "folders", !.item = Head(todo[d])]

NextItem(w, s) ==
    LET d == w[1] IN
    /\ SetRow(Item(w), s)
    /\ work' = [work EXCEPT ![w] = Shifted(d)]
    /\ todo' = [todo EXCEPT ![d] = IF @ = <<>> THEN @ ELSE Tail(@)]
    /\ job' = IF d = ResumeDrop /\ todo[d] # <<>> THEN [job EXCEPT ![Head(todo[d])].on = TRUE] ELSE job
    /\ UNCHANGED <<phase, cache, dialog, listing>>

-----------------------------------------------------------------------------
\* onUpload: rows for all files, and workers that have each taken one at once.
OnUpload(d) ==
    /\ phase[d] = "new" /\ todo[d] # <<>>
    /\ phase' = [phase EXCEPT ![d] = "running"]
    /\ rows' = [i \in DOMAIN rows \cup {todo[d][n] : n \in DOMAIN todo[d]} |->
                  IF i \in DOMAIN rows THEN rows[i] ELSE [status |-> "queued", session |-> Nobody]]
    /\ work' = [w \in Agents |-> IF w[1] = d /\ w[2] <= Len(todo[d])
                                 THEN [Idle EXCEPT !.pc = "folders", !.item = todo[d][w[2]]] ELSE work[w]]
    /\ todo' = [todo EXCEPT ![d] = SubSeq(@, CONCURRENCY + 1, Len(@))]
    /\ UNCHANGED <<cache, dialog, listing, server, indexedDB, job, history, tally>>

\* ensureFolderExists between two awaits: from folder f, k levels down, as far as
\* the cache c reaches, then to a request for the next folder or to the hash.
PathByName(i, n) == <<PathOf[i][n]>>
Path(i, n) == SubSeq(PathOf[i], 1, n)

\* history: another worker of the drop is about to make this folder.
Racing(w, p) ==
    \E v \in Workers(w[1]) \ {w} :
        work[v].pc \in {"creating", "listing"} /\ Path(Item(v), work[v].depth) = p

Descend(w, c, f, k) ==
    LET i == Item(w)
        in(n) == IF n = k THEN f ELSE c[Path(i, n)]
        missing == {n \in k + 1 .. Len(PathOf[i]) : Path(i, n) \notin DOMAIN c}
        n == CHOOSE n \in missing : \A m \in missing : n <= m
    IN  IF missing = {}
        THEN /\ work' = [work EXCEPT ![w].pc = "hashing", ![w].folder = in(Len(PathOf[i]))]
             /\ SetRow(i, "hashing")
             /\ UNCHANGED doubled
        ELSE /\ work' = [work EXCEPT ![w].pc = "creating", ![w].depth = n, ![w].folder = in(n - 1)]
             /\ doubled' = IF Racing(w, Path(i, n)) THEN doubled \cup {<<w[1], Path(i, n)>>} ELSE doubled
             /\ UNCHANGED rows

EnsureFolderExists(w) ==
    /\ At(w, "folders")
    /\ Descend(w, cache[w[1]], Root, 0)
    /\ UNCHANGED <<queues, dialog, listing, server, indexedDB, job, clobbered, cancelled, tally>>

Wanted(w) == Path(Item(w), work[w].depth)
NewFolder(w) == [name |-> PathOf[Item(w)][work[w].depth], parent |-> work[w].folder, by |-> w[1]]

\* The folder f of the server is that of the path the worker wants: into the cache.
Enter(w, f) ==
    LET c == With(cache[w[1]], Wanted(w), f) IN
    /\ cache' = [cache EXCEPT ![w[1]] = c]
    /\ Descend(w, c, f, work[w].depth)
    /\ UNCHANGED <<todo, phase, dialog, listing, stored, session, indexedDB, job, clobbered, cancelled, tally>>

CreateFolder(w) ==
    /\ At(w, "creating")
    /\ folders' = Append(folders, NewFolder(w))
    /\ Enter(w, Len(folders'))

\* The request fails, with or without a new folder: look for one of this name.
CreateFails(w) ==
    /\ At(w, "creating") /\ Fault
    /\ Goto(w, "listing")
    /\ folders' \in {folders, Append(folders, NewFolder(w))}
    /\ UNCHANGED <<queues, screen, stored, session, indexedDB, job, history>>

Namesakes(w) == {f \in DOMAIN folders : /\ folders[f].name = NewFolder(w).name
                                        /\ folders[f].parent = work[w].folder}

FindFolder(w) ==
    /\ At(w, "listing")
    /\ \E f \in Namesakes(w) : Enter(w, f)
    /\ UNCHANGED folders

NoFolder(w) ==
    /\ At(w, "listing") /\ Namesakes(w) = {}
    /\ NextItem(w, "error")
    /\ UNCHANGED <<server, indexedDB, history, tally>>

\* This request fails as well: the folder is there, and not in the cache.
ListFails(w) ==
    /\ At(w, "listing") /\ Fault
    /\ NextItem(w, "error")
    /\ doubled' = doubled \cup {<<w[1], Wanted(w)>>}
    /\ UNCHANGED <<server, indexedDB, clobbered, cancelled>>

-----------------------------------------------------------------------------
\* Is there a file of this name?  Only the listing is asked.
Existing(w) == work[w].folder = Root /\ NameOf[Item(w)] \in DOMAIN listing
SameHash(w) == listing[NameOf[Item(w)]] = ContentOf[Item(w)]

SkipExisting(w) ==
    /\ At(w, "hashing") /\ Existing(w) /\ SameHash(w)
    /\ NextItem(w, "completed")
    /\ UNCHANGED <<server, indexedDB, history, tally>>

\* setOverwriteConfirm: there is one dialog, and it shows the last question.
AskOverwrite(w) ==
    /\ At(w, "hashing") /\ Existing(w) /\ ~SameHash(w)
    /\ Goto(w, "asking") /\ SetRow(Item(w), "processing")
    /\ dialog' = w
    /\ clobbered' = clobbered \cup ({dialog} \ {Nobody})
    /\ UNCHANGED <<queues, listing, server, indexedDB, job, doubled, cancelled, tally>>

Proceed(w) ==
    /\ At(w, "hashing") /\ ~Existing(w)
    /\ Goto(w, "uploading") /\ SetRow(Item(w), "uploading")
    /\ UNCHANGED <<queues, dialog, listing, server, indexedDB, job, history, tally>>

AnswerYesUnresolved ==
    /\ dialog # Nobody /\ dialog' = Nobody
    /\ UNCHANGED <<queues, work, rows, listing, server, indexedDB, job, history, tally>>

AnswerYes ==
    /\ dialog # Nobody /\ dialog' = Nobody
    /\ Goto(dialog, "uploading") /\ SetRow(Item(dialog), "uploading")
    /\ UNCHANGED <<queues, listing, server, indexedDB, job, history, tally>>

AnswerNo ==
    /\ dialog # Nobody /\ dialog' = Nobody
    /\ SetRow(Item(dialog), "error")
    /\ work' = [work EXCEPT ![dialog] = Shifted(dialog[1])]
    /\ todo' = [todo EXCEPT ![dialog[1]] = IF @ = <<>> THEN @ ELSE Tail(@)]
    /\ UNCHANGED <<phase, cache, listing, server, indexedDB, job, history, tally>>

-----------------------------------------------------------------------------
\* performUpload.  The server has this content, from whomever.
PreCheck(i) == ContentOf[i] \in {stored[p] : p \in DOMAIN stored}

Store(i, f) == stored' = With(stored, <<f, NameOf[i]>>, ContentOf[i])

\* uploadFile, or linkFile: one request.
UploadFile(w) ==
    /\ At(w, "uploading") /\ (Item(w) \notin Large \/ PreCheck(Item(w)))
    /\ Store(Item(w), work[w].folder)
    /\ NextItem(w, "completed")
    /\ UNCHANGED <<folders, session, indexedDB, history, tally>>

UploadFails(w) ==
    /\ At(w, "uploading") /\ Fault
    /\ IF Item(w) \notin Large \/ PreCheck(Item(w))
       THEN (Store(Item(w), work[w].folder) \/ UNCHANGED stored) /\ UNCHANGED session
       ELSE /\ session' \in {session, [session EXCEPT ![Item(w)].state = "pending"]}
            /\ UNCHANGED stored
    /\ NextItem(w, "error")
    /\ UNCHANGED <<folders, indexedDB, history>>

\* upload/init.  The session is noted in the rows that are being hashed and whose
\* name is that of the file: by then never in the row of the file itself.
InitUpload(w) ==
    LET i == Item(w) IN
    /\ At(w, "uploading") /\ i \in Large /\ ~PreCheck(i)
    /\ session' = [session EXCEPT ![i].state = "pending", ![i].folder = work[w].folder]
    /\ rows' = [j \in DOMAIN rows |->
                  IF PathOf[j] = <<>> /\ NameOf[j] = NameOf[i] /\ rows[j].status = "hashing"
                  THEN [rows[j] EXCEPT !.session = i] ELSE rows[j]]
    /\ Goto(w, "saving")
    /\ UNCHANGED <<queues, dialog, listing, folders, stored, indexedDB, job, history, tally>>

\* storeFileForUpload: first the metadata, then the data.
StoreMeta(w) ==
    /\ At(w, "saving")
    /\ metas' = metas \cup {Item(w)}
    /\ Goto(w, "savingChunks")
    /\ UNCHANGED <<queues, screen, server, chunks, job, history, tally>>

StartSending(w) ==
    /\ Goto(w, "sending")
    /\ job' = [job EXCEPT ![Item(w)] = [NoJob EXCEPT !.on = TRUE, !.open = Parts]]
    /\ UNCHANGED <<queues, screen, server, metas, history>>

StoreChunks(w) ==
    /\ At(w, "savingChunks")
    /\ chunks' = chunks \cup {Item(w)}
    /\ StartSending(w)
    /\ UNCHANGED tally

\* "upload will not be resumable": but it goes on as if the data were there.
StoreFails(w) ==
    /\ At(w, "saving") \/ At(w, "savingChunks")
    /\ Fault
    /\ StartSending(w)
    /\ UNCHANGED chunks

-----------------------------------------------------------------------------
\* resumeChunkedUpload.  Parts are sent in any order, whether or not anybody still
\* waits for them; their progress puts the row back to uploading, an error, too.
SendPart(i, p) ==
    /\ job[i].on /\ p \in job[i].open
    /\ i \in chunks /\ session[i].state = "pending"
    /\ session' = [session EXCEPT ![i].parts = @ \cup {p}]
    /\ job' = [job EXCEPT ![i].open = @ \ {p}]
    /\ SetRow(i, "uploading")
    /\ UNCHANGED <<queues, work, dialog, listing, folders, stored, indexedDB, history, tally>>

\* No data, the session is gone, or the request is lost, before or after its work;
\* the last two are tried MAX_RETRIES times again.
PartFails(i, p) ==
    /\ job[i].on /\ p \in job[i].open
    /\ \/ (i \notin chunks \/ session[i].state # "pending") /\ UNCHANGED <<tally, session>>
       \/ /\ i \in chunks /\ session[i].state = "pending" /\ Fault
          /\ session' \in {session, [session EXCEPT ![i].parts = @ \cup {p}]}
    /\ job' = IF i \in chunks /\ job[i].tries[p] < MAX_RETRIES
              THEN [job EXCEPT ![i].tries[p] = @ + 1]
              ELSE [job EXCEPT ![i].open = @ \ {p}, ![i].failed = TRUE]
    /\ UNCHANGED <<queues, work, screen, folders, stored, indexedDB, history>>

AllSent(w) ==
    /\ At(w, "sending") /\ job[Item(w)].open = {} /\ ~job[Item(w)].failed
    /\ Goto(w, "completing")
    /\ UNCHANGED <<queues, screen, server, indexedDB, job, history, tally>>

GiveUpCleaning(w) ==
    /\ At(w, "sending") /\ job[Item(w)].failed
    /\ NextItem(w, "error")
    /\ metas' = metas \ {Item(w)}
    /\ UNCHANGED <<server, chunks, history, tally>>

GiveUp(w) ==
    /\ At(w, "sending") /\ job[Item(w)].failed
    /\ NextItem(w, "error")
    /\ UNCHANGED <<server, indexedDB, history, tally>>

Completed(i) ==
    /\ session[i].state = "pending" /\ session[i].parts = Parts
    /\ session' = [session EXCEPT ![i].state = "completed"]
    /\ Store(i, session[i].folder)

CompleteUpload(w) ==
    /\ At(w, "completing")
    /\ Completed(Item(w))
    /\ Goto(w, "cleaning") /\ SetRow(Item(w), "processing")
    /\ UNCHANGED <<queues, dialog, listing, folders, indexedDB, job, history, tally>>

CompleteRefused(w) ==
    /\ At(w, "completing") /\ session[Item(w)].state # "pending"
    /\ NextItem(w, "error")
    /\ UNCHANGED <<server, indexedDB, history, tally>>

\* The request or its answer is lost.
CompleteFails(w) ==
    /\ At(w, "completing") /\ Fault
    /\ Completed(Item(w)) \/ UNCHANGED <<stored, session>>
    /\ NextItem(w, "error")
    /\ UNCHANGED <<folders, indexedDB, history>>

CleanupUpload(w) ==
    /\ At(w, "cleaning")
    /\ metas' = metas \ {Item(w)} /\ chunks' = chunks \ {Item(w)}
    /\ NextItem(w, "completed")
    /\ UNCHANGED <<server, history, tally>>

-----------------------------------------------------------------------------
\* cancelUpload: of the IndexedDB only the metadata goes, as cleanupUpload is told
\* that there are no chunks.
CancelUpload(i) ==
    /\ i \in DOMAIN rows /\ cancels > 0 /\ cancels' = cancels - 1
    /\ rows' = [j \in DOMAIN rows \ {i} |-> rows[j]]
    /\ cancelled' = cancelled \cup {i}
    /\ LET s == rows[i].session IN
       IF s # Nobody /\ session[s].state = "pending"
       THEN /\ session' = [session EXCEPT ![s].state = "aborted"]
            /\ metas' = metas \ {s}
       ELSE UNCHANGED <<session, metas>>
    /\ UNCHANGED <<queues, work, dialog, listing, folders, stored, chunks, job, doubled, clobbered, faults, reloads>>

\* Five seconds after the last file of a drop: all rows but these go.
Sweep(d) ==
    /\ phase[d] = "running" /\ \A w \in Workers(d) : work[w].pc \in {"off", "done"}
    /\ phase' = [phase EXCEPT ![d] = "swept"]
    /\ rows' = [i \in {j \in DOMAIN rows : rows[j].status \in {"uploading", "error"}} |-> rows[i]]
    /\ work' = [w \in Agents |-> IF w[1] = d THEN Idle ELSE work[w]]
    /\ UNCHANGED <<todo, cache, dialog, listing, server, indexedDB, job, history, tally>>

InRoot == {p \in DOMAIN stored : p[1] = Root}
RefreshFiles ==
    /\ listing' = [n \in {p[2] : p \in InRoot} |-> stored[<<Root, n>>]]
    /\ listing' # listing
    /\ UNCHANGED <<queues, work, dialog, rows, server, indexedDB, job, history, tally>>

\* The page is loaded again: what it knew is lost, drops under way with it.
Reload ==
    /\ reloads > 0 /\ reloads' = reloads - 1
    /\ todo' = [d \in Queues |-> IF phase[d] = "running" THEN <<>> ELSE todo[d]]
    /\ phase' = [d \in Queues |-> IF d = ResumeDrop THEN "new" ELSE IF phase[d] = "running" THEN "swept" ELSE phase[d]]
    /\ cache' = [d \in Queues |-> <<>>]
    /\ work' = [w \in Agents |-> Idle]
    /\ dialog' = Nobody /\ rows' = <<>> /\ listing' = <<>>
    /\ job' = [i \in Large |-> NoJob]
    /\ clobbered' = {}
    /\ UNCHANGED <<server, indexedDB, doubled, cancelled, faults, cancels>>

Resumable == {i \in metas : session[i].state = "pending"}

\* resumePendingUploads: pending sessions whose metadata is here, one by one.
ResumePending ==
    /\ phase[ResumeDrop] = "new"
    /\ IF Resumable = {}
       THEN phase' = [phase EXCEPT ![ResumeDrop] = "swept"] /\ UNCHANGED <<todo, work, rows, job>>
       ELSE \E order \in [1 .. Cardinality(Resumable) -> Resumable] :
              /\ {order[n] : n \in DOMAIN order} = Resumable
              /\ phase' = [phase EXCEPT ![ResumeDrop] = "running"]
              /\ todo' = [todo EXCEPT ![ResumeDrop] = Tail(order)]
              /\ work' = [work EXCEPT ![<<ResumeDrop, 1>>] = [Idle EXCEPT !.pc = "sending", !.item = order[1]]]
              /\ rows' = [i \in DOMAIN rows \cup Resumable |->
                            IF i \in Resumable THEN [status |-> "uploading", session |-> i] ELSE rows[i]]
              /\ job' = [i \in Large |-> IF i \in Resumable
                           THEN [NoJob EXCEPT !.on = (i = order[1]), !.open = Parts \ session[i].parts] ELSE job[i]]
    /\ UNCHANGED <<cache, dialog, listing, server, indexedDB, history, tally>>

-----------------------------------------------------------------------------
\* Steps of a worker when no request fails, and of the requests under way.
WorkerStep(w) ==
    \/ EnsureFolderExists(w) \/ CreateFolder(w) \/ FindFolder(w) \/ NoFolder(w)
    \/ SkipExisting(w) \/ AskOverwrite(w) \/ Proceed(w)
    \/ UploadFile(w) \/ InitUpload(w) \/ StoreMeta(w) \/ StoreChunks(w)
    \/ AllSent(w) \/ GiveUp(w) \/ CompleteUpload(w)
    \/ CompleteRefused(w) \/ CleanupUpload(w)

Next ==
    \/ \E d \in Drops : OnUpload(d)
    \/ \E d \in Queues : Sweep(d)
    \/ \E w \in Agents :
         \/ EnsureFolderExists(w) \/ CreateFolder(w) \/ CreateFails(w)
         \/ FindFolder(w) \/ NoFolder(w) \/ ListFails(w)
         \/ SkipExisting(w) \/ AskOverwrite(w) \/ Proceed(w)
         \/ UploadFile(w) \/ UploadFails(w) \/ InitUpload(w)
         \/ StoreMeta(w) \/ StoreChunks(w) \/ StoreFails(w)
         \/ AllSent(w) \/ GiveUp(w) \/ CompleteUpload(w) \/ CompleteRefused(w)
         \/ CompleteFails(w) \/ CleanupUpload(w)
    \/ \E i \in Large, p \in Parts : SendPart(i, p) \/ PartFails(i, p)
    \/ \E i \in Items : CancelUpload(i)
    \/ AnswerYes \/ AnswerNo \/ RefreshFiles \/ Reload \/ ResumePending

Spec == Init /\ [][Next]_vars

\* Requests are answered, timers fire, and the user answers the dialog.
Fairness ==
    /\ \A w \in Agents : WF_vars(WorkerStep(w))
    /\ \A i \in Large, p \in Parts : WF_vars(SendPart(i, p) \/ PartFails(i, p))
    /\ WF_vars(AnswerYes \/ AnswerNo)

FairSpec == Spec /\ Fairness
-----------------------------------------------------------------------------
\* The names of a folder and those above it.
NamesOf[f \in 0 .. Len(folders)] ==
    IF f = Root THEN <<>> ELSE Append(NamesOf[folders[f].parent], folders[f].name)

\* web/README.md:88 "Recursive folder structure preservation": a dropped file that
\* the server has is in a folder of the path it had, and one that is shown as
\* completed is there, whatever folders and caches the workers share.
StructureKept ==
    /\ \A p \in DOMAIN stored : \A i \in Items :
         stored[p] = ContentOf[i] /\ NameOf[i] = p[2] => NamesOf[p[1]] = PathOf[i]
    /\ \A i \in DOMAIN rows : rows[i].status = "completed" =>
         \E p \in DOMAIN stored : p[2] = NameOf[i] /\ NamesOf[p[1]] = PathOf[i]

\* A drop makes a folder twice only if two workers make it at the same time, or one
\* was told that its request had failed.
FoldersOnce ==
    \A f, g \in DOMAIN folders :
        f # g /\ folders[f] = folders[g] => <<folders[f].by, NamesOf[f]>> \in doubled

\* Data that may be resumed is not thrown away: as long as the session is pending,
\* IndexedDB keeps the metadata with the data.
ResumableKept == \A i \in chunks : session[i].state = "pending" => i \in metas

\* An upload is aborted only for a row that the user removed: its own, or one of the
\* same name that was being hashed when the upload began.
AbortConfined ==
    \A i \in Large : session[i].state = "aborted" =>
        \E j \in cancelled : j = i \/ (NameOf[j] = NameOf[i] /\ PathOf[j] = <<>>)

Over(d) == \A w \in Workers(d) : work[w].pc \in {"off", "done"}
Stuck(d) == clobbered \cap Workers(d) # {}

\* Every drop ends, and with it every one of its files, unless a question was
\* replaced by another before it was answered.
EveryDropEnds == \A d \in Queues : phase[d] = "running" ~> (Over(d) \/ Stuck(d))

\* What was dropped is stored in the folders it had, each made once (useFileUpload.ts:284).
DropsInOrder == TypeOK /\ StructureKept /\ FoldersOnce

\* A pending session is neither stripped of what resumes it nor aborted for another
\* row (useFileUpload.ts:218, 229).
SessionsKept == ResumableKept /\ AbortConfined
=============================================================================
