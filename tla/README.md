# Verification of the file backend

TLA+ models of this repository: a file storage service (`api/`, Rust, axum on
PostgreSQL, an S3-compatible bucket and clamd) and its web client (`web/`,
React). The models are translated from the source; TLC checks them on small
instances, and TLAPS proves the safety of all but StorageLocks for every value of the
constants. Paths below are relative to the repository.

Contents: 1 the system, 2 how the models are built, 3 the modules one by one,
4 the runs, 5 fairness, 6 the proofs, 7 where code and documentation part,
8 what is not modelled, 9 the plan.

## 1. The system

### Parts, state, operations

| Part | State | Operations | Module |
|---|---|---|---|
| Keyed mutex, `api/src/utils/keyed_mutex.rs` | a `DashMap` from user id to `Arc<Mutex>` | `lock`, dropping a guard or a waiting future, `cleanup` | KeyedMutex |
| File service, `services/file_service/{upload,delete,bulk}.rs` | `user_files`, `storage_files`, the bucket | `process_upload`, `link_existing_file`, `delete_item`, `bulk_delete`, `bulk_move`, `bulk_copy` | StorageLifecycle, StorageTasks, StorageLocks, FolderTree |
| Storage lifecycle, `services/storage_lifecycle.rs` | `storage_files.ref_count`, objects | `decrement_ref_count`, `delete_folder_recursive`, `soft_delete_user_file`, `bulk_delete`, `delete_storage_file` | the same, and Shares |
| File handlers, `handlers/files/{manage,bulk,list,upload}.rs` | `user_files.parent_id` and names | `create_folder`, `rename_item` (rename, move, merge), `get_folder_path`, listings, the pre-check | StorageLifecycle, StorageTasks, FolderTree |
| Downloads, `handlers/files/{download,archive}.rs` | `download_tickets` in memory | `generate_download_ticket`, `download_file_with_ticket`, `download_file`, archives | Shares |
| Chunked upload sessions, `services/upload_service.rs`, `handlers/upload.rs` | `upload_sessions`, S3 multipart uploads | `init_upload`, `upload_chunk`, `complete_upload`, `abort_upload`, `list_pending_sessions` | UploadSession |
| Background worker, `services/worker.rs`, `services/expiration.rs` | `storage_files.scan_status`, expiry | virus scans, purge of threats, expiry, staging and token clean-up, statistics | ScanPipeline, StorageTasks, Shares |
| Share links, `handlers/shares.rs`, `services/share_service.rs` | `share_links`, `share_access_logs` | create, revoke, public page, password check, list, download, log | Shares |
| Upload queue of the web client, `web/src/features/dashboard/hooks/useFileUpload.ts` | per drop a queue and a folder cache; shared rows, dialog, listing | `onUpload`, `ensureFolderExists`, `performUpload`, `cancelUpload`, `resumePendingUploads` | UploadQueue |
| Chunked upload client, `web/src/services/{uploadService,uploadDb}.ts` | IndexedDB: metadata, chunks | `uploadFile`, `resumeChunkedUpload`, `abortUpload`, the stores | UploadQueue |
| Virus scanner client, `services/scanner.rs` | a connection | `scan` | its outcomes are inputs of ScanPipeline |
| Object storage client, `services/storage.rs` | none | S3 calls | atomic steps of their callers |
| User statistics, `services/facts_service.rs` | `user_file_facts` | recomputation | no |
| Thumbnails and metadata, `services/{thumbnail_service,metadata}.rs`, `web/lib/components/Icons/FileIcon.tsx` | a queue of jobs; per icon a URL, a timer, a request, and a cache | generate; fetch, poll | Thumbnail (the page's side) |
| Captcha and login throttling, `handlers/captcha.rs` | captchas and cooldowns in memory | issue, check, record a failure, clean up | AuthPage |
| Authentication and users, `handlers/{auth,users,user_settings}.rs` | `users`, `tokens` | register, log in, change, OIDC | AuthPage, AppSession (as the page sees them) |
| Validation and hashing, `utils/{validation,hash}.rs` | none | pure functions | no |
| Configuration, database set-up, audit, health | append-only log | set-up | no |
| Sign-in, `web/src/{features/auth,captcha}` | form, question, countdowns | fetch a question, answer, submit | AuthPage |
| Application, `web/src/{App.tsx,services/httpClient.ts,components/BackendStatusMonitor.tsx}` | a token in localStorage, shared by the tabs; what each tab draws | sign in and out, request, 401, health check | AppSession |
| Dashboard, `web/src/features/dashboard` | rows, favourites, paging; search text and results; history | fetch, poll, load more, toggle; type; navigate | Dashboard, SearchBox, FolderHistory |
| File manager library, `web/lib` | selection, clipboard, menu, dialog, drag; windows; list of links; box of uploads | clicks, keys, drops, paste; open, create, revoke; clear, cancel | FileManager, ItemModals, SharesList, UploadToast |
| Public page of a link, `web/src/features/share/PublicSharePage.tsx` | what was loaded and unlocked | verify, list, open, download | SharePage |

### How the parts interact

* Everything durable goes through PostgreSQL (READ COMMITTED) and the bucket.
  The bucket takes no part in any transaction, so every request that writes
  both can be half-done.
* Contents are deduplicated: `storage_files` has one row per hash and counts
  its references in `ref_count`, written by uploads, links, copies, renames
  that merge, deletions and the expiry sweep. The decrement that reaches zero
  deletes the object.
* Folder and bulk operations of one user run under `bulk_lock`, a mutex per
  user. `rename_item`, `create_folder`, uploads and the worker do not take it.
* `process_upload` claims its new content for a scan and spawns one; every
  worker polls for pending rows. They meet on `scan_status` alone.
* A chunked upload that is completed ends in `process_upload`, with the
  object S3 has just put together.
* Deleting a file deletes its share links. A share or ticket is followed by
  reading link, file and content one after the other.
* The parts of the page share little: the file manager calls the dashboard's
  handlers, which send requests and load the rows anew; every request reads the
  token when it is sent. Hardly any request is cancelled, so each part has to
  live with answers that come late, in another order, or after the user went on.
* The web client shows a list of files it has read earlier and decides with it
  (replace? skip?), sends three files at a time per drop, and keeps large
  files in IndexedDB so that they can be resumed after a reload.

### What makes it hard

`PROJECT.json` lists forty hazards at their lines. They fall into these groups.

* **Read, then write, without a lock.** `ref_count` is read by one statement
  and written by another (`storage_lifecycle.rs:26`); the circularity check
  of `rename_item` walks up one SELECT at a time and then moves
  (`manage.rs:306`); a worker selects pending rows and claims them later
  (`worker.rs:99`), the cleanup lists what is due and comes to it later (`:162`); a folder cache is looked up before and filled after an
  await (`useFileUpload.ts:284`).
* **Side effects inside transactions.** Objects are deleted before the commit
  (`storage_lifecycle.rs:42`).
* **Three copies of one fact.** An upload session is a row, a multipart upload
  and an object (`upload_service.rs:220`, `:361`).
* **Things that must end.** Walks and recursions over `parent_id`, which nothing
  keeps acyclic; questions in a dialog that another question replaces
  (`useFileUpload.ts:408`); scans that fail again and again.
* **Crashes and requests that go away.** A handler's future is dropped when
  the client goes away; a process dies between claim and verdict; the page is
  reloaded in the middle of an upload.
* **Late answers in the page.** Two fetches of a question, two pages of a listing,
  two searches, the log of the window before (`useCaptcha.ts:50`,
  `useDashboardData.ts:130`, `useSearch.ts:15`, `ShareModal.tsx:60`); a 401 for a token
  that is no longer the current one (`httpClient.ts:36`).
* **Several handlers for one state.** Selection, menu, clipboard, history flags
  and timers are written by many handlers and effects
  (`Workspace.tsx:190`, `useFolderNavigation.ts:41`, `UploadProgressToast.tsx:72`, `FileIcon.tsx:248`).
* **Who is still entitled.** Revocation, deletion, expiry and verdicts while a
  visit by link or ticket is under way.

### What makes each part correct

| Part | Property | Where |
|---|---|---|
| Keyed mutex | one owner per key though entries are evicted; first come, first served; whoever queues is served | `MutualExclusion`, `RefinesKeyedLock`, `EventuallyServed` |
| Storage | counts cover references, live files are readable, no object without a row, contents stay | `RefCountCovers`, `LiveFileReadable`, `NoOrphanObject`, `ContentKept` |
| Storage, overlapping | damage only where two requests had the same content in hand | `InterferenceConfined` |
| Storage, locks | row locks and bulk locks together close no cycle the database cannot end; nobody waits for good | `LocksFit` |
| Upload sessions | no acknowledged part is lost; one file with every chunk; row, S3 and file agree | `AckedPartsKept`, `OneWholeFile`, `SessionsInOrder` |
| Scans | a claimed row is being scanned, a threat is not forgotten, every content is judged | `ScansInOrder`, `ThreatNotForgotten`, `EventuallyJudged` |
| Folders | no cycle but by the known ways, nothing lost from view, walks and recursions end | `TreeInOrder` (`CyclesConfined`, `LiveBelowLive`, `RecursionConfined`), `CopiesOriginals`, `WalksEnd` |
| Shares, downloads | what was gone all along is not served, what was there all along is not refused, deleted files have no links, visits are logged | `NothingGoneIsServed`, `RefusedForCause`, `DeletedHaveNoLinks`, `LogsInOrder` |
| Upload queue | paths are kept, folders made once, resumable data kept, aborts only on request, every drop ends | `DropsInOrder` (`StructureKept`, `FoldersOnce`), `SessionsKept` (`ResumableKept`, `AbortConfined`), `EveryDropEnds` |
| Sign-in | a right answer is not counted as a failure; a dead question does not stay | `RightAnswerCounts`, `QuestionsRefreshed` |
| Tabs and tokens | one user's data per dashboard; a good token is lost only to a logout, to the refusal of a request sent with another one, or to a sign-in refused in another tab | `SessionsApart` |
| Listing, icons | nothing is left out of a listing that is complete; a star ends as the menu said; an icon keeps the round of polls it has begun and polls for nothing it has | `RowsFit` |
| File manager | no circular move the page could have seen; the menu acts on its file; what was cut stays cut | `CircularConfined`, `MenuHitsItsFile`, `ClipboardKept` |
| Windows, links, search | what is shown belongs to the title, the list or the text it is shown under | `ShownFits` |
| Public page | nothing before the password, no text or error of one item under the name of another, "empty" only if empty or not loaded | `SharedAsShown` |
| History | the entry the browser stands on is that of the folder shown | `HistoryFits` |
| Box of the uploads | an upload under way keeps its row | `UploadsSeen` |

## 2. How the models are built

* **Grain.** A step is what the code does between two points at which somebody
  else can run: one SQL statement, one S3 call, or in the browser the code
  between two awaits. StorageLifecycle is the exception: there a step is a
  whole request, and StorageTasks is shown to implement it.
* **Local variables** of a request are a record per task (`req`, `rq`, `work`)
  and a program counter; what a request has read stays in it and grows stale.
* **External parts** (PostgreSQL, S3, clamd, tokio's mutex, the clock) are
  modelled by what the code relies on and marked `external` in the map.
* **History variables** record why a property may fail: `disturbed`, `broken`,
  `lost`, `tainted`, `stray`, `doubled`, `clobbered`, and in the web modules
  `mixed`, `failed`, `late`, `crossed`, `sure`, `wish`. A property then reads
  "this holds unless exactly that has happened", and the known races of the
  code stay visible instead of being modelled away. No action looks at a
  history variable.
* **Bounds.** `MaxRequests`, `MaxFaults`, `MaxEnded`, `MaxRef`, `MaxChunks`, `MaxTime`,
  `MaxWrites`, `MaxRestarts`, `Locking` and `Plain` (which tasks make which requests), `FileLives`, `LinkLives`, those listed in section 4 for mc_web_app and the counters of `Selections` are bounds of
  the model; everything else that looks like a number is the code's
  (`CONCURRENCY`, `MAX_RETRIES`, `BatchLimit`, `TicketLife`, `PageSize`, `FavLimit`, `MAX_POLLS`).
* **Near misses.** Next to an action there may be a variant of it
  (`ClaimUploadNot`, `GiveUpCleaning`, `ReadChildrenUnlogged`, ...). No
  specification uses it. It is the action with a plausible mistake in it, and
  `PROJECT.json` ("mutants") names the property that finds the mistake.
* **Deadlock.** Every run says `CHECK_DEADLOCK FALSE`: requests, faults, ids or the
  clock are bounded, so a behaviour may stop when they are used up; and where nothing is,
  as with the keyed mutex, a caller may always come, so it would show nothing. That
  nobody waits for ever is what `EventuallyServed`, `LocksFit`, `WalksEnd` and
  `EveryDropEnds` are for.
* **Runs of several parts.** Parts that have no state in common are checked side by side
  (MCServer, MCStorage, MCWebApp): the first state chooses a part and only that one takes
  steps. It saves runs and loses nothing, as no step of one part could matter to another.

## 3. The modules

### KeyedLock, KeyedMutex: `utils/keyed_mutex.rs`

`locks` is the DashMap, `arc` the clone each task holds, `queue` the owner and
the waiters of each `Mutex`. `lock` is two steps: `Lookup` (find or create the
entry, clone its Arc) and `Enqueue` (await the mutex). `Unlock`, `CancelWait`
and `CancelEarly` are the drops of a guard, of a waiting future and of a future
before its first poll. `Cleanup` removes an entry whose `strong_count` is one.
Nothing in `api/src` calls `cleanup` yet, though its comment asks for it "periodically";
it is modelled because it is what could break the lock.
KeyedLock is the abstract specification: one line of callers per key.

### StorageLifecycle: whole requests

`files` (without folders), `rows` (by hash) and `objects`. Actions:
`UploadKnown`, `UploadNew`, `Link`, `Delete`, `Expire`, `Rename`,
`RenameOnto`, `Move`, `Copy`, `FindThreat`, `PurgeInfected`. `Settle` is the
loop over `decrement_ref_count`, in its order. Simplifications:

* Files lie in real folders. For the root, the look-up of a file to merge with
  compares `parent_id` with NULL, which SQL may never find equal.
* A folder stands for the files below it; FolderTree has the recursion.
* `verify_hash_async` (`upload_service.rs:401-464`) is left out, so hashes are
  right. So is the staging area: the worker cleans `staging/`, while chunked
  uploads use `multipart/`.
* The counts may exceed the references: uploading the same content again to
  the same place, or merging two files of one content, leaks a reference, and
  `bulk_copy` has no filter on `deleted_at`, so copies of tombstones become
  live files without a content. The properties say "at least" for that reason.

### StorageTasks: the same requests, statement by statement

A task has its arguments and locals in `req`, its next statement in `step`,
its transaction in `draft`. `Work(t)` is the next statement; `Waits(t)` are the
row locks, the unique hash and the foreign key; `AbortDeadlocked` is
PostgreSQL's deadlock detector, which ends a transaction in a cycle of such waits
and no other; `Fail` ends a request half-way, rolling its
transaction back and leaving the bucket as it is. `settled` keeps the tables as
they were when the server was last idle: the refinement shows those until the
request ends. MCStorageOverlap starts two requests on any server in order,
with at most `Occupied` files. An id of a row is used again only if no request
has it in hand and no open transaction has written its row, or deleted it.

### StorageLocks: StorageTasks with the bulk lock as something to wait for

In StorageTasks a folder or bulk operation begins when the user's lock is free.
Here it first stands in a line: `line` has, per user, those that hold or await the lock,
and is a KeyedLock, which KeyedMutex implements. `Ask` joins it; `BeginLocked` is the
first in line whose transaction begins (what it asks for matters only then and is chosen
then), `TurnedAway` the one whose items are not there, `GoAway` a client that leaves while
it waits. `Proceed`, `AbortLocked` and `FailLocked` are StorageTasks' statements, deadlocks
and failures, and `Release` gives the lock back with the one that ends the request (in the
code the guard is dropped right after it). `ArriveUnlocked` is everything that takes no
lock: uploads, deletions of a file, renames, purges.

The database detects a cycle of row waits. It knows nothing of a bulk lock, so a
cycle through one would last until the process ends. `RowCyclesOnly` says that there is
none, which rests on the order in the code: lock before transaction, one lock per
request (`AskInTransaction` is the mutant that has it the other way round).
MCStorageLocks starts from two users with a file each of two contents, where bulk operations
that take the contents in different orders do deadlock, with a third request in
line behind one of them.

### UploadSession: `services/upload_service.rs`

`sessions` are rows, `uploads` what S3 has open, `assembled` the object between
completion and `process_upload`'s move, `made` the files made. Each handler is
a sequence of steps: `CreateUpload`, `InsertSession`; `BeginChunk`,
`UploadPart`, `RecordPart`; `BeginComplete`, `CompleteS3`, `FindContent`,
`MoveObject`, `AttachFile`, `MarkCompleted`; `BeginAbort`, `AbortS3`,
`DeleteSession`. `Fail` ends a handler after any step. Whether `FindContent`
finds the content is left open. What makes two completions of one session
yield one file is S3's `NoSuchUpload`, not the check of `status`. `broken`
records sessions whose request ended after `PointOfNoReturn`: their row stays
pending for good, though neither completion nor abort can succeed.

### ScanPipeline: `services/worker.rs`, the scan of `process_upload`

`status` per content; `uploader` is where the upload and the scan it spawned
are; `phase`, `batch` and `current` a worker. `Select` and `Claim` are the
worker's SELECT and UPDATE: another scanner may have claimed or judged the row
in between, so two may scan one content, though `worker.rs:75` says "to avoid duplicate
work". `Retry` puts a row back, `Swallow` is a scan
whose answer or result is lost, `WorkerCrash` and `UploadCrash` end a process.
`lost` records contents whose scan came to nothing: their row may say
`scanning` for good, since workers only look at pending rows.

### FolderTree: folders of one user

`parent` and `live`; `lock` is the user's bulk lock. `CheckTarget`, `Walk` and
`Update` are `rename_item`'s check and move, `PathStep` is `get_folder_path`,
`BulkMove` one step (lock and one commit), `LockDelete`, `DeleteInto`,
`DeleteSelf`, `CommitDelete` the recursion of a deletion, `Copy`, `CopyInto`,
`CopyDone`, `CommitCopy` that of `bulk_copy`. Files are folders with nothing
in them. `tainted` records folders that `bulk_move` put below themselves or
that were moved after a stale check, `stray` those put below something deleted.

### UploadQueue: the browser

`todo`, `phase`, `cache` per drop; `work` per worker; `dialog`, `rows`,
`listing` shared by all; `folders`, `stored`, `session` the server as its
answers show it; `metas` and `chunks` IndexedDB. `NextItem`,
`EnsureFolderExists`, `CreateFolder`, `FindFolder`, `SkipExisting`,
`AskOverwrite`, `AnswerYes`, `AnswerNo`, `UploadFile`, `InitUpload`,
`StoreMeta`, `StoreChunks`, `SendPart`, `CompleteUpload`, `CleanupUpload`,
their failures, `CancelUpload`, `Sweep`, `RefreshFiles`, `Reload` and
`ResumePending`. What the model shows of the code:

* `create_folder` on the server makes a second folder of the same name without
  complaint, so two workers that both miss the cache double a folder.
* An upload is looked for among the rows that are being hashed
  (`useFileUpload.ts:216`), which its own row no longer is, so cancelling it
  aborts nothing on the server, and cancelling a namesake may abort it.
* A second question replaces the first one in the dialog, whose worker then
  waits for ever.

Left out: files whose hash fails or is skipped for their size, lists of more
than fifty entries, deletions by the user during a drop, `uploadFileChunked`
(unreachable).

### Shares: links, tickets and the owner's own downloads

`status`, `place`, `content`, `expires` of the files; `stored`, `pending`, `infected`
contents and `scan`, what each scanner has in hand; `link`, `log`, `ticket`, and `rq` for the
requests. Visits ask by link (`AskByLink`: info, verify, list, download), by ticket or as the
owner, and read `ReadLink`, `ReadChild`, `ReadItem`, `ReadStorage`, `ReadFolder`,
`ReadChildren` one after the other before they are answered and logged
(`LogAccess`). Commands mint tickets, create links, delete (in a transaction:
`DeleteItems`, `CommitDelete`), merge by renaming, which leaves the expiry of the other file,
and upload onto a name that is taken, which gives the file a new content and a new expiry
(`Upload`, `Replace`, `ReleaseReplaced`). `Revoke`, `Move` and `Tick` go on beside them, and so
does the worker: `ListDue` reads which files and contents are due, `SweepMark` and `SweepLinks`
(statement by statement) or `PurgeFiles` and `PurgeRow` deal with each as it was listed, whatever
it is by then. `SelectForScan`, `Claim` and `Conclude` are the scans of workers and
uploads: a late claim turns "infected" into "scanning", as in ScanPipeline.

So nothing is gone for good: a renewed expiry or a late claim brings a file or a content
back. `gone[r]` collects what has been out of reach at every instant since request r was made,
`whole[r]` whether everything it needs has been there at every instant; both are observers that
every step updates (`Track`). Between the two lies what changed while it was asked
for, which may go either way. What the model takes from the code:

* Every link has a password, since only then is its check logged. The server
  does not remember the check: the recipient's page waits for it, not the
  download. `share_type` is not looked at when a link is used.
* Only direct children of a shared folder can be listed or fetched.
* A file that is past its own `expires_at` but has not been swept is served by
  link, while the owner's download says it is gone.
* A ticket is put into the map before the content is checked, and nothing
  removes tickets but a restart; an expired one is refused.
* Links of a deleted file remain when the link was inserted during the
  deletion, when `rename_item` merged the file away (`manage.rs:347`), or when
  the sweep was cut short. `stray` records those.

### AuthPage: `AuthPage.tsx`, `captcha/`, `handlers/captcha.rs`

`server` has the questions that are `fresh`, the `strikes` of the address and
whether it is `locked`; `form` the question on the page, for which question the
answer was typed (`solved`), the fetches under way and the submission (`sub`).
`FetchCaptcha` / `Fetched`, `TimerEnds`, `CooldownEnds`, `Refresh`, `Answer`, `Submit`,
`Checked` (the server: throttle first, then the question, which is used up),
`Submitted`. `Elsewhere` is time, other people at the address, the cleanup and a
restart. A 401 reloads the page, so the message of wrong credentials is never seen.

### AppSession: `App.tsx`, `httpClient.ts`, `BackendStatusMonitor.tsx`

`store` is the token of the browser, `valid` what the server accepts, `tabs` what
each tab draws and for whom, `calls` the requests with the token they were sent
with (`Send`), those of a dashboard (`Request`) and those that sign in
(`HandleLogin`). A sign-in ends in `LoggedIn`, `Failed` (no answer, too many attempts) or,
with a wrong name or password, `Refused`, which removes whatever token is stored
by then. A tab that still draws the form sends the token that another tab has
stored since, and its refusal takes that token away though it is good: `KeptWhileValid`
names this way, too. `crossed` records tabs under which another tab changed the token.

### Dashboard: `useDashboardData.ts`, `useFileScanPolling.ts`, `list.rs`

`srv` has the place of each item and the stars, `page` the rows, the paging flag
and the favourites, `calls` the requests. `Serve` is the moment the database is
read, `FilesAnswered` what the page makes of it, so that answers pass each other.
`Navigate`, `OnLoadMore`, `Poll`, `OnMove`, `OnToggleFavorite`, and `Elsewhere`
for other sessions. A page offset counts the rows the page has, whatever was
added or moved meanwhile; a row of another folder that comes late stays.

### FileManager: `web/lib`, selection, menus, drag and drop, clipboard

`rows` and `tree` are what the page knows of the tree `srv`; `ui` the selection,
the clipboard, the menu, the dialog and what is dragged; `ops` the requests.
One action per handler of table and grid (mouse, touch, long press), marquee,
keyboard, side bar, path, selection bar and menus; `Settle` is the end of a
request with what the handler resets. `IsDescendantOrSelf` is the check of
`fileUtils.ts`, called with the rows by some and with the tree by others, and
not by a paste.

### ItemModals: ShareModal, ShareAccessLogModal, PreviewModal

`share`, `log` and `view` are the windows; `calls` their requests, each with the
item it was made for. `Created`, `Listed`, `Revoked`, `LogListed`, `Logged`,
`Ticketed` and `Texted` apply an answer to whatever the window shows by then.

### SharePage: `PublicSharePage.tsx`

`server` is the link and what is behind it, `page` what was loaded, `asked` the
requests. `Card` is what is drawn. The page waits for the password; the server
answers each request for a living link (see Shares). The text viewer takes the body
of any answer, of an error of the server or the refusal of an infected file as well,
with link and item still there, and shows it as the text (`TextLoaded`); only a
request without an answer leaves none. `TextFits` therefore does not say that a text is
the content, only that it came for the item whose name is above it.

### FolderHistory: `useFolderNavigation.ts`, `CommonModal.tsx`

`hist` and `pos` are the browser's history, `page` the folder, the side bar, the
modal and the flag `isInternalNavigation` (`deaf`). `Go` is Back and Forward,
heard by every listener; `FolderShown` the effect of the folder.

### SearchBox, SharesList: `useSearch.ts`, `DashboardHeader.tsx`; `ReactFileManager.tsx`

`box` has the text, its timer, the spinner and the results, `calls` the searches.
`list` is what the side bar draws of the links, `state` what has become of them,
and each operation of the page ends with another load (`Refreshed`).

### UploadToast: `UploadProgressToast.tsx` over the rows of `useFileUpload.ts`

`rows` is the state of each upload, `toast` the box with its timer, `closing` the
close button at work. `Effects` is the effect of `isFinished`, a step of its own
after the rows have changed. Every request of the page and every tick of the
countdown sets the timer anew, so it ends at any time (`AutoClose`).

### Thumbnail: `FileIcon.tsx`, `thumbnailCache.ts`

`icon` has the picture, `isPolling`, the timer and the request of its two effects;
`row` what the listing says, `stage` what the server has. `Primary` and `Polling`
are the effects, `RowChanged` and `PollingChanged` the order React runs them in. The end of a
round is a change of `isPolling`, which begins the next one (v_icon_polling). What the
passing run says is that a round is not lost half-way and that nothing is polled for that
is there or being scanned.

### MCServer, MCStorage, MCWebApp

MCServer has KeyedMutex and ScanPipeline side by side, MCStorage StorageLifecycle and
UploadSession, MCWebApp the eleven parts of the page, one of them per behaviour (`part`).
In MCStorage the handlers of a session and the items have the same model values, and so
have the contents of files and of chunks: only one of the parts is at work, so one
symmetry does for both. MCWebApp's named assumptions say what the proofs need of its
constants.

## 4. The runs

| Run | Question | Bounds, and why they are enough |
|---|---|---|
| mc_server | Does a table of evictable mutexes give one fair lock per key, and is everybody served? Is every content judged though scanners overtake each other? | KeyedMutex: 3 tasks: one owns, one waits, one has only its Arc; 2 keys and 3 allocations: an entry is evicted and made again while another key is in use. ScanPipeline: 2 contents, one a threat; 2 workers besides the uploads' own scans; batches of 1 keep the select-claim race; 2 faults: a retry and a loss. |
| mc_storage | Do whole requests keep counts, objects and files together? Do chunks, completions and aborts of one session agree? | StorageLifecycle: 3 files over 2 contents and 2 names: shared contents, merges, copies and the last reference; `MaxRef` 3 lets references leak. UploadSession: sessions share nothing, so one; 3 handlers (two chunks and a completion, two completions and an abort); 2 parts, 2 contents of a part, 1 request that ends half-way. |
| mc_storage_tasks | Is each request, alone, what StorageLifecycle says? | One task, 4 requests one after the other: three build any small server, the fourth meets it. Both kinds of expiry. |
| mc_storage_overlap | What can two overlapping requests, one of which may fail, spoil? | 2 tasks, 2 requests, from every server with at most 2 files; more requests would begin on a server that is again one of these or already disturbed. |
| mc_storage_locks | Can a request wait for good, for a row or for a bulk lock? | 3 requests of 2 users that have a file of either content, one of them may fail: two bulk transactions that take the contents in opposite orders do close a cycle of row locks, while the third is in line behind one of them. The fifth item is free: a copy makes one file, so it waits for rows and is waited for, but is in no cycle. |
| mc_folder_tree | When do moves, deletions and copies spoil the tree? | 3 folders make a cycle of two under a third; 2 tasks and 5 requests build the tree and race on it. |
| mc_upload_queue | Are paths kept, folders made once, drops ended? | Four selections, each aimed at one meeting: folders of folders, two questions on one name, a large file with a namesake, a large file with another row. 2 workers for the code's 3, 1 retry for its 3, 2 parts. |
| mc_shares | Is what is gone not served, and what is there not refused? | A folder with one file that expires and whose content is to be scanned, another file that can be moved in, merged, overwritten or deleted; a third content to overwrite with; one link, one ticket, one visit; 3 writes; the clock goes past the life of link, ticket and file. Two crowds: two commands that overlap, and 1 restart; or one command at a time, uploads among them, with two scanners (a late claim needs two). |
| mc_web_app | Does each part of the page keep its promises though answers come late, out of order or not at all? | AuthPage: 4 questions, 2 fetches side by side, 3 strikes. AppSession: 2 tabs, 2 users, 2 requests. Dashboard: 3 items in 2 folders, pages and favourites of 1, 2 requests under way when the next is made, 3 acts. FileManager: a folder in a folder in a folder and a file, 4 inputs, the rows and the tree each older than the server. ItemModals: 2 items, 2 links, 3 clicks. SharePage: 2 texts, a video, 4 visits. FolderHistory: 3 folders, 5 moves. UploadToast: 2 uploads, 5 pushes. Thumbnail: 2 polls for the code's 12, 6 changes. SearchBox: 2 texts, 6 changes. SharesList: 2 links, 3 operations. Each has two of what can be confused, and one more step than it takes to confuse them. |
| v_shared_storage, v_folder_cycle, v_icon_polling | see section 7 | v_icon_polling has the code's 12 polls and 2 changes of the row. |

mc_storage_overlap and v_shared_storage use a VIEW that hides `settled`, which
only the refinement looks at, and a CONSTRAINT that leaves behaviours whose two
requests do not overlap to mc_storage_tasks. mc_storage_locks has a VIEW without history,
which its property does not look at. Symmetry is used where the model
values are interchangeable and no liveness property is checked.

What the runs show, in short: with the user's mutex and one request at a time
the storage keeps its promises. Overlapping requests break them only for
contents both had in hand (`InterferenceConfined`), and do (v_shared_storage). None of
them is left waiting: what can close a cycle are row locks alone, which the database
ends (`LocksFit`).
Upload sessions are safe except past their point of no return, scans except
where a failure came to nothing, folders except after `bulk_move` below itself
or a stale check, drops except when a question was replaced. The page mixes up items only where requests
for two of them were under way together, or one failed. Each exception
is a history variable, so a property fails as soon as there is another way.

## 5. Fairness

| Run | Assumed | Why |
|---|---|---|
| mc_server, `MutexFairness` | WF of `Enqueue` and `Unlock` per task | tokio polls woken tasks; the sections under `bulk_lock` are one transaction each and take no second key |
| mc_server, `ScanFairness` | WF of the steps of uploads, workers, scans and purges | the runtime runs tasks, the worker's interval ticks, clamd answers or its connection ends. That a scan ends is an assumption: `scanner.rs` arms its timeout anew in every round and not while it writes (hazard at `scanner.rs:131`). Failures are finite by `MaxFaults`: a scan that fails for ever is retried for ever. |
| mc_folder_tree | WF of `Walk` and `PathStep` | the database answers each SELECT |
| mc_upload_queue | WF of worker steps and parts, and of the answer to the dialog | requests are answered or fail, timers fire, the user answers the question on the screen |
| mc_web_app | WF of AuthPage's `Fetched`, `TimerEnds` and `Submitted` | requests are answered or fail, and the countdown of a question runs while the page is open |

The user's acts, arrivals, cancellations, failures, crashes, reloads and restarts are never
fair.

## 6. The proofs

TLAPS checks every leaf; nothing is assumed but the named ASSUMEs of the
modules, which TLC evaluates on every run: finiteness of `Tasks`, `Items`,
`Contents`, `Folders` and the files of UploadQueue, null values outside their sets,
bounds that are natural numbers, and in Shares that ids of files, contents, links and
tickets differ. UploadQueue names how its `Items` stand for files: a file that is above
the threshold and dropped twice is two of them, since each drop has an upload session of
its own (`SelectionsAssumption`), and files of one name and content were dropped from the
same path (`ContentAssumption`), since the property tells files on the server apart by
nothing else; and its selections are sequences of these files, its root at first one of
files that belong there. StorageTasks also names that its bound `Expiries` is a set of booleans,
that `MaxRef` is not 0 and that its null rows are not rows of StorageLifecycle,
MCWebApp that there is always a captcha the page does not show, that a link shares
something, that texts with results are long enough to be searched, and that no
folder is a place of another kind and no file a folder. Numbers of users, handlers,
workers, visitors, tabs, files, folders, contents and chunks are arbitrary, and so
are the bounds on requests and failures. The exception is FileManager, whose items
are the four that MCWebApp gives it.

Each proof has the same shape: an inductive invariant `IInv`, one lemma per
action that it is kept, and theorems for what follows from it. `IInv` was checked
with TLC before it was proved.

**ServerProofs, KeyedMutex.** `MutualExclusion` is not inductive: it says nothing about
a task that has its Arc but has not queued yet, which `cleanup` could leave
with a mutex the table no longer has. `IInv` adds `OneMutexPerKey` (who has a
clone has the one in the table), `KeysIndependent`, `QueuedHaveArc` and
`NoDuplicates`. `CleanupIInv` rests on `UncountedIsFree`: a `strong_count` of
one means that no task has a clone. Theorems: `KeyedMutexInvariant`,
`KeyedMutexTypeOK`, `KeyedMutexExclusion`, and `KeyedMutexRefines`, that the
table implements KeyedLock: `Lookup` and `Cleanup` are stutters (a fresh mutex,
and one that is evicted, have empty queues), `Enqueue` is `Join`, the drops are
`Leave`.

**StorageLifecycleProofs.** `RefCountCovers` alone is not inductive either: a
deletion removes a row when its count reaches zero, and only together with
"every row's object is in the bucket" and "every object has its row" does the
next upload of that content find a consistent state. `IInv` has these parts;
`SettleIInv` is the heart: however many of a request's files refer to a
content, the count that is left covers the references that are left. It uses
the library's facts on cardinalities of finite sets. Each action then reduces
to `AttachIInv`, `SoftDeleteIInv` or `SameContentsIInv`. Theorems:
`StorageInvariant`, `StorageTypeOK`, `StorageRefCountCovers`,
`StorageLiveFileReadable`, `StorageNoOrphanObject`. The same lemmas give the
action property `StorageContentKept`: what `Settle` removes has no live
reference left, so the foreign key's SET NULL meets only deleted files
(`KeepsContent`).

**StorageTasksProofs.** The same promises while any number of requests overlap,
fail and deadlock. Between two statements a count is off by what the request is
about to do, so `IInv` says for each statement how: `Covers` adds up the
references that stay, those that were read into `todo` and are to be released
(`Entries`), the one the request is taking from the row (`Leaving`), and what has
been counted or referred to ahead of the other (`Ahead`). It holds of every
content that is not `disturbed`, as the one request that has it in hand sees the
tables; what that request does not have in hand it does not touch (`Moves`).
What keeps two views apart are the locks (`DraftFits`), the foreign key
(`Linked`), one row per hash, and that a transaction gives no file to a content
it has not in hand. `StepKeeps` is the frame: a step that leaves its own request
with what it must know (`OwnFits`) keeps everything of the others; each of the
statements is then a lemma of its own. For a server with one request
at a time and no failure, `Exempt` is empty, though such a request may still
give up (an item that is gone): `AloneFits` says what it leaves then. Theorems:
`StorageTasksInvariant`, `StorageTasksTypes`, `StorageTasksConfined`
(`InterferenceConfined`), `StorageTasksDeletesUnreferenced` and, with one task and no
failure as in mc_storage_tasks, `StorageTasksKept` (`StorageKept`).

**StorageRefinementProofs.** `RefinesLifecycle`, for one request at a time and none that
fails: the statements of a request are together the one step that StorageLifecycle
makes of it. `Shown` is the tables as the request in progress found them (`settled`), so
nothing of it shows before its last statement. The invariant `SoleInv` adds to `IInv`
that those tables are well formed and counted (`WellFormed`, `Covered`), and what lies
between them and the tables the request sees now, transaction included (`Progress`).
There is a predicate per operation for that (`UploadFits`, `DeleteFits`, `MoveFits`,
`CopyFits`, `RenameFits`, `ScanFits`, `PurgeFits`). A deletion, for
instance, has soft-deleted and released exactly a set D of its items, whatever their
order: `AfterRelease` says what that does to counts, rows and bucket at once, and
`ReleaseOne` that one more release takes D to D and that item. Each statement then
either goes on (`Onward`: the same is shown, and the predicate holds of the next
statement) or ends the request (`Ended`: what is shown then is one step of
StorageLifecycle, or as it was). Theorem: `StorageTasksRefine`.

**ServerProofs, UploadSession.** (Prefix `Session`.) Nothing in `OneWholeFile` says why a second completion
fails. `IInv` follows the multipart upload through its states
(`RowFollowsUpload`): while it is open nothing has been made; once it is
completed its row is there, and pending only if somebody is still at work or
has failed (`Unfinished`). `RequestFits` says what each handler
relies on between two steps, `OneCommitted` that only one can be past S3's
commit. Theorems: `UploadSessionInvariant`, `UploadSessionsInOrder`,
`UploadAckedPartsKept`, `UploadOneWholeFile`.

**ServerProofs, ScanPipeline.** (It has the prefix `Scan` on its
specification, as one module speaks of all three.) `StatusExplained` gives each status its reason: a row
that says `scanning` has a scanner that has claimed it (a worker that merely
selected it does not count, since its claim may fail), or its scan
was lost. Theorems: `ScanPipelineInvariant`, `ScanPipelineInOrder`,
`ScanPipelineThreatNotForgotten`.

**FolderTreeProofs.** A tree has no induction here: `Above(f)` is the least set
with f that is closed under `parent`, and a cycle is a set in which everybody
has a parent. A walk that has not been overtaken keeps "if the item is above the
target, it is above where the walk is" (`RequestFits`); when it ends at the root,
the move makes no cycle. A deletion's stack is a path down (`PathDown`) and all
below what is gone is gone or on its way (`BelowIsVisited`); the path visits no
folder twice, so it is no longer than there are folders (`RecursionConfined`,
by cardinality). A copy's drafts have no cycle and hang from the target
(`DraftsFit`), and what it reads is below the item (`CopiedFits`). Theorems:
`FolderTreeInvariant`, `FolderTreeInOrder`, `FolderTreeCopies`.

**UploadQueueProofs.** That a file is stored in the folders it had depends on everything
that names a folder by its number: the caches (`CachesFit`), the workers on their way down
(`WantsFit`) and the sessions (`SessionsAimed`). What a number means, `NamesOf`, is a
recursive function over a list that grows; that its values are those of the parents and
stay when a folder is added (`NamesAgree`, `FolderAdded`) follows from a least folder for
which it would be otherwise, as parents are older (`Tree`). `FoldersOnce` needs to know why
a drop that makes a folder does not have it: every folder it made is in its cache, or about
to be looked for, or noted as lost (`FoldersKnown`), and two workers that make the same one
were noted (`RacesNoted`). For `ResumableKept` a large file must be in one place at a time
(`Once`): only then is a session that begins one without data, and a session that was known
never pending again; `DataKept` has the states between metadata and data, completion and
cleanup. `AbortConfined` rests on the sessions in the rows (`RowsNamed`). The steps are
sorted by what they do to the workers and the folders (`Shapes`), to the sessions
(`SessionSteps`), to IndexedDB (`DatabaseSteps`) and to what is stored (`StoreSteps`), and
each part of the invariant is kept by these. Theorems: `UploadQueueInvariant`,
`UploadDropsInOrder`, `UploadSessionsKept`.

**SharesProofs.** The two action properties look back over a request. `GoneFits`
carries "gone all along": what is in `gone[r]` is gone now and is not among what was read.
Nothing is gone for good (a late claim, a renewed expiry and a move bring things back), so
only what stayed out of reach at every instant counts, and what came back leaves `gone[r]`
at that instant. `OfferFits` carries the opposite: while all has been on offer, what was
read is current. `VisitFits` and `CommandFits` are the program counters; `VisitsAreLogged`
and `DeletedHaveNoLinks` complete `IInv`.
Theorems: `SharesInvariant`, `SharesLogsInOrder`, `SharesDeletedHaveNoLinks`,
`SharesNothingGoneIsServed`, `SharesRefusedForCause`.

**WebAppProofs.** A step of MCWebApp is a step of the part that was chosen, so each
part has an inductive invariant of its own, with a lemma for its first state, one
for its steps, and one that lifts it to the run. What the properties do not say
and the invariants add:

* AuthPage (`AuthInv`): while no two fetches overlap, an answer is one to the
  question on the page, since a fetch that starts clears what was typed.
* AppSession (`AppInv`): the token in the store belongs to the user of every
  dashboard that is shown, and its requests were sent with that token; a form has one
  sign-in under way at a time and its tab draws the form until that has ended
  (`FormsWait`), so that the refusal of one meets no dashboard of its own tab.
* SharePage (`PublicInv`): before the data of the link has come nothing else is
  asked for; then what is missing on the page is under way or was refused.
* FolderHistory (`HistoryInv`), UploadToast (`ToastInv`): the flag that swallows the
  next folder is set by a step within the same one; the box's timer runs only once
  the effects have seen that all has ended.
* SearchBox, SharesList, ItemModals (`SearchInv`, `ListInv`, `ModalsInv`): unless
  two overlapped or one failed, the one request under way is for the text, the list or
  the window that is shown, and without one what is shown is its answer.
* Dashboard (`DataInv`): what a listing that can be relied on has drawn, and where the
  request for the rest goes on; and that a star is as the click asked unless the one
  request that turns it is under way. Paging needs that the places of a list are all
  taken and no two items share one (`Ranked`, by the pigeonhole principle).
* FileManager (`FilesInv`): the pointer holds one thing, the file of an open menu
  is selected unless the menu was overtaken, a paste under way is one of what is in
  the clipboard. `CircularConfined` also needs the walk up a tree, a recursive
  function: that it exists, stays in a closed set and is the same in two trees that
  agree along it (`WalkExists`, `WalkIn`, `WalksAgree`) follows without induction,
  from the first step that would be otherwise (`Least`, `FirstOf`).
* Thumbnail (`PictureInv`): a round of polls that has begun has a timer or a request,
  and has neither for what is there or is being scanned.

Theorems: `WebRightAnswerCounts`, `WebSessionsApart`, `WebSharedAsShown`,
`WebHistoryFits`, `WebUploadsSeen`, `WebShownFits`, `WebMenuHitsItsFile`,
`WebClipboardKept`, `WebRowsFit`, `WebCircularConfined`.

Only model-checked: all liveness (`EventuallyServed`, `EventuallyJudged`,
`WalksEnd`, `EveryDropEnds`, `QuestionsRefreshed`) and `LocksFit`, which needs
ENABLED: these are outside the prover's reach.

## 7. Where code and documentation part

* **v_shared_storage**, `SharedStorageKept`. `api/ARCHITECTURE.md:262`:
  "Reference counting ensures shared storage is cleaned up only when all
  references are removed." `decrement_ref_count` (`storage_lifecycle.rs:26`)
  reads the count with one statement and writes it with another, and other
  requests take references without looking at it again. Two overlapping
  requests suffice to delete an object that a live file refers to.
* **v_folder_cycle**, `Acyclic`. `web/lib/utils/fileUtils.ts:5` has a descendant
  check "to prevent circular moves in the file system", and `rename_item` one
  of its own (`manage.rs:293`). `bulk_move` compares the target with the item
  alone (`bulk.rs:34`), and pasting a cut folder calls it.
* **v_icon_polling**, `PollingStops`. `FileIcon.tsx:267` says "Stop after ~60s
  (12 * 5s)". At the end of the round `setIsPolling(false)` (`:272`) runs the primary
  effect again, of which `isPolling` is a dependency (`:255`), and that starts the next
  round: an icon without a picture polls as long as it is mounted.

Met while modelling, and visible in the exceptions of the properties rather than in
runs of their own:

* `api/ARCHITECTURE.md:94` calls `bulk_delete` atomic. The object is deleted inside
  the transaction (`storage_lifecycle.rs:42`): one that is rolled back has its
  rows again, but not its bytes (`Fail` of StorageTasks).
* `UploadProgressToast.tsx`: every tick of the countdown and every request of the
  page sets the timer to five seconds or more, so with polling the box stays.
  `handleClose` clears uploads that were added while it cancelled, and the
  queue's own timer (`useFileUpload.ts:447`) the waiting rows of other drops.
* `useFolderNavigation.ts`: on a mobile screen closing the side bar or a window
  leaves `isInternalNavigation` set, so the next folder is not pushed.
* `httpClient.ts:36`: the 401 of a request with an old token, or with none,
  removes the newer one. A dashboard that stays mounted while another tab signs
  in as someone else shows that user's data among its own. Wrong
  credentials are a 401, too: they reload the sign-in page before it says so, and as the
  request was sent with whatever token another tab had stored by then, they sign that
  tab out.
* `handleToggleFavorite` decides by the rows, the menu's wording by the list of the
  first 24 favourites: they differ when there are more.
* `PublicSharePage.tsx:76` takes the body of an answer without looking at its status:
  the message of a 403 (infected) or of a 500 is shown as the text of the file; and
  a folder whose listing was refused is shown as empty.
* A worker or an upload that claims late (`worker.rs:94`, `upload.rs:204`) sets an infected
  content back to "scanning": it is served again until the next result.
* `ShareAccessLogModal.tsx`, opened for an item without links, shows the log that
  was loaded before.
* `useSearch.ts`: a failed search leaves the results of the one before; a text of three
  characters that are blanks but for two is said to have no results unsearched.
* `useDashboardData.ts`: a late answer for a folder that was left sets the paging
  flag of the one shown.
* `captcha.rs` cuts the time an address has to wait down to whole seconds, so in the
  last second the page is told to wait 0 seconds and offers "Retry" without a countdown.
* The path bar (`FolderPath.tsx:91-120`) follows `parentId` without remembering where
  it has been; in a cycle (v_folder_cycle) it does not end.

## 8. What is not modelled

* **Read-only queries** (the pre-check, filters of the listings, pending sessions,
  archives, `has_active_shares`): they change nothing; the walk of
  `get_folder_path` is modelled because it may not end.
* **`expiration_worker`** (`services/expiration.rs`), which nothing starts: the
  worker's own clean-up does the sweep.
* **Single-row updates** (user settings, profile, audit log) and the preferences
  in localStorage.
* **The clamd protocol and the S3 client**: byte streams; their outcomes are
  choices of the models that use them.
* **Statistics**: sums that are computed anew in the background.
* **Metadata and image decoding, validation, hashes, icons, layout, sorting, the
  viewers of PDF and video, configuration, seeding**: data without control.
* **VirtualFileTable, VirtualFileGrid, SearchFilter**: no page uses them.
* **Hazards without a property** have a note in `PROJECT.json`: the object left
  in the bucket when an upload fails after storing it (there is no recovery to
  check), the client's hash, and the scan that never ends.

## 9. Plan

| | Module | Composes, implements | State |
|---|---|---|---|
| 1 | KeyedMutex | implements KeyedLock | checked, proved |
| 2 | StorageLifecycle | | checked, proved |
| 3 | StorageTasks | implements StorageLifecycle; has the bulk lock and the worker | checked, safety and refinement proved |
| 4 | StorageLocks | StorageTasks with KeyedLock's lines | checked |
| 5 | UploadSession | ends in process_upload | checked, proved |
| 6 | ScanPipeline | uploads' scans and workers | checked, safety proved |
| 7 | FolderTree | rename, bulk operations under the lock | checked, safety proved |
| 8 | UploadQueue | the client against the server's answers | checked, safety proved |
| 9 | Shares | links, tickets, sweep, scans, late claims, merges, uploads | checked, proved |
| 10 | AuthPage, AppSession | sign-in with the server's captcha; tokens and tabs | checked, safety proved |
| 11 | Dashboard, SearchBox, FolderHistory | late answers to fetches, polling, navigation | checked, proved |
| 12 | FileManager, ItemModals, SharesList, SharePage | the file manager and the pages of links | checked, proved |
| 13 | UploadToast, Thumbnail | the box over UploadQueue's rows; icons | checked, proved |
| 14 | MCWebApp | 10 to 13 side by side; MCServer, MCStorage likewise | checked, safety proved |
| 15 | Thumbnail queue of the server, validation | a bounded queue; pure functions | to do |

Abstract specifications to add: for UploadSession one of a session as a whole
(open, completed, aborted) that the three copies implement; for Shares one of
entitlement that the read sequences implement.

Proofs to add: that these two are implemented.
