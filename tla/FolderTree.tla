----------------------------- MODULE FolderTree -----------------------------
(***************************************************************************)
(* The folders of one user: user_files.parent_id and deleted_at, which     *)
(* create_folder, rename_item and get_folder_path                          *)
(* (api/src/api/handlers/files), bulk_move, bulk_copy, delete_item and     *)
(* bulk_delete (api/src/services/file_service) write and walk.             *)
(*                                                                         *)
(* Nothing in the database makes the parents a tree.  rename_item walks up *)
(* from the target, one SELECT at a time and without a lock, before it     *)
(* moves a folder; bulk_move and bulk_copy look at the target's id alone;  *)
(* deletions and copies walk down, one SELECT for each folder, in a        *)
(* transaction under the user's bulk lock.  A bulk_move is one step here:  *)
(* it, too, holds the lock and commits all of its updates together, and    *)
(* reads nothing but that its items exist.                                 *)
(*                                                                         *)
(* An item is a folder here: a file moves as a folder does in which        *)
(* nothing is put, and merges and contents are StorageTasks'.              *)
(***************************************************************************)
EXTENDS Integers, FiniteSets, Sequences

CONSTANTS
    Tasks,       \* handler invocations
    Folders,     \* ids of folders, used or not
    Root,        \* no parent
    NoTask,      \* the bulk lock is free
    MaxRequests  \* bound on the requests

ASSUME FoldersAssumption == IsFiniteSet(Folders)
ASSUME NullAssumption == Root \notin Folders /\ NoTask \notin Tasks
ASSUME BoundAssumption == MaxRequests \in Nat

Places == Folders \cup {Root}
Steps == {"idle", "check", "walk", "update", "path", "lock", "delete", "commit_delete", "copy", "commit_copy"}

VARIABLES
    parent,   \* the rows: per folder that there is, its parent_id
    live,     \* the folders whose deleted_at is NULL
    lock,     \* who has the bulk lock of the user
    step,     \* per handler: its next step
    req,      \* per handler: its arguments and local variables
    tainted,  \* history: folders put somewhere unchecked, or on a check that was stale
    stray,    \* history: folders put below one that was deleted or about to be
    served    \* how many requests have begun

vars == <<parent, live, lock, step, req, tainted, stray, served>>

\* item goes to target; current is where a walk is; dirty tells that folders were
\* moved or deleted meanwhile; frames is the stack of a recursion: a folder, for a
\* copy its new id, and the children still to visit; drafts are the uncommitted
\* rows of a copy, gone the uncommitted deletions.
NoReq == [item |-> Root, target |-> Root, current |-> Root, dirty |-> FALSE,
          frames |-> <<>>, drafts |-> <<>>, gone |-> {}]

Exists(f) == f \in DOMAIN parent

\* Rows by id, and the rows of one table together with those of another.
Tables == UNION {[F -> Places] : F \in SUBSET Folders}
Row(f, p) == [g \in {f} |-> p]
With(rows, more) == [f \in DOMAIN rows \cup DOMAIN more |-> IF f \in DOMAIN more THEN more[f] ELSE rows[f]]

Frames == [folder : Places, new : Places, todo : SUBSET Folders]
Requests == [item : Places, target : Places, current : Places, dirty : BOOLEAN,
             frames : Seq(Frames), drafts : Tables, gone : SUBSET Folders]

TypeOK ==
    /\ parent \in Tables
    /\ live \subseteq DOMAIN parent
    /\ lock \in Tasks \cup {NoTask}
    /\ step \in [Tasks -> Steps]
    /\ req \in [Tasks -> Requests]
    /\ \A t \in Tasks :
         /\ DOMAIN req[t].drafts \cap DOMAIN parent = {}
         /\ req[t].gone \subseteq DOMAIN parent
         /\ lock # t => req[t].frames = <<>> /\ req[t].drafts = <<>> /\ req[t].gone = {}
    /\ tainted \subseteq DOMAIN parent
    /\ stray \subseteq DOMAIN parent
    /\ served \in 0 .. MaxRequests

Init ==
    /\ parent = <<>> /\ live = {}
    /\ lock = NoTask
    /\ step = [t \in Tasks |-> "idle"]
    /\ req = [t \in Tasks |-> NoReq]
    /\ tainted = {} /\ stray = {}
    /\ served = 0

-----------------------------------------------------------------------------
\* A folder and all that it is in: what is in every set that has the folder and
\* is closed upwards.
ClosedUp(U) == \A g \in U \cap DOMAIN parent : parent[g] \in U
Above(f) == {g \in Places : \A U \in SUBSET Places : f \in U /\ ClosedUp(U) => g \in U}

Deleting == lock # NoTask /\ step[lock] \in {"delete", "commit_delete"}

\* Whoever is under way has seen the tree as it was.
Dirtied(t) == [u \in Tasks |-> IF u = t THEN NoReq
                               ELSE [req[u] EXCEPT !.dirty = @ \/ step[u] # "idle"]]

Begin(t, next, r) ==
    /\ step[t] = "idle" /\ served < MaxRequests
    /\ served' = served + 1
    /\ step' = [step EXCEPT ![t] = next]
    /\ req' = [req EXCEPT ![t] = r]

Goto(t, next) == step' = [step EXCEPT ![t] = next]

\* A request that leaves the tree as it is, and one that has changed it.
Refuse(t) == Goto(t, "idle") /\ req' = [req EXCEPT ![t] = NoReq]
Done(t) == Goto(t, "idle") /\ req' = Dirtied(t)

\* history: the folders F are put in their place.
Put(F, unsafe) == stray' = IF unsafe \/ Deleting THEN stray \cup F ELSE stray \ F

-----------------------------------------------------------------------------
\* create_folder: one INSERT; parent_id is taken as it comes.
CreateFolder(t, f, p) ==
    /\ step[t] = "idle" /\ served < MaxRequests
    /\ served' = served + 1
    /\ ~Exists(f) /\ (p = Root \/ Exists(p))
    /\ f \notin UNION {DOMAIN req[u].drafts : u \in Tasks}
    /\ parent' = With(parent, Row(f, p))
    /\ live' = live \cup {f}
    /\ Put({f}, p \in Folders \ live)
    /\ UNCHANGED <<lock, step, req, tainted>>

-----------------------------------------------------------------------------
\* rename_item with another parent_id: the item is read.
BeginRename(t, f, p) ==
    /\ f \in live /\ (p = Root \/ Exists(p))
    /\ Begin(t, IF p = Root THEN "update" ELSE "check",
             [NoReq EXCEPT !.item = f, !.target = p, !.current = p])
    /\ UNCHANGED <<parent, live, lock, tainted, stray>>

\* The target is read, and must be a live folder other than the item.
CheckTarget(t) ==
    LET valid == req[t].target \in live /\ req[t].target # req[t].item
    IN  /\ step[t] = "check"
        /\ \/ valid /\ Goto(t, "walk") /\ UNCHANGED req
           \/ ~valid /\ Refuse(t)
        /\ UNCHANGED <<parent, live, lock, tainted, stray, served>>

\* Mutant: only the target itself is compared.
WalkOnce(t) ==
    LET r == req[t]
    IN  /\ step[t] = "walk"
        /\ \/ r.current = r.item /\ Refuse(t)
           \/ r.current # r.item /\ Goto(t, "update") /\ UNCHANGED req
        /\ UNCHANGED <<parent, live, lock, tainted, stray, served>>

\* Mutant: the walk stops only at the item.
WalkForever(t) ==
    LET r == req[t]
    IN  /\ step[t] = "walk"
        /\ \/ r.current = r.item /\ Refuse(t)
           \/ /\ r.current # r.item /\ parent[r.current] # Root
              /\ req' = [req EXCEPT ![t].current = parent[r.current]]
              /\ UNCHANGED step
        /\ UNCHANGED <<parent, live, lock, tainted, stray, served>>

\* The circularity check: one SELECT for each folder above the target.
Walk(t) ==
    LET r == req[t]
    IN  /\ step[t] = "walk"
        /\ \/ r.current = r.item /\ Refuse(t)
           \/ r.current # r.item /\ parent[r.current] = Root /\ Goto(t, "update") /\ UNCHANGED req
           \/ /\ r.current # r.item /\ parent[r.current] # Root
              /\ req' = [req EXCEPT ![t].current = parent[r.current]]
              /\ UNCHANGED step
        /\ UNCHANGED <<parent, live, lock, tainted, stray, served>>

\* The UPDATE; it waits for a transaction that has deleted the row.
Update(t) ==
    LET r == req[t]
    IN  /\ step[t] = "update"
        /\ \A u \in Tasks : r.item \notin req[u].gone
        /\ parent' = [parent EXCEPT ![r.item] = r.target]
        /\ tainted' = IF r.dirty /\ r.target # Root THEN tainted \cup {r.item} ELSE tainted \ {r.item}
        /\ Put({r.item}, r.dirty)
        /\ Done(t)
        /\ UNCHANGED <<live, lock, served>>

-----------------------------------------------------------------------------
\* get_folder_path walks up, too, as long as the folders are live.
BeginPath(t, f) ==
    /\ Exists(f)
    /\ Begin(t, "path", [NoReq EXCEPT !.current = f])
    /\ UNCHANGED <<parent, live, lock, tainted, stray>>

PathStep(t) ==
    LET r == req[t]
    IN  /\ step[t] = "path"
        /\ \/ (r.current = Root \/ r.current \notin live) /\ Refuse(t)
           \/ /\ r.current \in live
              /\ req' = [req EXCEPT ![t].current = parent[r.current]]
              /\ UNCHANGED step
        /\ UNCHANGED <<parent, live, lock, tainted, stray, served>>

-----------------------------------------------------------------------------
\* bulk_move: of its check only that an item is not its own parent is left.
BulkMove(t, F, p) ==
    LET moved == F \ {p}
    IN  /\ step[t] = "idle" /\ served < MaxRequests /\ lock = NoTask
        /\ F # {} /\ F \subseteq DOMAIN parent /\ (p = Root \/ Exists(p))
        /\ served' = served + 1
        /\ parent' = [f \in DOMAIN parent |-> IF f \in moved THEN p ELSE parent[f]]
        /\ tainted' = IF Above(p) \cap moved # {} THEN tainted \cup moved ELSE tainted \ moved
        /\ Put(moved, p \in Folders \ live)
        /\ req' = Dirtied(t)
        /\ UNCHANGED <<live, lock, step>>

-----------------------------------------------------------------------------
\* What a SELECT of the children of f in the transaction of t returns.
Children(t, f) ==
    {g \in live \ req[t].gone : parent[g] = f}
      \cup {g \in DOMAIN req[t].drafts : req[t].drafts[g] = f}

Top(t) == req[t].frames[Len(req[t].frames)]
Visit(frames, f) == [frames EXCEPT ![Len(frames)].todo = @ \ {f}]
Pop(frames) == SubSeq(frames, 1, Len(frames) - 1)

\* A recursion deeper than this has run into a cycle; it goes on until the stack or
\* the memory is used up.
MaxDepth == Cardinality(Folders) + 2

\* delete_item of a folder reads it before it has the lock.
BeginDelete(t, f) ==
    /\ f \in live
    /\ Begin(t, "lock", [NoReq EXCEPT !.item = f])
    /\ UNCHANGED <<parent, live, lock, tainted, stray>>

LockDelete(t) ==
    LET f == req[t].item
    IN  /\ step[t] = "lock" /\ lock = NoTask
        /\ lock' = t
        /\ req' = [req EXCEPT ![t].frames = <<[folder |-> f, new |-> Root, todo |-> Children(t, f)]>>]
        /\ Goto(t, "delete")
        /\ UNCHANGED <<parent, live, tainted, stray, served>>

\* bulk_delete takes the lock first.  The list of its items is a frame of no folder.
BeginBulkDelete(t, F) ==
    /\ lock = NoTask /\ F # {} /\ F \subseteq DOMAIN parent
    /\ Begin(t, "delete", [NoReq EXCEPT !.frames = <<[folder |-> Root, new |-> Root, todo |-> F]>>])
    /\ lock' = t
    /\ UNCHANGED <<parent, live, tainted, stray>>

\* An item of the list that is deleted by now, by this transaction or another, is
\* left out; the children of a folder are those that were live when they were read.
Skipped(t, f) == Top(t).folder = Root /\ f \notin live \ req[t].gone

SkipItem(t, f) ==
    /\ step[t] = "delete" /\ f \in Top(t).todo /\ Skipped(t, f)
    /\ req' = [req EXCEPT ![t].frames = Visit(@, f)]
    /\ UNCHANGED <<parent, live, lock, step, tainted, stray, served>>

\* delete_folder_recursive: the children of the next child are read,
DeleteInto(t, f) ==
    /\ step[t] = "delete" /\ Len(req[t].frames) < MaxDepth
    /\ f \in Top(t).todo /\ ~Skipped(t, f)
    /\ req' = [req EXCEPT ![t].frames =
                 Append(Visit(@, f), [folder |-> f, new |-> Root, todo |-> Children(t, f)])]
    /\ UNCHANGED <<parent, live, lock, step, tainted, stray, served>>

\* and the folder is deleted after them.
DeleteSelf(t) ==
    /\ step[t] = "delete" /\ Top(t).todo = {}
    /\ req' = [req EXCEPT ![t].frames = Pop(@), ![t].gone = @ \cup ({Top(t).folder} \cap Folders)]
    /\ Goto(t, IF Len(req[t].frames) = 1 THEN "commit_delete" ELSE "delete")
    /\ UNCHANGED <<parent, live, lock, tainted, stray, served>>

CommitDelete(t) ==
    /\ step[t] = "commit_delete"
    /\ live' = live \ req[t].gone
    /\ lock' = NoTask
    /\ Done(t)
    /\ UNCHANGED <<parent, tainted, stray, served>>

-----------------------------------------------------------------------------
Unused == Folders \ (DOMAIN parent \cup UNION {DOMAIN req[u].drafts : u \in Tasks})

\* Mutant: the copy is put into the original.
CopyInside(t, r, f, n, p) ==
    LET drafts == With(r.drafts, Row(n, f))
        kids == {g \in live : parent[g] = f} \cup {g \in DOMAIN drafts : drafts[g] = f}
    IN  [r EXCEPT !.drafts = drafts,
                  !.frames = Append(@, [folder |-> f, new |-> n, todo |-> kids])]

\* copy_recursive inserts the copy, then reads the children of the original.
Copy(t, r, f, n, p) ==
    LET drafts == With(r.drafts, Row(n, p))
        kids == {g \in live : parent[g] = f} \cup {g \in DOMAIN drafts : drafts[g] = f}
    IN  [r EXCEPT !.drafts = drafts,
                  !.frames = Append(@, [folder |-> f, new |-> n, todo |-> kids])]

\* bulk_copy of one folder, deleted or not.
BeginCopy(t, f, p, n) ==
    /\ lock = NoTask /\ Exists(f) /\ (p = Root \/ Exists(p)) /\ n \in Unused
    /\ Begin(t, "copy", Copy(t, [NoReq EXCEPT !.item = f, !.target = p], f, n, p))
    /\ lock' = t
    /\ UNCHANGED <<parent, live, tainted, stray>>

CopyInto(t, f, n) ==
    /\ step[t] = "copy" /\ f \in Top(t).todo /\ n \in Unused
    /\ LET r == [req[t] EXCEPT !.frames = Visit(@, f)]
       IN  req' = [req EXCEPT ![t] = Copy(t, r, f, n, Top(t).new)]
    /\ UNCHANGED <<parent, live, lock, step, tainted, stray, served>>

CopyDone(t) ==
    /\ step[t] = "copy" /\ Top(t).todo = {}
    /\ req' = [req EXCEPT ![t].frames = Pop(@)]
    /\ Goto(t, IF Len(req[t].frames) = 1 THEN "commit_copy" ELSE "copy")
    /\ UNCHANGED <<parent, live, lock, tainted, stray, served>>

CommitCopy(t) ==
    /\ step[t] = "commit_copy"
    /\ parent' = With(parent, req[t].drafts)
    /\ live' = live \cup DOMAIN req[t].drafts
    /\ stray' = IF req[t].target \in Folders \ live
                THEN stray \cup {n \in DOMAIN req[t].drafts : req[t].drafts[n] = req[t].target} ELSE stray
    /\ lock' = NoTask
    /\ Refuse(t)
    /\ UNCHANGED <<tainted, served>>
-----------------------------------------------------------------------------
Next ==
    \E t \in Tasks :
        \/ \E f \in Folders, p \in Places : CreateFolder(t, f, p) \/ BeginRename(t, f, p)
        \/ CheckTarget(t) \/ Walk(t) \/ Update(t) \/ PathStep(t)
        \/ \E f \in Folders : BeginPath(t, f) \/ BeginDelete(t, f) \/ DeleteInto(t, f)
        \/ \E F \in SUBSET Folders, p \in Places : BulkMove(t, F, p)
        \/ \E F \in SUBSET Folders : BeginBulkDelete(t, F)
        \/ \E f \in Folders : SkipItem(t, f)
        \/ LockDelete(t) \/ DeleteSelf(t) \/ CommitDelete(t)
        \/ \E f, n \in Folders, p \in Places : BeginCopy(t, f, p, n)
        \/ \E f, n \in Folders : CopyInto(t, f, n)
        \/ CopyDone(t) \/ CommitCopy(t)

Spec == Init /\ [][Next]_vars

\* The database answers every SELECT of a walk.
FairSpec == Spec /\ \A t \in Tasks : WF_vars(Walk(t)) /\ WF_vars(PathStep(t))

-----------------------------------------------------------------------------
\* fileUtils.ts:5, manage.rs:293: no folder is moved into itself or below itself.
Acyclic == \A f \in DOMAIN parent : parent[f] \in Folders => f \notin Above(parent[f])

\* The circularity check of rename_item is worth something: in every cycle there is
\* a folder that bulk_move put below itself, or that was moved after a check during
\* which others were moved or deleted.
CyclesConfined ==
    \A C \in SUBSET (DOMAIN parent \ tainted) : C # {} => \E f \in C : parent[f] \notin C

\* What is not deleted can be reached: a deletion takes everything below with it.
\* Only folders put below a deleted one, or put anywhere during a deletion or after
\* a stale check, are lost from view.
LiveBelowLive == \A f \in live \ stray : parent[f] \in live \cup {Root}

\* The recursion of a deletion ends, if there is no cycle to run into and nobody
\* moves folders meanwhile.
RecursionConfined ==
    \A t \in Tasks : step[t] = "delete" /\ Len(req[t].frames) = MaxDepth => tainted # {} \/ req[t].dirty

\* A copy does not copy what it has itself made, unless a folder is copied into
\* itself or below itself, or others move folders meanwhile.
CopiesOriginals ==
    \A t \in Tasks : step[t] = "copy" =>
        \/ \A i \in DOMAIN req[t].frames : req[t].frames[i].folder \notin DOMAIN req[t].drafts
        \/ req[t].dirty
        \/ req[t].item \in Above(req[t].target)

\* Every walk up the tree ends, if there is no cycle to run into.
WalksEnd ==
    \A t \in Tasks :
        step[t] \in {"walk", "path"} ~> (step[t] \notin {"walk", "path"} \/ tainted # {})

\* The tree stays one for all that rename_item, the deletions and the copies know of:
\* cycles, lost folders and endless deletions come from what their parts except.
TreeInOrder == TypeOK /\ CyclesConfined /\ LiveBelowLive /\ RecursionConfined
=============================================================================
