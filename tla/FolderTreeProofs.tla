--------------------------- MODULE FolderTreeProofs ---------------------------
(***************************************************************************)
(* Folders, for any numbers of handlers, folders and requests: cycles come *)
(* only from moves that were not checked, or on a tree that had changed,   *)
(* deletions take all that is below with them and end, and copies copy     *)
(* originals.                                                              *)
(***************************************************************************)
EXTENDS FolderTree, TLAPS, FiniteSetTheorems

\* Ids that a request may hold: folders that there are, and no parent.
Nodes == DOMAIN parent \cup {Root}

ParentsExist == \A f \in DOMAIN parent : parent[f] \in Nodes

\* The bulk lock is held for the steps of the transactions of deletions and copies.
LockHeld == \A t \in Tasks : lock = t <=> step[t] \in {"delete", "commit_delete", "copy", "commit_copy"}

\* A walk that found the tree at rest has not passed the item, and when it is over
\* the item is not above its target.
RequestFits(t) ==
    LET r == req[t]
    IN  /\ {r.item, r.target, r.current} \subseteq Nodes
        /\ step[t] \in {"check", "walk", "update", "lock"} => r.item \in DOMAIN parent
        /\ step[t] \in {"check", "walk"} => r.current \in DOMAIN parent
        /\ step[t] = "check" => r.current = r.target
        /\ step[t] \in {"walk", "update"} /\ ~r.dirty => r.target \in live \cup {Root}
        /\ step[t] = "walk" /\ ~r.dirty /\ r.item \in Above(r.target) => r.item \in Above(r.current)
        /\ step[t] = "update" /\ ~r.dirty => r.item \notin Above(r.target)

\* The stack of a deletion is a path down the tree, with the children still to visit.
PathDown(frames) ==
    \A i \in DOMAIN frames :
        frames[i].folder # Root =>
            /\ \A g \in frames[i].todo : parent[g] = frames[i].folder
            /\ i + 1 \in DOMAIN frames => parent[frames[i + 1].folder] = frames[i].folder

\* What was below a folder when the deletion began is deleted, or will be.
BelowIsVisited(frames, gone) ==
    \A f \in live \ stray :
        /\ parent[f] \in gone => f \in gone
        /\ \A i \in DOMAIN frames :
             parent[f] = frames[i].folder /\ parent[f] # Root =>
                 \/ f \in gone \cup frames[i].todo
                 \/ i + 1 \in DOMAIN frames /\ f = frames[i + 1].folder

DeletionFits(t) ==
    LET r == req[t]
    IN  /\ step[t] \in {"delete", "commit_delete"} =>
             r.drafts = <<>> /\ BelowIsVisited(r.frames, r.gone)
        /\ step[t] = "delete" =>
             /\ r.frames # <<>>
             /\ \A i \in DOMAIN r.frames :
                  /\ r.frames[i].todo \subseteq DOMAIN parent
                  /\ IF i = 1 THEN r.frames[i].folder \in Nodes ELSE r.frames[i].folder \in DOMAIN parent
             /\ r.dirty \/ PathDown(r.frames)
        /\ step[t] = "commit_delete" => r.frames = <<>>

\* No folders of S are in a cycle of the rows.
NoCycle(rows, S) == \A C \in SUBSET S : C # {} => \E f \in C : rows[f] \notin C

\* The copies are below the target.
DraftsFit(r) ==
    /\ \A n \in DOMAIN r.drafts : r.drafts[n] \in DOMAIN r.drafts \cup {r.target}
    /\ NoCycle(r.drafts, DOMAIN r.drafts)

\* What is copied is the item or below it, unless the copies are below it, too.
Original(r, f) == f \in DOMAIN parent /\ r.item \in Above(f)
CopiedFits(r) ==
    /\ r.frames # <<>>
    /\ \A i \in DOMAIN r.frames : r.frames[i].new \in DOMAIN r.drafts
    /\ \/ r.dirty \/ r.item \in Above(r.target)
       \/ \A i \in DOMAIN r.frames :
            Original(r, r.frames[i].folder) /\ \A g \in r.frames[i].todo : Original(r, g)

CopyFits(t) ==
    /\ step[t] \in {"copy", "commit_copy"} => DraftsFit(req[t])
    /\ step[t] = "copy" => CopiedFits(req[t])

IInv ==
    /\ TypeOK /\ LockHeld /\ ParentsExist
    /\ CyclesConfined /\ LiveBelowLive
    /\ \A t \in Tasks : RequestFits(t) /\ DeletionFits(t) /\ CopyFits(t)

-----------------------------------------------------------------------------
\* The parents are a function on the folders that there are.
LEMMA ParentFacts ==
    ASSUME TypeOK
    PROVE  /\ DOMAIN parent \in SUBSET Folders /\ parent \in [DOMAIN parent -> Places]
           /\ Nodes \in SUBSET Places /\ Root \notin DOMAIN parent /\ Root \in Nodes
  <1>1. PICK F \in SUBSET Folders : parent \in [F -> Places]
    BY DEF TypeOK, Tables
  <1> QED
    BY <1>1, NullAssumption DEF Nodes, Places

\* A table with rows added has them, and the others as they were.
LEMMA WithFacts ==
    ASSUME NEW rows \in Tables, NEW more \in Tables
    PROVE  /\ With(rows, more) \in Tables
           /\ DOMAIN With(rows, more) = DOMAIN rows \cup DOMAIN more
           /\ \A f \in DOMAIN more : With(rows, more)[f] = more[f]
           /\ \A f \in DOMAIN rows \ DOMAIN more : With(rows, more)[f] = rows[f]
  <1>1. PICK F \in SUBSET Folders : rows \in [F -> Places]
    BY DEF Tables
  <1>2. PICK G \in SUBSET Folders : more \in [G -> Places]
    BY DEF Tables
  <1>3. With(rows, more) \in [F \cup G -> Places]
    BY <1>1, <1>2 DEF With
  <1> QED
    BY <1>1, <1>2, <1>3 DEF Tables, With

LEMMA RowFacts ==
    ASSUME NEW f \in Folders, NEW p \in Places
    PROVE  Row(f, p) \in Tables /\ DOMAIN Row(f, p) = {f} /\ Row(f, p)[f] = p
  <1>1. Row(f, p) \in [{f} -> Places]
    BY DEF Row
  <1> QED
    BY <1>1 DEF Tables, Row

\* No row.
LEMMA NoRows == <<>> \in Tables /\ DOMAIN <<>> = {}
  <1>1. DOMAIN <<>> = {} /\ <<>> \in [{} -> Places]
    OBVIOUS
  <1> QED
    BY <1>1 DEF Tables

-----------------------------------------------------------------------------
\* Above(f) has f and is closed upwards, and is the least such set.
LEMMA AboveIsClosed ==
    ASSUME TypeOK, NEW f \in Places
    PROVE  f \in Above(f) /\ ClosedUp(Above(f)) /\ Above(f) \in SUBSET Places
  <1>1. f \in Above(f) /\ Above(f) \in SUBSET Places
    BY DEF Above
  <1>2. ASSUME NEW g \in Above(f), g \in DOMAIN parent PROVE parent[g] \in Above(f)
    <2>1. parent[g] \in Places
      BY <1>2, ParentFacts
    <2>2. ASSUME NEW U \in SUBSET Places, f \in U, ClosedUp(U) PROVE parent[g] \in U
      BY <1>2, <2>2 DEF Above, ClosedUp
    <2> QED
      BY <2>1, <2>2 DEF Above
  <1> QED
    BY <1>1, <1>2 DEF ClosedUp

LEMMA AboveIsLeast ==
    ASSUME NEW f, NEW U \in SUBSET Places, f \in U, ClosedUp(U)
    PROVE  Above(f) \subseteq U
  BY DEF Above

\* One step of a walk.
LEMMA AboveStep ==
    ASSUME TypeOK, NEW g \in DOMAIN parent
    PROVE  /\ Above(g) \subseteq {g} \cup Above(parent[g])
           /\ Above(parent[g]) \subseteq Above(g)
  <1>1. g \in Places /\ parent[g] \in Places
    BY ParentFacts DEF Places
  <1>2. /\ parent[g] \in Above(parent[g]) /\ ClosedUp(Above(parent[g])) /\ Above(parent[g]) \in SUBSET Places
        /\ g \in Above(g) /\ ClosedUp(Above(g)) /\ Above(g) \in SUBSET Places
    BY <1>1, AboveIsClosed
  <1>3. ClosedUp({g} \cup Above(parent[g])) /\ {g} \cup Above(parent[g]) \in SUBSET Places
    BY <1>1, <1>2 DEF ClosedUp
  <1>4. Above(g) \subseteq {g} \cup Above(parent[g])
    BY <1>3, AboveIsLeast
  <1>5. parent[g] \in Above(g)
    BY <1>2 DEF ClosedUp
  <1> QED
    BY <1>2, <1>4, <1>5, AboveIsLeast

\* The end of a walk.
LEMMA AboveRoot == TypeOK => Above(Root) \subseteq {Root}
  <1> SUFFICES ASSUME TypeOK PROVE Above(Root) \subseteq {Root}
    OBVIOUS
  <1>1. {Root} \in SUBSET Places /\ ClosedUp({Root})
    BY ParentFacts DEF Places, ClosedUp
  <1> QED
    BY <1>1, AboveIsLeast

\* New rows change nothing above the old ones.
LEMMA AboveIsStable ==
    ASSUME TypeOK, TypeOK', ParentsExist, NEW f \in Nodes, DOMAIN parent \subseteq DOMAIN parent',
           \A g \in DOMAIN parent : parent'[g] = parent[g]
    PROVE  Above(f)' = Above(f)
  <1>1. PICK N \in SUBSET Places : N = Nodes
    BY ParentFacts
  <1>2. f \in N /\ DOMAIN parent \subseteq N /\ \A h \in N \cap DOMAIN parent : parent[h] \in N
    BY <1>1 DEF ParentsExist, Nodes
  <1>3. \A h \in N \cap DOMAIN parent' : h \in DOMAIN parent /\ parent'[h] = parent[h]
    <2>1. Root \notin DOMAIN parent'
      BY NullAssumption DEF TypeOK, Tables
    <2> QED
      BY <1>1, <2>1 DEF Nodes
  <1>4. ASSUME NEW U \in SUBSET Places, f \in U
        PROVE  /\ ClosedUp(U)' => f \in U \cap N /\ ClosedUp(U \cap N)
               /\ ClosedUp(U) => f \in U \cap N /\ ClosedUp(U \cap N)'
    BY <1>2, <1>3, <1>4 DEF ClosedUp
  <1>5. ASSUME NEW g \in Above(f) PROVE g \in Above(f)'
    BY <1>4, <1>5 DEF Above
  <1>6. ASSUME NEW g \in Above(f)' PROVE g \in Above(f)
    <2>1. g \in Places
      BY <1>6 DEF Above
    <2>2. ASSUME NEW U \in SUBSET Places, f \in U, ClosedUp(U) PROVE g \in U
      BY <1>4, <1>6, <2>2 DEF Above
    <2> QED
      BY <2>1, <2>2 DEF Above
  <1> QED
    BY <1>5, <1>6

-----------------------------------------------------------------------------
\* What the recursions do to their stack.
LEMMA VisitFacts ==
    ASSUME NEW s \in Seq(Frames), s # <<>>, NEW f \in Folders
    PROVE  /\ Len(s) \in Nat \ {0} /\ Visit(s, f) \in Seq(Frames) /\ Len(Visit(s, f)) = Len(s)
           /\ DOMAIN Visit(s, f) = DOMAIN s /\ Visit(s, f) # <<>>
           /\ \A i \in DOMAIN s :
                /\ Visit(s, f)[i].folder = s[i].folder /\ Visit(s, f)[i].new = s[i].new
                /\ Visit(s, f)[i].todo = IF i = Len(s) THEN s[i].todo \ {f} ELSE s[i].todo
  <1> DEFINE n == Len(s)
             last == [s[n] EXCEPT !.todo = @ \ {f}]
             v == [s EXCEPT ![n] = last]
  <1>1. n \in Nat \ {0} /\ n \in DOMAIN s /\ DOMAIN s = 1 .. n /\ \A i \in DOMAIN s : s[i] \in Frames
    OBVIOUS
  <1>2. last \in Frames /\ last.folder = s[n].folder /\ last.new = s[n].new /\ last.todo = s[n].todo \ {f}
    BY <1>1 DEF Frames
  <1>3. Visit(s, f) = v
    BY DEF Visit
  <1> HIDE DEF last
  <1>4. v \in Seq(Frames) /\ Len(v) = n /\ DOMAIN v = 1 .. n
    BY <1>1, <1>2
  <1>5. v # <<>>
    BY <1>1, <1>4
  <1>6. \A i \in DOMAIN s : v[i] = IF i = n THEN last ELSE s[i]
    BY <1>1
  <1> HIDE DEF v, n
  <1> QED
    BY <1>1, <1>2, <1>3, <1>4, <1>5, <1>6 DEF n

LEMMA VisitedFrame ==
    ASSUME NEW s \in Seq(Frames), s # <<>>, NEW f \in Folders, NEW i \in DOMAIN s
    PROVE  /\ Visit(s, f)[i].folder = s[i].folder /\ Visit(s, f)[i].new = s[i].new
           /\ Visit(s, f)[i].todo = IF i = Len(s) THEN s[i].todo \ {f} ELSE s[i].todo
  BY VisitFacts

LEMMA PopFacts ==
    ASSUME NEW s \in Seq(Frames), s # <<>>
    PROVE  /\ Len(s) \in Nat \ {0} /\ Pop(s) \in Seq(Frames) /\ Len(Pop(s)) = Len(s) - 1
           /\ DOMAIN Pop(s) = 1 .. Len(s) - 1 /\ DOMAIN s = 1 .. Len(s)
           /\ \A i \in DOMAIN Pop(s) : Pop(s)[i] = s[i]
  <1> DEFINE n == Len(s)
  <1>1. n \in Nat \ {0} /\ DOMAIN s = 1 .. n
    OBVIOUS
  <1>2. Pop(s) \in Seq(Frames) /\ Len(Pop(s)) = n - 1 /\ \A i \in 1 .. n - 1 : Pop(s)[i] = s[i]
    BY <1>1 DEF Pop
  <1>3. DOMAIN Pop(s) = 1 .. n - 1
    BY <1>1, <1>2
  <1> QED
    BY <1>1, <1>2, <1>3

LEMMA PushFacts ==
    ASSUME NEW s \in Seq(Frames), NEW x \in Frames
    PROVE  /\ Append(s, x) \in Seq(Frames) /\ Len(Append(s, x)) = Len(s) + 1 /\ Append(s, x) # <<>>
           /\ DOMAIN Append(s, x) = 1 .. Len(s) + 1 /\ DOMAIN s = 1 .. Len(s) /\ Len(s) \in Nat
           /\ Append(s, x)[Len(s) + 1] = x
           /\ \A i \in DOMAIN s : Append(s, x)[i] = s[i]
  OBVIOUS

LEMMA SingleFacts ==
    ASSUME NEW x \in Frames
    PROVE  <<x>> \in Seq(Frames) /\ Len(<<x>>) = 1 /\ DOMAIN <<x>> = {1} /\ <<x>>[1] = x /\ <<x>> # <<>>
  OBVIOUS

-----------------------------------------------------------------------------
\* A request before it begins.
LEMMA NoReqFacts ==
    /\ NoReq \in Requests
    /\ NoReq.item = Root /\ NoReq.target = Root /\ NoReq.current = Root /\ NoReq.dirty = FALSE
    /\ NoReq.frames = <<>> /\ NoReq.drafts = <<>> /\ NoReq.gone = {}
  <1>1. <<>> \in Seq(Frames) /\ Root \in Places
    BY DEF Places
  <1> QED
    BY <1>1, NoRows DEF NoReq, Requests

\* A request with another stack, and with a stack and drafts or deletions.
LEMMA WithFrames ==
    ASSUME NEW r \in Requests, NEW F \in Seq(Frames)
    PROVE  /\ [r EXCEPT !.frames = F] \in Requests
           /\ [r EXCEPT !.frames = F].frames = F
           /\ [r EXCEPT !.frames = F].item = r.item /\ [r EXCEPT !.frames = F].target = r.target
           /\ [r EXCEPT !.frames = F].current = r.current /\ [r EXCEPT !.frames = F].dirty = r.dirty
           /\ [r EXCEPT !.frames = F].drafts = r.drafts /\ [r EXCEPT !.frames = F].gone = r.gone
  BY DEF Requests

LEMMA WithDrafts ==
    ASSUME NEW r \in Requests, NEW D \in Tables
    PROVE  /\ [r EXCEPT !.drafts = D] \in Requests
           /\ [r EXCEPT !.drafts = D].drafts = D
           /\ [r EXCEPT !.drafts = D].item = r.item /\ [r EXCEPT !.drafts = D].target = r.target
           /\ [r EXCEPT !.drafts = D].current = r.current /\ [r EXCEPT !.drafts = D].dirty = r.dirty
           /\ [r EXCEPT !.drafts = D].frames = r.frames /\ [r EXCEPT !.drafts = D].gone = r.gone
  BY DEF Requests

LEMMA WithGone ==
    ASSUME NEW r \in Requests, NEW G \in SUBSET Folders
    PROVE  /\ [r EXCEPT !.gone = G] \in Requests
           /\ [r EXCEPT !.gone = G].gone = G
           /\ [r EXCEPT !.gone = G].item = r.item /\ [r EXCEPT !.gone = G].target = r.target
           /\ [r EXCEPT !.gone = G].current = r.current /\ [r EXCEPT !.gone = G].dirty = r.dirty
           /\ [r EXCEPT !.gone = G].frames = r.frames /\ [r EXCEPT !.gone = G].drafts = r.drafts
  BY DEF Requests

\* A step of one request that leaves the tree as it is: only that request is to be
\* looked at.
Only(t, r, next) ==
    /\ req' = [req EXCEPT ![t] = r] /\ r \in Requests
    /\ step' = [step EXCEPT ![t] = next] /\ next \in Steps
    /\ served' \in 0 .. MaxRequests
    /\ UNCHANGED <<parent, live, tainted, stray>>

LEMMA OnlyFacts ==
    ASSUME IInv, NEW t \in Tasks, NEW r, NEW next, Only(t, r, next)
    PROVE  /\ req' \in [Tasks -> Requests] /\ step' \in [Tasks -> Steps]
           /\ req'[t] = r /\ step'[t] = next
           /\ \A u \in Tasks \ {t} : step'[u] = step[u] /\ req'[u] = req[u]
           /\ Nodes' = Nodes /\ \A f : Above(f)' = Above(f)
  <1>1. parent' = parent
    BY DEF Only
  <1>2. Nodes' = Nodes /\ \A f : Above(f)' = Above(f)
    BY <1>1 DEF Nodes, Above, ClosedUp
  <1> QED
    BY <1>2 DEF IInv, TypeOK, Only

LEMMA OnlyIInv ==
    ASSUME IInv, NEW t \in Tasks, NEW r, NEW next, Only(t, r, next),
           lock' = lock \/ (lock = NoTask /\ lock' = t),
           DOMAIN r.drafts \cap DOMAIN parent = {}, r.gone \subseteq DOMAIN parent,
           lock' # t => r.frames = <<>> /\ r.drafts = <<>> /\ r.gone = {},
           lock' = t <=> next \in {"delete", "commit_delete", "copy", "commit_copy"},
           RequestFits(t)', DeletionFits(t)', CopyFits(t)'
    PROVE  IInv'
  <1>1. /\ req' \in [Tasks -> Requests] /\ step' \in [Tasks -> Steps]
        /\ req'[t] = r /\ step'[t] = next
        /\ \A u \in Tasks \ {t} : step'[u] = step[u] /\ req'[u] = req[u]
        /\ Nodes' = Nodes /\ \A f : Above(f)' = Above(f)
    BY OnlyFacts
  <1>2. UNCHANGED <<parent, live, tainted, stray>> /\ served' \in 0 .. MaxRequests
    BY DEF Only
  <1>3. TypeOK'
    BY <1>1, <1>2, NullAssumption DEF IInv, TypeOK
  <1>4. LockHeld'
    BY <1>1, NullAssumption DEF IInv, LockHeld
  <1>5. ParentsExist' /\ CyclesConfined' /\ LiveBelowLive'
    BY <1>1, <1>2 DEF IInv, ParentsExist, CyclesConfined, LiveBelowLive
  <1>6. ASSUME NEW u \in Tasks \ {t}
        PROVE  RequestFits(u)' /\ DeletionFits(u)' /\ CopyFits(u)'
    <2>1. RequestFits(u) /\ DeletionFits(u) /\ CopyFits(u) /\ step'[u] = step[u] /\ req'[u] = req[u]
      BY <1>1 DEF IInv
    <2>2. RequestFits(u)'
      BY <1>1, <1>2, <2>1 DEF RequestFits
    <2>3. DeletionFits(u)'
      BY <1>1, <1>2, <2>1 DEF DeletionFits, PathDown, BelowIsVisited
    <2>4. CopyFits(u)'
      BY <1>1, <1>2, <2>1 DEF CopyFits, DraftsFit, CopiedFits, NoCycle, Original
    <2> QED
      BY <2>2, <2>3, <2>4
  <1> QED
    BY <1>3, <1>4, <1>5, <1>6 DEF IInv

\* A request that is not in a transaction has nothing of one.
LEMMA OutsideLock ==
    ASSUME IInv, NEW t \in Tasks, step[t] \notin {"delete", "commit_delete", "copy", "commit_copy"}
    PROVE  /\ lock # t /\ req[t].frames = <<>> /\ req[t].drafts = <<>> /\ req[t].gone = {}
           /\ req[t] \in Requests
  BY DEF IInv, TypeOK, LockHeld

\* A request that goes on with another folder, or is refused.
LEMMA WalkingIInv ==
    ASSUME IInv, NEW t \in Tasks, NEW c \in Nodes, NEW next \in {"walk", "update", "path"},
           step[t] \notin {"delete", "commit_delete", "copy", "commit_copy"},
           Only(t, [req[t] EXCEPT !.current = c], next), lock' = lock, RequestFits(t)'
    PROVE  IInv'
  <1> DEFINE r == [req[t] EXCEPT !.current = c]
  <1>1. /\ lock # t /\ req[t].frames = <<>> /\ req[t].drafts = <<>> /\ req[t].gone = {}
        /\ req[t] \in Requests
    BY OutsideLock
  <1>2. r.frames = <<>> /\ r.drafts = <<>> /\ r.gone = {} /\ DOMAIN r.drafts = {}
    BY <1>1, NoRows DEF Requests
  <1>3. step'[t] = next
    BY OnlyFacts
  <1>4. DeletionFits(t)' /\ CopyFits(t)'
    BY <1>3 DEF DeletionFits, CopyFits
  <1> HIDE DEF r
  <1> QED
    BY <1>1, <1>2, <1>4, OnlyIInv DEF r

LEMMA EndingIInv ==
    ASSUME IInv, NEW t \in Tasks, step[t] \notin {"delete", "commit_delete", "copy", "commit_copy"},
           Refuse(t), UNCHANGED <<parent, live, lock, tainted, stray, served>>
    PROVE  IInv'
  <1>1. Only(t, NoReq, "idle")
    BY NoReqFacts DEF Refuse, Goto, Only, IInv, TypeOK, Steps
  <1>2. step'[t] = "idle" /\ req'[t] = NoReq
    BY <1>1, OnlyFacts
  <1>3. RequestFits(t)' /\ DeletionFits(t)' /\ CopyFits(t)'
    BY <1>2, NoReqFacts DEF RequestFits, DeletionFits, CopyFits, Nodes
  <1> QED
    BY <1>1, <1>3, OutsideLock, NoReqFacts, NoRows, OnlyIInv

\* A request that begins with some arguments.
LEMMA BeginningIInv ==
    ASSUME IInv, NEW t \in Tasks, NEW next \in {"check", "update", "path", "lock"}, NEW r \in Requests,
           Begin(t, next, r), UNCHANGED <<parent, live, lock, tainted, stray>>,
           r.frames = <<>>, r.drafts = <<>>, r.gone = {}, RequestFits(t)'
    PROVE  IInv'
  <1>1. Only(t, r, next) /\ step[t] = "idle"
    BY BoundAssumption DEF Begin, Only, IInv, TypeOK, Steps
  <1>2. step'[t] = next
    BY <1>1, OnlyFacts
  <1>3. DeletionFits(t)' /\ CopyFits(t)'
    BY <1>2 DEF DeletionFits, CopyFits
  <1> QED
    BY <1>1, <1>3, OutsideLock, NoRows, OnlyIInv

LEMMA BeginRenameIInv ==
    ASSUME IInv, NEW t \in Tasks, NEW f \in Folders, NEW p \in Places, BeginRename(t, f, p)
    PROVE  IInv'
  <1> DEFINE next == IF p = Root THEN "update" ELSE "check"
             a == [NoReq EXCEPT !.item = f]
             b == [a EXCEPT !.target = p]
             r == [b EXCEPT !.current = p]
  <1>1. /\ f \in live /\ (p = Root \/ Exists(p)) /\ Begin(t, next, r)
        /\ UNCHANGED <<parent, live, lock, tainted, stray>>
    BY DEF BeginRename
  <1>2. /\ r \in Requests /\ r.item = f /\ r.target = p /\ r.current = p
        /\ r.frames = <<>> /\ r.drafts = <<>> /\ r.gone = {}
    <2>1. a \in Requests /\ a.item = f /\ a.frames = <<>> /\ a.drafts = <<>> /\ a.gone = {}
      BY NoReqFacts DEF Requests, Places
    <2>2. b \in Requests /\ b.item = f /\ b.target = p /\ b.frames = <<>> /\ b.drafts = <<>> /\ b.gone = {}
      <3> HIDE DEF a
      <3> QED
        BY <2>1 DEF Requests
    <2> HIDE DEF b
    <2> QED
      BY <2>2 DEF Requests
  <1>3. f \in DOMAIN parent /\ f # Root /\ p \in Nodes /\ f \in Nodes
    BY <1>1, NullAssumption DEF IInv, TypeOK, Exists, Nodes
  <1> HIDE DEF r
  <1>4. step'[t] = next /\ req'[t] = r
    BY <1>1 DEF IInv, TypeOK, Begin
  <1>5. p = Root => f \notin Above(p)'
    <2>1. Above(Root)' = Above(Root)
      BY <1>1 DEF Above, ClosedUp
    <2> QED
      BY <1>3, <2>1, AboveRoot DEF IInv
  <1>6. RequestFits(t)'
    BY <1>1, <1>2, <1>3, <1>4, <1>5 DEF RequestFits, Nodes, Exists
  <1> QED
    BY <1>1, <1>2, <1>6, BeginningIInv

LEMMA CheckTargetIInv ==
    ASSUME IInv, NEW t \in Tasks, CheckTarget(t)
    PROVE  IInv'
  <1>1. step[t] = "check" /\ UNCHANGED <<parent, live, lock, tainted, stray, served>>
    BY DEF CheckTarget
  <1>2. CASE Refuse(t)
    BY <1>1, <1>2, EndingIInv
  <1>3. CASE ~Refuse(t)
    <2>1. req[t].target \in live /\ req' = req /\ step' = [step EXCEPT ![t] = "walk"]
      BY <1>3 DEF CheckTarget, Goto
    <2>2. /\ RequestFits(t) /\ req[t].current = req[t].target /\ req[t].current \in Nodes
          /\ req[t] \in Requests /\ req \in [Tasks -> Requests]
      BY <1>1 DEF IInv, TypeOK, RequestFits
    <2>3. [req[t] EXCEPT !.current = req[t].current] = req[t]
      BY <2>2 DEF Requests
    <2>4. Only(t, req[t], "walk")
      BY <1>1, <2>1, <2>2 DEF Only, IInv, TypeOK, Steps
    <2>5. RequestFits(t)'
      BY <1>1, <2>1, <2>2, <2>4, OnlyFacts DEF RequestFits
    <2> QED
      BY <1>1, <2>2, <2>3, <2>4, <2>5, WalkingIInv
  <1> QED
    BY <1>2, <1>3

\* What is above the current folder, and is not that, is above its parent.
LEMMA WalkIInv ==
    ASSUME IInv, NEW t \in Tasks, Walk(t)
    PROVE  IInv'
  <1> DEFINE r == req[t]
  <1>1. step[t] = "walk" /\ UNCHANGED <<parent, live, lock, tainted, stray, served>>
    BY DEF Walk
  <1>2. RequestFits(t) /\ r.current \in DOMAIN parent /\ r.item \in DOMAIN parent /\ r \in Requests
    BY <1>1 DEF IInv, TypeOK, RequestFits
  <1>3. /\ Above(r.current) \subseteq {r.current} \cup Above(parent[r.current])
        /\ parent[r.current] \in Nodes /\ Root \notin DOMAIN parent
    BY <1>2, AboveStep, ParentFacts DEF IInv, ParentsExist
  <1>4. CASE Refuse(t)
    BY <1>1, <1>4, EndingIInv
  <1>5. CASE r.current # r.item /\ parent[r.current] = Root /\ Goto(t, "update") /\ UNCHANGED req
    <2>1. [r EXCEPT !.current = r.current] = r
      BY <1>2 DEF Requests
    <2>2. Only(t, r, "update")
      BY <1>1, <1>2, <1>5 DEF Only, IInv, TypeOK, Steps, Goto
    <2>3. r.item \notin Above(parent[r.current])
      BY <1>2, <1>3, <1>5, AboveRoot DEF IInv
    <2>4. RequestFits(t)'
      BY <1>1, <1>2, <1>3, <1>5, <2>2, <2>3, OnlyFacts DEF RequestFits
    <2>5. r.current \in Nodes
      BY <1>2 DEF Nodes
    <2> QED
      BY <1>1, <2>1, <2>2, <2>4, <2>5, WalkingIInv
  <1>6. CASE /\ r.current # r.item /\ parent[r.current] # Root
             /\ req' = [req EXCEPT ![t].current = parent[r.current]] /\ UNCHANGED step
    <2> DEFINE q == [r EXCEPT !.current = parent[r.current]]
    <2>1. /\ q \in Requests /\ q.item = r.item /\ q.target = r.target /\ q.dirty = r.dirty
          /\ q.current = parent[r.current]
      <3>1. parent[r.current] \in Places
        BY <1>3, ParentFacts DEF IInv
      <3> QED
        BY <1>2, <3>1 DEF Requests
    <2>2. Only(t, q, "walk")
      <3>1. req' = [req EXCEPT ![t] = q] /\ step' = [step EXCEPT ![t] = "walk"]
        BY <1>1, <1>6 DEF IInv, TypeOK
      <3> QED
        BY <1>1, <2>1, <3>1 DEF Only, IInv, TypeOK, Steps
    <2> HIDE DEF q
    <2>3. RequestFits(t)'
      BY <1>1, <1>2, <1>3, <1>6, <2>1, <2>2, OnlyFacts DEF RequestFits, Nodes
    <2> QED
      BY <1>1, <1>3, <2>2, <2>3, WalkingIInv DEF q
  <1> QED
    BY <1>4, <1>5, <1>6 DEF Walk

LEMMA BeginPathIInv ==
    ASSUME IInv, NEW t \in Tasks, NEW f \in Folders, BeginPath(t, f)
    PROVE  IInv'
  <1> DEFINE r == [NoReq EXCEPT !.current = f]
  <1>1. f \in DOMAIN parent /\ Begin(t, "path", r) /\ UNCHANGED <<parent, live, lock, tainted, stray>>
    BY DEF BeginPath, Exists
  <1>2. /\ r \in Requests /\ r.item = Root /\ r.target = Root /\ r.current = f
        /\ r.frames = <<>> /\ r.drafts = <<>> /\ r.gone = {}
    BY NoReqFacts DEF Requests, Places
  <1> HIDE DEF r
  <1>3. step'[t] = "path" /\ req'[t] = r
    BY <1>1 DEF IInv, TypeOK, Begin
  <1>4. RequestFits(t)'
    BY <1>1, <1>2, <1>3 DEF RequestFits, Nodes
  <1> QED
    BY <1>1, <1>2, <1>4, BeginningIInv

LEMMA PathStepIInv ==
    ASSUME IInv, NEW t \in Tasks, PathStep(t)
    PROVE  IInv'
  <1> DEFINE r == req[t]
             q == [r EXCEPT !.current = parent[r.current]]
  <1>1. step[t] = "path" /\ UNCHANGED <<parent, live, lock, tainted, stray, served>>
    BY DEF PathStep
  <1>2. CASE Refuse(t)
    BY <1>1, <1>2, EndingIInv
  <1>3. CASE ~Refuse(t)
    <2>1. r.current \in live /\ req' = [req EXCEPT ![t].current = parent[r.current]] /\ UNCHANGED step
      BY <1>3 DEF PathStep
    <2>2. parent[r.current] \in Nodes /\ parent[r.current] \in Places
      BY <2>1, ParentFacts DEF IInv, TypeOK, ParentsExist
    <2>3. q \in Requests /\ q.item = r.item /\ q.target = r.target /\ q.current = parent[r.current]
      BY <2>2 DEF IInv, TypeOK, Requests
    <2>4. Only(t, q, "path")
      <3>1. req' = [req EXCEPT ![t] = q] /\ step' = [step EXCEPT ![t] = "path"]
        BY <1>1, <2>1 DEF IInv, TypeOK
      <3> QED
        BY <1>1, <2>3, <3>1 DEF Only, IInv, TypeOK, Steps
    <2> HIDE DEF q
    <2>5. RequestFits(t) /\ RequestFits(t)'
      BY <1>1, <2>2, <2>3, <2>4, OnlyFacts DEF RequestFits, IInv
    <2> QED
      BY <1>1, <2>2, <2>4, <2>5, WalkingIInv DEF q
  <1> QED
    BY <1>2, <1>3

LEMMA BeginDeleteIInv ==
    ASSUME IInv, NEW t \in Tasks, NEW f \in Folders, BeginDelete(t, f)
    PROVE  IInv'
  <1> DEFINE r == [NoReq EXCEPT !.item = f]
  <1>1. f \in live /\ Begin(t, "lock", r) /\ UNCHANGED <<parent, live, lock, tainted, stray>>
    BY DEF BeginDelete
  <1>2. /\ r \in Requests /\ r.item = f /\ r.target = Root /\ r.current = Root
        /\ r.frames = <<>> /\ r.drafts = <<>> /\ r.gone = {}
    BY NoReqFacts DEF Requests, Places
  <1> HIDE DEF r
  <1>3. step'[t] = "lock" /\ req'[t] = r /\ f \in DOMAIN parent
    BY <1>1 DEF IInv, TypeOK, Begin
  <1>4. RequestFits(t)'
    BY <1>1, <1>2, <1>3 DEF RequestFits, Nodes
  <1> QED
    BY <1>1, <1>2, <1>4, BeginningIInv

-----------------------------------------------------------------------------
\* A step of a deletion.
LEMMA DeletingIInv ==
    ASSUME IInv, NEW t \in Tasks, NEW r \in Requests, NEW next \in {"delete", "commit_delete"}, Only(t, r, next),
           \/ lock = t /\ lock' = t
           \/ lock = NoTask /\ lock' = t,
           {r.item, r.target, r.current} \subseteq Nodes,
           r.drafts = <<>>, r.gone \subseteq DOMAIN parent, BelowIsVisited(r.frames, r.gone),
           next = "delete" =>
             /\ r.frames # <<>>
             /\ \A i \in DOMAIN r.frames :
                  /\ r.frames[i].todo \subseteq DOMAIN parent
                  /\ IF i = 1 THEN r.frames[i].folder \in Nodes ELSE r.frames[i].folder \in DOMAIN parent
             /\ r.dirty \/ PathDown(r.frames),
           next = "commit_delete" => r.frames = <<>>
    PROVE  IInv'
  <1>1. step'[t] = next /\ req'[t] = r /\ Nodes' = Nodes /\ UNCHANGED <<parent, live, stray>>
    BY OnlyFacts DEF Only
  <1>2. RequestFits(t)' /\ CopyFits(t)'
    BY <1>1 DEF RequestFits, CopyFits
  <1>3. DeletionFits(t)'
    BY <1>1 DEF DeletionFits, BelowIsVisited, PathDown
  <1> QED
    BY <1>2, <1>3, NoRows, OnlyIInv

\* A deletion under way.
LEMMA DeletionFacts ==
    ASSUME IInv, NEW t \in Tasks, step[t] = "delete"
    PROVE  /\ lock = t /\ req[t] \in Requests /\ req[t].frames \in Seq(Frames) /\ req[t].frames # <<>>
           /\ req[t].drafts = <<>> /\ req[t].gone \subseteq DOMAIN parent
           /\ {req[t].item, req[t].target, req[t].current} \subseteq Nodes
           /\ BelowIsVisited(req[t].frames, req[t].gone)
           /\ req[t].dirty \/ PathDown(req[t].frames)
           /\ \A i \in DOMAIN req[t].frames :
                /\ req[t].frames[i].todo \subseteq DOMAIN parent
                /\ IF i = 1 THEN req[t].frames[i].folder \in Nodes ELSE req[t].frames[i].folder \in DOMAIN parent
           /\ Top(t).todo \subseteq DOMAIN parent /\ Top(t).folder \in Nodes
  <1>1. RequestFits(t) /\ DeletionFits(t) /\ req[t] \in Requests /\ req[t].frames \in Seq(Frames)
    BY DEF IInv, TypeOK, Requests
  <1>2. req[t].frames # <<>> /\ Len(req[t].frames) \in DOMAIN req[t].frames
    BY <1>1, PopFacts DEF DeletionFits
  <1> QED
    BY <1>1, <1>2 DEF IInv, TypeOK, LockHeld, RequestFits, DeletionFits, Top, Nodes

\* A deletion that begins has everything below its first folder before it.
LEMMA LockDeleteIInv ==
    ASSUME IInv, NEW t \in Tasks, LockDelete(t)
    PROVE  IInv'
  <1> DEFINE f == req[t].item
             x == [folder |-> f, new |-> Root, todo |-> Children(t, f)]
             r == [req[t] EXCEPT !.frames = <<x>>]
  <1>1. /\ step[t] = "lock" /\ lock = NoTask /\ lock' = t
        /\ req' = [req EXCEPT ![t].frames = <<x>>] /\ step' = [step EXCEPT ![t] = "delete"]
        /\ UNCHANGED <<parent, live, tainted, stray, served>>
    BY DEF LockDelete, Goto
  <1>2. /\ f \in DOMAIN parent /\ {f, req[t].target, req[t].current} \subseteq Nodes /\ req[t] \in Requests
        /\ req[t].frames = <<>> /\ req[t].drafts = <<>> /\ req[t].gone = {}
    BY <1>1, OutsideLock DEF IInv, RequestFits
  <1>3. Children(t, f) = {g \in live : parent[g] = f}
    BY <1>2, NoRows DEF Children
  <1>4. x \in Frames /\ x.folder = f /\ x.todo = {g \in live : parent[g] = f}
    <2>1. live \subseteq Folders /\ f \in Places /\ Root \in Places
      BY <1>2, ParentFacts DEF IInv, TypeOK, Places
    <2> QED
      BY <1>3, <2>1 DEF Frames
  <1> HIDE DEF x
  <1>5. <<x>> \in Seq(Frames) /\ DOMAIN <<x>> = {1} /\ <<x>>[1] = x /\ <<x>> # <<>>
    BY <1>4, SingleFacts
  <1>6. /\ r \in Requests /\ r.frames = <<x>> /\ r.drafts = <<>> /\ r.gone = {}
        /\ {r.item, r.target, r.current} \subseteq Nodes
    <2>1. /\ r \in Requests /\ r.frames = <<x>> /\ r.item = req[t].item /\ r.target = req[t].target
          /\ r.current = req[t].current /\ r.drafts = req[t].drafts /\ r.gone = req[t].gone
      BY <1>2, <1>5, WithFrames
    <2> HIDE DEF r
    <2> QED
      BY <1>2, <2>1
  <1>7. Only(t, r, "delete")
    BY <1>1, <1>6 DEF Only, IInv, TypeOK, Steps
  <1> HIDE DEF r
  <1>8. BelowIsVisited(r.frames, r.gone)
    BY <1>4, <1>5, <1>6 DEF BelowIsVisited
  <1>9. PathDown(r.frames)
    BY <1>4, <1>5, <1>6 DEF PathDown
  <1>10. \A i \in DOMAIN r.frames : r.frames[i].todo \subseteq DOMAIN parent /\ i = 1 /\ r.frames[i].folder \in Nodes
    BY <1>2, <1>4, <1>5, <1>6 DEF IInv, TypeOK
  <1> QED
    BY <1>1, <1>5, <1>6, <1>7, <1>8, <1>9, <1>10, DeletingIInv

LEMMA BeginBulkDeleteIInv ==
    ASSUME IInv, NEW t \in Tasks, NEW F \in SUBSET Folders, BeginBulkDelete(t, F)
    PROVE  IInv'
  <1> DEFINE x == [folder |-> Root, new |-> Root, todo |-> F]
             r == [NoReq EXCEPT !.frames = <<x>>]
  <1>1. /\ lock = NoTask /\ lock' = t /\ F \subseteq DOMAIN parent /\ Begin(t, "delete", r)
        /\ UNCHANGED <<parent, live, tainted, stray>>
    BY DEF BeginBulkDelete
  <1>2. x \in Frames /\ x.folder = Root /\ x.todo = F
    BY DEF Frames, Places
  <1> HIDE DEF x
  <1>3. <<x>> \in Seq(Frames) /\ DOMAIN <<x>> = {1} /\ <<x>>[1] = x /\ <<x>> # <<>>
    BY <1>2, SingleFacts
  <1>4. /\ r \in Requests /\ r.frames = <<x>> /\ r.drafts = <<>> /\ r.gone = {}
        /\ {r.item, r.target, r.current} \subseteq Nodes
    <2>1. NoReq \in Requests
      BY NoReqFacts
    <2>2. /\ r \in Requests /\ r.frames = <<x>> /\ r.item = NoReq.item /\ r.target = NoReq.target
          /\ r.current = NoReq.current /\ r.drafts = NoReq.drafts /\ r.gone = NoReq.gone
      BY <1>3, <2>1, WithFrames
    <2> HIDE DEF r
    <2> QED
      BY <2>2, NoReqFacts DEF Nodes
  <1> HIDE DEF r
  <1>5. Only(t, r, "delete")
    BY <1>1, <1>4, BoundAssumption DEF Only, Begin, IInv, TypeOK, Steps
  <1>6. BelowIsVisited(r.frames, r.gone)
    BY <1>2, <1>3, <1>4 DEF BelowIsVisited
  <1>7. PathDown(r.frames)
    BY <1>2, <1>3, <1>4 DEF PathDown
  <1>8. \A i \in DOMAIN r.frames : r.frames[i].todo \subseteq DOMAIN parent /\ i = 1 /\ r.frames[i].folder \in Nodes
    BY <1>1, <1>2, <1>3, <1>4 DEF Nodes
  <1> QED
    BY <1>1, <1>3, <1>4, <1>5, <1>6, <1>7, <1>8, DeletingIInv

\* Only items of the list of bulk_delete are skipped, and they have no parent in it.
LEMMA SkipItemIInv ==
    ASSUME IInv, NEW t \in Tasks, NEW f \in Folders, SkipItem(t, f)
    PROVE  IInv'
  <1>0. PICK s \in Seq(Frames) : s = req[t].frames
    BY DEF IInv, TypeOK, Requests
  <1> DEFINE v == Visit(s, f)
             r == [req[t] EXCEPT !.frames = v]
  <1>1. /\ step[t] = "delete" /\ s[Len(s)].folder = Root
        /\ req' = [req EXCEPT ![t] = r] /\ UNCHANGED <<parent, live, lock, step, tainted, stray, served>>
    BY <1>0 DEF SkipItem, Skipped, Top, IInv, TypeOK
  <1>2. /\ lock = t /\ req[t] \in Requests /\ s \in Seq(Frames) /\ s # <<>>
        /\ req[t].drafts = <<>> /\ req[t].gone \subseteq DOMAIN parent
        /\ {req[t].item, req[t].target, req[t].current} \subseteq Nodes
        /\ BelowIsVisited(s, req[t].gone) /\ (req[t].dirty \/ PathDown(s))
        /\ \A i \in DOMAIN s : /\ s[i].todo \subseteq DOMAIN parent
                               /\ IF i = 1 THEN s[i].folder \in Nodes ELSE s[i].folder \in DOMAIN parent
    BY <1>0, <1>1, DeletionFacts
  <1>3. /\ v \in Seq(Frames) /\ DOMAIN v = DOMAIN s /\ v # <<>>
        /\ \A i \in DOMAIN s : /\ v[i].folder = s[i].folder
                               /\ v[i].todo = IF i = Len(s) THEN s[i].todo \ {f} ELSE s[i].todo
    <2>1. s # <<>>
      BY <1>2
    <2>2. v \in Seq(Frames)
      BY <2>1, VisitFacts
    <2>3. DOMAIN v = DOMAIN s /\ v # <<>>
      BY <2>1, VisitFacts
    <2>4. ASSUME NEW i \in DOMAIN s
          PROVE  /\ v[i].folder = s[i].folder
                 /\ v[i].todo = IF i = Len(s) THEN s[i].todo \ {f} ELSE s[i].todo
      BY <2>1, VisitedFrame
    <2> QED
      BY <2>2, <2>3, <2>4
  <1> HIDE DEF v
  <1>4. /\ r \in Requests /\ r.frames = v /\ r.drafts = <<>> /\ r.gone = req[t].gone /\ r.dirty = req[t].dirty
        /\ {r.item, r.target, r.current} \subseteq Nodes
    BY <1>2, <1>3, WithFrames
  <1>5. Only(t, r, "delete")
    BY <1>1, <1>4 DEF Only, IInv, TypeOK, Steps
  <1> HIDE DEF r
  <1>6. BelowIsVisited(v, r.gone)
    <2> SUFFICES ASSUME NEW g \in live \ stray, NEW i \in DOMAIN v, parent[g] = v[i].folder, parent[g] # Root
                 PROVE  g \in r.gone \cup v[i].todo \/ (i + 1 \in DOMAIN v /\ g = v[i + 1].folder)
      BY <1>2, <1>4 DEF BelowIsVisited
    <2>1. i \in DOMAIN s /\ parent[g] = s[i].folder /\ v[i].todo = s[i].todo
      BY <1>1, <1>3
    <2>2. g \in req[t].gone \cup s[i].todo \/ (i + 1 \in DOMAIN s /\ g = s[i + 1].folder)
      BY <1>2, <2>1 DEF BelowIsVisited
    <2> QED
      BY <1>3, <1>4, <2>1, <2>2
  <1>7. r.dirty \/ PathDown(v)
    BY <1>2, <1>3, <1>4 DEF PathDown
  <1> QED
    BY <1>1, <1>2, <1>3, <1>4, <1>5, <1>6, <1>7, DeletingIInv

\* The child that is visited leaves the list and becomes the top of the stack.
LEMMA DeleteIntoIInv ==
    ASSUME IInv, NEW t \in Tasks, NEW f \in Folders, DeleteInto(t, f)
    PROVE  IInv'
  <1>0. PICK s \in Seq(Frames) : s = req[t].frames
    BY DEF IInv, TypeOK, Requests
  <1> DEFINE n == Len(s)
             v == Visit(s, f)
             x == [folder |-> f, new |-> Root, todo |-> Children(t, f)]
             w == Append(v, x)
             r == [req[t] EXCEPT !.frames = w]
  <1>1. /\ step[t] = "delete" /\ f \in s[n].todo
        /\ req' = [req EXCEPT ![t] = r] /\ UNCHANGED <<parent, live, lock, step, tainted, stray, served>>
    BY <1>0 DEF DeleteInto, Top, IInv, TypeOK
  <1>2. /\ lock = t /\ req[t] \in Requests /\ s \in Seq(Frames) /\ s # <<>>
        /\ req[t].drafts = <<>> /\ req[t].gone \subseteq DOMAIN parent
        /\ {req[t].item, req[t].target, req[t].current} \subseteq Nodes
        /\ BelowIsVisited(s, req[t].gone) /\ (req[t].dirty \/ PathDown(s))
        /\ \A i \in DOMAIN s : /\ s[i].todo \subseteq DOMAIN parent
                               /\ IF i = 1 THEN s[i].folder \in Nodes ELSE s[i].folder \in DOMAIN parent
    BY <1>0, <1>1, DeletionFacts
  <1>3. Children(t, f) = {g \in live \ req[t].gone : parent[g] = f}
    BY <1>2, NoRows DEF Children
  <1>4. x \in Frames /\ x.folder = f /\ x.todo = {g \in live \ req[t].gone : parent[g] = f}
    <2>1. live \subseteq Folders /\ f \in Places /\ Root \in Places
      BY ParentFacts DEF IInv, TypeOK, Places
    <2> QED
      BY <1>3, <2>1 DEF Frames
  <1> HIDE DEF x
  <1>5. /\ n \in Nat \ {0} /\ DOMAIN s = 1 .. n
        /\ v \in Seq(Frames) /\ Len(v) = n
        /\ \A i \in DOMAIN s : /\ v[i].folder = s[i].folder
                               /\ v[i].todo = IF i = n THEN s[i].todo \ {f} ELSE s[i].todo
    <2>1. s # <<>>
      BY <1>2
    <2>2. n \in Nat \ {0} /\ DOMAIN s = 1 .. n
      BY <2>1
    <2>3. v \in Seq(Frames) /\ Len(v) = n
      BY <2>1, VisitFacts
    <2>4. ASSUME NEW i \in DOMAIN s
          PROVE  /\ v[i].folder = s[i].folder
                 /\ v[i].todo = IF i = n THEN s[i].todo \ {f} ELSE s[i].todo
      BY <2>1, VisitedFrame
    <2> QED
      BY <2>2, <2>3, <2>4
  <1> HIDE DEF v, n
  <1>6. /\ w \in Seq(Frames) /\ w # <<>> /\ DOMAIN w = 1 .. n + 1 /\ w[n + 1] = x
        /\ \A i \in 1 .. n : w[i] = v[i]
    BY <1>4, <1>5, PushFacts
  <1> HIDE DEF w
  <1>6a. /\ n \in DOMAIN w /\ n \in DOMAIN s /\ n + 1 \notin DOMAIN s /\ n + 1 \in DOMAIN w
         /\ w[n].folder = s[n].folder /\ w[n].todo = s[n].todo \ {f} /\ w[n + 1].folder = f
    <2>1. n \in 1 .. n /\ n \in 1 .. n + 1 /\ n + 1 \notin 1 .. n /\ n + 1 \in 1 .. n + 1
      BY <1>5
    <2>2. w[n] = v[n] /\ v[n].folder = s[n].folder /\ v[n].todo = s[n].todo \ {f}
      BY <1>5, <1>6, <2>1
    <2> QED
      BY <1>4, <1>5, <1>6, <2>1, <2>2
  <1>7. /\ r \in Requests /\ r.frames = w /\ r.drafts = <<>> /\ r.gone = req[t].gone /\ r.dirty = req[t].dirty
        /\ {r.item, r.target, r.current} \subseteq Nodes
    BY <1>2, <1>6, WithFrames
  <1>8. Only(t, r, "delete")
    BY <1>1, <1>7 DEF Only, IInv, TypeOK, Steps
  <1> HIDE DEF r
  <1>9. f \in DOMAIN parent /\ n \in DOMAIN s
    BY <1>1, <1>2, <1>5
  <1>10. \A i \in DOMAIN w : /\ w[i].todo \subseteq DOMAIN parent
                             /\ IF i = 1 THEN w[i].folder \in Nodes ELSE w[i].folder \in DOMAIN parent
    <2> SUFFICES ASSUME NEW i \in DOMAIN w
                 PROVE  /\ w[i].todo \subseteq DOMAIN parent
                        /\ IF i = 1 THEN w[i].folder \in Nodes ELSE w[i].folder \in DOMAIN parent
      OBVIOUS
    <2>1. CASE i = n + 1
      BY <1>4, <1>5, <1>6, <1>9, <2>1 DEF IInv, TypeOK
    <2>2. CASE i \in 1 .. n
      BY <1>2, <1>5, <1>6, <2>2
    <2> QED
      BY <1>5, <1>6, <2>1, <2>2
  <1>11. BelowIsVisited(w, r.gone)
    <2> SUFFICES ASSUME NEW g \in live \ stray, g \notin r.gone
                 PROVE  /\ parent[g] \notin r.gone
                        /\ \A i \in DOMAIN w : parent[g] = w[i].folder /\ parent[g] # Root =>
                             g \in w[i].todo \/ (i + 1 \in DOMAIN w /\ g = w[i + 1].folder)
      BY DEF BelowIsVisited
    <2>1. /\ parent[g] \notin r.gone
          /\ \A i \in DOMAIN s : parent[g] = s[i].folder /\ parent[g] # Root =>
               g \in s[i].todo \/ (i + 1 \in DOMAIN s /\ g = s[i + 1].folder)
      BY <1>2, <1>7 DEF BelowIsVisited
    <2>2. ASSUME NEW i \in DOMAIN w, parent[g] = w[i].folder, parent[g] # Root
          PROVE  g \in w[i].todo \/ (i + 1 \in DOMAIN w /\ g = w[i + 1].folder)
      <3>1. CASE i = n + 1
        BY <1>4, <1>6, <1>7, <2>2, <3>1
      <3>2. CASE i = n
        <4>1. g \in s[n].todo
          BY <1>6a, <2>1, <2>2, <3>2
        <4> QED
          BY <1>6a, <3>2, <4>1
      <3>3. CASE i \in 1 .. n - 1
        <4>1. i \in DOMAIN s /\ i # n /\ i + 1 \in DOMAIN s /\ i + 1 \in DOMAIN w
          BY <1>5, <1>6, <3>3
        <4>2. w[i].folder = s[i].folder /\ w[i].todo = s[i].todo /\ w[i + 1].folder = s[i + 1].folder
          BY <1>5, <1>6, <4>1
        <4> QED
          BY <2>1, <2>2, <4>1, <4>2
      <3> QED
        BY <1>5, <1>6, <3>1, <3>2, <3>3
    <2> QED
      BY <2>1, <2>2
  <1>12. r.dirty \/ PathDown(w)
    <2> SUFFICES ASSUME PathDown(s), NEW i \in DOMAIN w, w[i].folder # Root
                 PROVE  /\ \A g \in w[i].todo : parent[g] = w[i].folder
                        /\ i + 1 \in DOMAIN w => parent[w[i + 1].folder] = w[i].folder
      BY <1>2, <1>7 DEF PathDown
    <2>1. CASE i = n + 1
      BY <1>4, <1>5, <1>6, <2>1
    <2>2. CASE i = n
      <3>1. \A g \in s[n].todo : parent[g] = s[n].folder
        BY <1>6a, <2>2 DEF PathDown
      <3> QED
        BY <1>1, <1>6a, <2>2, <3>1
    <2>3. CASE i \in 1 .. n - 1
      <3>1. i \in DOMAIN s /\ i # n /\ i + 1 \in DOMAIN s
        BY <1>5, <2>3
      <3>2. w[i].folder = s[i].folder /\ w[i].todo = s[i].todo /\ w[i + 1].folder = s[i + 1].folder
        BY <1>5, <1>6, <3>1
      <3> QED
        BY <3>1, <3>2 DEF PathDown
    <2> QED
      BY <1>5, <1>6, <2>1, <2>2, <2>3
  <1> QED
    BY <1>1, <1>2, <1>6, <1>7, <1>8, <1>10, <1>11, <1>12, DeletingIInv

\* A folder is deleted when all its children are.
LEMMA DeleteSelfIInv ==
    ASSUME IInv, NEW t \in Tasks, DeleteSelf(t)
    PROVE  IInv'
  <1> DEFINE s == req[t].frames
             n == Len(s)
             v == Pop(s)
             G == req[t].gone \cup ({s[n].folder} \cap Folders)
             a == [req[t] EXCEPT !.frames = v]
             r == [a EXCEPT !.gone = G]
             next == IF n = 1 THEN "commit_delete" ELSE "delete"
  <1>1. /\ step[t] = "delete" /\ s[n].todo = {} /\ step' = [step EXCEPT ![t] = next]
        /\ req' = [req EXCEPT ![t] = r] /\ UNCHANGED <<parent, live, lock, tainted, stray, served>>
    BY DEF DeleteSelf, Top, Goto, IInv, TypeOK
  <1>2. /\ lock = t /\ req[t] \in Requests /\ s \in Seq(Frames) /\ s # <<>>
        /\ req[t].drafts = <<>> /\ req[t].gone \subseteq DOMAIN parent
        /\ {req[t].item, req[t].target, req[t].current} \subseteq Nodes
        /\ BelowIsVisited(s, req[t].gone) /\ (req[t].dirty \/ PathDown(s))
        /\ \A i \in DOMAIN s : /\ s[i].todo \subseteq DOMAIN parent
                               /\ IF i = 1 THEN s[i].folder \in Nodes ELSE s[i].folder \in DOMAIN parent
        /\ s[n].folder \in Nodes
    BY <1>1, DeletionFacts DEF Top
  <1> HIDE DEF s
  <1>3. /\ n \in Nat \ {0} /\ DOMAIN s = 1 .. n /\ v \in Seq(Frames) /\ Len(v) = n - 1 /\ DOMAIN v = 1 .. n - 1
        /\ \A i \in DOMAIN v : v[i] = s[i]
    BY <1>2, PopFacts
  <1>4. /\ G \in SUBSET Folders /\ G \subseteq DOMAIN parent /\ req[t].gone \subseteq G
        /\ (s[n].folder # Root => s[n].folder \in G) /\ Root \notin G
        /\ \A f \in G : f \in req[t].gone \/ f = s[n].folder
    BY <1>2, NullAssumption, ParentFacts DEF Nodes, IInv
  <1> HIDE DEF v, n, G
  <1>5. /\ a \in Requests /\ a.frames = v /\ a.drafts = <<>> /\ a.dirty = req[t].dirty
        /\ {a.item, a.target, a.current} \subseteq Nodes
    BY <1>2, <1>3, WithFrames
  <1> HIDE DEF a
  <1>6. /\ r \in Requests /\ r.frames = v /\ r.drafts = <<>> /\ r.gone = G /\ r.dirty = req[t].dirty
        /\ {r.item, r.target, r.current} \subseteq Nodes
    BY <1>4, <1>5, WithGone
  <1> HIDE DEF r
  <1>7. Only(t, r, next)
    BY <1>1, <1>6 DEF Only, IInv, TypeOK, Steps
  <1>8. BelowIsVisited(v, G)
    <2> SUFFICES ASSUME NEW g \in live \ stray, g \notin G
                 PROVE  /\ parent[g] \notin G
                        /\ \A i \in DOMAIN v : parent[g] = v[i].folder /\ parent[g] # Root =>
                             g \in v[i].todo \/ (i + 1 \in DOMAIN v /\ g = v[i + 1].folder)
      BY DEF BelowIsVisited
    <2>1. /\ parent[g] \notin req[t].gone
          /\ \A i \in DOMAIN s : parent[g] = s[i].folder /\ parent[g] # Root =>
               g \in s[i].todo \/ (i + 1 \in DOMAIN s /\ g = s[i + 1].folder)
      BY <1>2, <1>4 DEF BelowIsVisited
    <2>2. parent[g] \notin G
      <3>1. SUFFICES ASSUME parent[g] = s[n].folder, parent[g] # Root PROVE FALSE
        BY <1>4, <2>1
      <3>2. n \in DOMAIN s /\ n + 1 \notin DOMAIN s
        BY <1>3
      <3> QED
        BY <1>1, <2>1, <3>1, <3>2
    <2>3. ASSUME NEW i \in DOMAIN v, parent[g] = v[i].folder, parent[g] # Root
          PROVE  g \in v[i].todo \/ (i + 1 \in DOMAIN v /\ g = v[i + 1].folder)
      <3>1. i \in DOMAIN s /\ v[i] = s[i] /\ (i + 1 \in DOMAIN v \/ i + 1 = n)
        BY <1>3
      <3>2. s[n].folder # g
        <4>1. n # 1 => s[n].folder \in DOMAIN parent
          BY <1>2, <1>3
        <4>2. n # 1 /\ Root \notin DOMAIN parent
          BY <1>3, ParentFacts DEF IInv
        <4> QED
          BY <1>4, <4>1, <4>2
      <3>3. i + 1 \in DOMAIN v => v[i + 1] = s[i + 1]
        BY <1>3
      <3> QED
        BY <2>1, <2>3, <3>1, <3>2, <3>3
    <2> QED
      BY <2>2, <2>3
  <1>9. r.dirty \/ PathDown(v)
    <2> SUFFICES ASSUME PathDown(s), NEW i \in DOMAIN v, v[i].folder # Root
                 PROVE  /\ \A g \in v[i].todo : parent[g] = v[i].folder
                        /\ i + 1 \in DOMAIN v => parent[v[i + 1].folder] = v[i].folder
      BY <1>2, <1>6 DEF PathDown
    <2>1. i \in DOMAIN s /\ v[i] = s[i] /\ (i + 1 \in DOMAIN v => i + 1 \in DOMAIN s /\ v[i + 1] = s[i + 1])
      BY <1>3
    <2> QED
      BY <2>1 DEF PathDown
  <1>10. (next = "delete" => v # <<>>) /\ (next = "commit_delete" => v = <<>>)
    BY <1>3
  <1>11. \A i \in DOMAIN v : /\ v[i].todo \subseteq DOMAIN parent
                             /\ IF i = 1 THEN v[i].folder \in Nodes ELSE v[i].folder \in DOMAIN parent
    BY <1>2, <1>3
  <1> QED
    BY <1>1, <1>2, <1>4, <1>6, <1>7, <1>8, <1>9, <1>10, <1>11, DeletingIInv

-----------------------------------------------------------------------------
\* Rows that lead to rows without a cycle.
LEMMA JoinedRows ==
    ASSUME NEW rows \in Tables, NEW more \in Tables, NEW S \in SUBSET DOMAIN rows,
           DOMAIN rows \cap DOMAIN more = {}, \A f \in S : rows[f] \notin DOMAIN more,
           NoCycle(rows, S), NoCycle(more, DOMAIN more)
    PROVE  NoCycle(With(rows, more), S \cup DOMAIN more)
  <1>1. /\ \A f \in DOMAIN more : With(rows, more)[f] = more[f]
        /\ \A f \in S : With(rows, more)[f] = rows[f]
    BY DEF With
  <1> SUFFICES ASSUME NEW C \in SUBSET (S \cup DOMAIN more), C # {}
               PROVE  \E f \in C : With(rows, more)[f] \notin C
    BY DEF NoCycle
  <1>2. CASE C \cap S = {}
    BY <1>1, <1>2 DEF NoCycle
  <1>3. CASE C \cap S # {}
    <2>1. PICK f \in C \cap S : rows[f] \notin C \cap S
      BY <1>3 DEF NoCycle
    <2> QED
      BY <1>1, <2>1
  <1> QED
    BY <1>2, <1>3

LEMMA OneRow ==
    ASSUME NEW n \in Folders, NEW p \in Places, p # n
    PROVE  NoCycle(Row(n, p), DOMAIN Row(n, p))
  <1>1. DOMAIN Row(n, p) = {n} /\ Row(n, p)[n] = p
    BY RowFacts
  <1>2. ASSUME NEW C \in SUBSET {n}, C # {} PROVE n \in C /\ Row(n, p)[n] \notin C
    BY <1>1, <1>2
  <1> QED
    BY <1>1, <1>2 DEF NoCycle

-----------------------------------------------------------------------------
\* A step of a copy.
LEMMA CopyingIInv ==
    ASSUME IInv, NEW t \in Tasks, NEW r \in Requests, NEW next \in {"copy", "commit_copy"}, Only(t, r, next),
           \/ lock = t /\ lock' = t
           \/ lock = NoTask /\ lock' = t,
           {r.item, r.target, r.current} \subseteq Nodes,
           r.gone \subseteq DOMAIN parent, DOMAIN r.drafts \cap DOMAIN parent = {},
           DraftsFit(r), next = "copy" => CopiedFits(r)
    PROVE  IInv'
  <1>1. step'[t] = next /\ req'[t] = r /\ Nodes' = Nodes /\ UNCHANGED parent /\ \A f : Above(f)' = Above(f)
    BY OnlyFacts DEF Only
  <1>2. RequestFits(t)' /\ DeletionFits(t)'
    BY <1>1 DEF RequestFits, DeletionFits
  <1>3. CopyFits(t)'
    BY <1>1 DEF CopyFits, DraftsFit, CopiedFits, NoCycle, Original
  <1> QED
    BY <1>2, <1>3, OnlyIInv

\* A copy under way.
LEMMA CopyFacts ==
    ASSUME IInv, NEW t \in Tasks, step[t] \in {"copy", "commit_copy"}
    PROVE  /\ lock = t /\ req[t] \in Requests
           /\ req[t].gone \subseteq DOMAIN parent /\ DOMAIN req[t].drafts \cap DOMAIN parent = {}
           /\ {req[t].item, req[t].target, req[t].current} \subseteq Nodes
           /\ DraftsFit(req[t])
           /\ step[t] = "copy" => CopiedFits(req[t])
  BY DEF IInv, TypeOK, LockHeld, RequestFits, CopyFits

\* What Copy makes of a request.
LEMMA CopyResult ==
    ASSUME IInv, NEW t \in Tasks, NEW r \in Requests, NEW f \in Folders, NEW n \in Folders, NEW p \in Places
    PROVE  LET D == With(r.drafts, Row(n, p))
               x == [folder |-> f, new |-> n,
                     todo |-> {g \in live : parent[g] = f} \cup {g \in DOMAIN D : D[g] = f}]
               c == Copy(t, r, f, n, p)
           IN  /\ D \in Tables /\ x \in Frames
               /\ c \in Requests /\ c.drafts = D /\ c.frames = Append(r.frames, x)
               /\ c.item = r.item /\ c.target = r.target /\ c.current = r.current
               /\ c.dirty = r.dirty /\ c.gone = r.gone
  <1> DEFINE D == With(r.drafts, Row(n, p))
             x == [folder |-> f, new |-> n,
                   todo |-> {g \in live : parent[g] = f} \cup {g \in DOMAIN D : D[g] = f}]
             c == Copy(t, r, f, n, p)
             a == [r EXCEPT !.drafts = D]
  <1>1. D \in Tables /\ DOMAIN D \subseteq Folders
    <2>1. r.drafts \in Tables /\ Row(n, p) \in Tables
      BY RowFacts DEF Requests
    <2>2. D \in Tables
      BY <2>1, WithFacts
    <2> HIDE DEF D
    <2> QED
      BY <2>2 DEF Tables
  <1>2. x \in Frames
    <2>1. live \subseteq Folders
      BY ParentFacts DEF IInv, TypeOK
    <2> HIDE DEF D
    <2> QED
      BY <1>1, <2>1 DEF Frames, Places
  <1>3. c = [a EXCEPT !.frames = Append(r.frames, x)]
    BY DEF Copy, Requests
  <1> HIDE DEF D, x, c
  <1>4. /\ a \in Requests /\ a.drafts = D /\ a.frames = r.frames /\ a.item = r.item /\ a.target = r.target
        /\ a.current = r.current /\ a.dirty = r.dirty /\ a.gone = r.gone
    BY <1>1, WithDrafts
  <1>5. Append(r.frames, x) \in Seq(Frames)
    BY <1>2 DEF Requests
  <1> HIDE DEF a
  <1>6. /\ c \in Requests /\ c.drafts = D /\ c.frames = Append(r.frames, x)
        /\ c.item = r.item /\ c.target = r.target /\ c.current = r.current
        /\ c.dirty = r.dirty /\ c.gone = r.gone
    BY <1>3, <1>4, <1>5, WithFrames
  <1> QED
    BY <1>1, <1>2, <1>6 DEF D, x, c

\* Copying a folder that is below an original makes it one.
LEMMA ChildIsOriginal ==
    ASSUME TypeOK, NEW r \in Requests, NEW f \in DOMAIN parent, r.item \in Above(f),
           NEW g \in live, parent[g] = f
    PROVE  Original(r, g)
  <1>1. g \in DOMAIN parent
    BY DEF TypeOK
  <1> QED
    BY <1>1, AboveStep DEF Original

LEMMA BeginCopyIInv ==
    ASSUME IInv, NEW t \in Tasks, NEW f \in Folders, NEW n \in Folders, NEW p \in Places, BeginCopy(t, f, p, n)
    PROVE  IInv'
  <1> DEFINE a == [NoReq EXCEPT !.item = f]
             b == [a EXCEPT !.target = p]
             D == With(b.drafts, Row(n, p))
             x == [folder |-> f, new |-> n,
                   todo |-> {g \in live : parent[g] = f} \cup {g \in DOMAIN D : D[g] = f}]
             r == Copy(t, b, f, n, p)
  <1>1. /\ lock = NoTask /\ lock' = t /\ f \in DOMAIN parent /\ p \in Nodes /\ n \notin DOMAIN parent
        /\ Begin(t, "copy", r) /\ UNCHANGED <<parent, live, tainted, stray>>
    BY DEF BeginCopy, Exists, Nodes, Unused
  <1>2. a \in Requests /\ a.item = f /\ a.frames = <<>> /\ a.drafts = <<>> /\ a.gone = {} /\ a.current = Root
    BY NoReqFacts DEF Requests, Places
  <1>3. /\ b \in Requests /\ b.item = f /\ b.target = p /\ b.frames = <<>> /\ b.drafts = <<>> /\ b.gone = {}
        /\ b.current = Root
    <2> HIDE DEF a
    <2> QED
      BY <1>2 DEF Requests
  <1> HIDE DEF b
  <1>4. /\ D \in Tables /\ x \in Frames
        /\ r \in Requests /\ r.drafts = D /\ r.frames = Append(b.frames, x)
        /\ r.item = b.item /\ r.target = b.target /\ r.current = b.current /\ r.gone = b.gone
    BY <1>3, CopyResult
  <1>5. DOMAIN D = {n} /\ D[n] = p
    <2>1. b.drafts \in Tables /\ DOMAIN b.drafts = {}
      BY <1>3, NoRows
    <2>2. Row(n, p) \in Tables /\ DOMAIN Row(n, p) = {n} /\ Row(n, p)[n] = p
      BY RowFacts
    <2> QED
      BY <2>1, <2>2 DEF With
  <1> HIDE DEF D, r
  <1>6. r.frames = <<x>> /\ DOMAIN r.frames = {1} /\ r.frames[1] = x /\ r.frames # <<>>
    <2>1. r.frames = <<x>>
      BY <1>3, <1>4
    <2> QED
      BY <1>4, <2>1, SingleFacts
  <1>7. Only(t, r, "copy")
    BY <1>1, <1>4, BoundAssumption DEF Only, Begin, IInv, TypeOK, Steps
  <1>8. {r.item, r.target, r.current} \subseteq Nodes /\ r.gone \subseteq DOMAIN parent
    BY <1>1, <1>3, <1>4 DEF Nodes
  <1>9. p # n
    BY <1>1, NullAssumption DEF Nodes
  <1>10. DraftsFit(r)
    BY <1>3, <1>4, <1>5, <1>9 DEF DraftsFit, NoCycle
  <1>11. CopiedFits(r)
    <2>1. \A i \in DOMAIN r.frames : r.frames[i].new \in DOMAIN r.drafts
      BY <1>4, <1>5, <1>6
    <2>2. ASSUME p # f
          PROVE  \A i \in DOMAIN r.frames :
                   Original(r, r.frames[i].folder) /\ \A g \in r.frames[i].todo : Original(r, g)
      <3>1. f \in Above(f)
        BY AboveIsClosed DEF IInv, Places
      <3>2. r.item = f /\ x.folder = f /\ x.todo = {g \in live : parent[g] = f}
        BY <1>3, <1>4, <1>5, <2>2
      <3>3. Original(r, f)
        BY <1>1, <3>1, <3>2 DEF Original
      <3>4. ASSUME NEW g \in live, parent[g] = f PROVE Original(r, g)
        BY <1>1, <1>4, <3>1, <3>2, <3>4, ChildIsOriginal DEF IInv
      <3> HIDE DEF x
      <3> QED
        BY <1>6, <3>2, <3>3, <3>4
    <2>3. p = f => r.item \in Above(r.target)
      BY <1>3, <1>4, AboveIsClosed DEF IInv, Places
    <2> QED
      BY <1>6, <2>1, <2>2, <2>3 DEF CopiedFits
  <1> QED
    BY <1>1, <1>4, <1>5, <1>7, <1>8, <1>10, <1>11, CopyingIInv

\* The new copy is put below one, and its children are originals if it is one.
LEMMA CopyIntoIInv ==
    ASSUME IInv, NEW t \in Tasks, NEW f \in Folders, NEW n \in Folders, CopyInto(t, f, n)
    PROVE  IInv'
  <1>0. PICK s \in Seq(Frames) : s = req[t].frames
    BY DEF IInv, TypeOK, Requests
  <1>0a. PICK q \in Requests : q = req[t]
    BY DEF IInv, TypeOK
  <1> DEFINE m == Len(s)
             p == s[m].new
             v == Visit(s, f)
             b == [q EXCEPT !.frames = v]
             D == With(b.drafts, Row(n, p))
             x == [folder |-> f, new |-> n,
                   todo |-> {g \in live : parent[g] = f} \cup {g \in DOMAIN D : D[g] = f}]
             r == Copy(t, b, f, n, p)
  <1>1. /\ step[t] = "copy" /\ f \in s[m].todo /\ n \notin DOMAIN parent /\ n \notin DOMAIN q.drafts
        /\ req' = [req EXCEPT ![t] = r] /\ UNCHANGED <<parent, live, lock, step, tainted, stray, served>>
    <2>1. n \notin DOMAIN parent /\ n \notin DOMAIN req[t].drafts
      BY DEF CopyInto, Unused
    <2>2. /\ step[t] = "copy" /\ f \in s[m].todo
          /\ UNCHANGED <<parent, live, lock, step, tainted, stray, served>>
      BY <1>0 DEF CopyInto, Top
    <2>3. req' = [req EXCEPT ![t] = Copy(t, [req[t] EXCEPT !.frames = Visit(req[t].frames, f)], f, n, p)]
      <3>1. p = Top(t).new
        BY <1>0 DEF Top
      <3> HIDE DEF p
      <3> QED
        BY <3>1 DEF CopyInto
    <2> QED
      BY <1>0, <1>0a, <2>1, <2>2, <2>3
  <1>2. /\ lock = t /\ s = q.frames /\ s # <<>>
        /\ q.gone \subseteq DOMAIN parent /\ DOMAIN q.drafts \cap DOMAIN parent = {}
        /\ {q.item, q.target, q.current} \subseteq Nodes
        /\ DraftsFit(q) /\ CopiedFits(q)
    <2>1. CopiedFits(req[t])
      BY <1>1, CopyFacts
    <2> QED
      BY <1>0, <1>0a, <1>1, <2>1, CopyFacts DEF CopiedFits
  <1>3. /\ v \in Seq(Frames) /\ DOMAIN v = DOMAIN s /\ m \in DOMAIN s /\ DOMAIN s = 1 .. m /\ m \in Nat /\ Len(v) = m
        /\ \A i \in DOMAIN s : v[i].folder = s[i].folder /\ v[i].new = s[i].new /\ v[i].todo \subseteq s[i].todo
    <2>1. v \in Seq(Frames) /\ DOMAIN v = DOMAIN s /\ Len(v) = m
      BY <1>2, VisitFacts
    <2>2. m \in DOMAIN s /\ DOMAIN s = 1 .. m /\ m \in Nat
      BY <1>2
    <2>3. ASSUME NEW i \in DOMAIN s
          PROVE  v[i].folder = s[i].folder /\ v[i].new = s[i].new /\ v[i].todo \subseteq s[i].todo
      <3>1. s # <<>>
        BY <1>2
      <3>2. v[i].folder = s[i].folder
        BY <3>1, VisitedFrame
      <3>3. v[i].new = s[i].new
        BY <3>1, VisitedFrame
      <3>4. v[i].todo = IF i = m THEN s[i].todo \ {f} ELSE s[i].todo
        BY <3>1, VisitedFrame
      <3> QED
        BY <3>2, <3>3, <3>4
    <2> QED
      BY <2>1, <2>2, <2>3
  <1> HIDE DEF v
  <1>4. /\ b \in Requests /\ b.frames = v /\ b.item = q.item /\ b.target = q.target /\ b.current = q.current
        /\ b.dirty = q.dirty /\ b.gone = q.gone /\ b.drafts = q.drafts
    BY <1>3, WithFrames
  <1>5. p \in DOMAIN q.drafts /\ p \in Folders /\ p \in Places /\ p # n
    <2>1. p \in DOMAIN q.drafts
      BY <1>2, <1>3 DEF CopiedFits
    <2>2. DOMAIN q.drafts \subseteq Folders
      BY DEF Requests, Tables
    <2> QED
      BY <1>1, <2>1, <2>2 DEF Places
  <1> HIDE DEF b, p, m
  <1>6. /\ D \in Tables /\ x \in Frames
        /\ r \in Requests /\ r.drafts = D /\ r.frames = Append(v, x)
        /\ r.item = q.item /\ r.target = q.target /\ r.current = q.current
        /\ r.dirty = q.dirty /\ r.gone = q.gone
    BY <1>4, <1>5, CopyResult
  <1>7. /\ D = With(q.drafts, Row(n, p)) /\ q.drafts \in Tables
        /\ Row(n, p) \in Tables /\ DOMAIN Row(n, p) = {n} /\ Row(n, p)[n] = p
    BY <1>4, <1>5, RowFacts DEF Requests
  <1> HIDE DEF D, r
  <1>8. DOMAIN D = DOMAIN q.drafts \cup {n} /\ D[n] = p /\ \A g \in DOMAIN q.drafts : D[g] = q.drafts[g]
    BY <1>1, <1>7 DEF With
  <1>9. Only(t, r, "copy")
    BY <1>1, <1>6 DEF Only, IInv, TypeOK, Steps
  <1>10. DraftsFit(r)
    <2>1. \A g \in DOMAIN D : D[g] \in DOMAIN D \cup {r.target}
      BY <1>2, <1>5, <1>6, <1>8 DEF DraftsFit
    <2>2. \A g \in DOMAIN q.drafts : q.drafts[g] # n
      BY <1>1, <1>2, NullAssumption DEF DraftsFit, Nodes
    <2>3. NoCycle(q.drafts, DOMAIN q.drafts) /\ NoCycle(Row(n, p), {n})
      BY <1>2, <1>5, <1>7, OneRow DEF DraftsFit
    <2>4. NoCycle(D, DOMAIN D)
      <3>1. DOMAIN q.drafts \in SUBSET DOMAIN q.drafts /\ DOMAIN q.drafts \cap {n} = {}
        BY <1>1
      <3> QED
        BY <1>7, <1>8, <2>2, <2>3, <3>1, JoinedRows
    <2> QED
      BY <1>6, <2>1, <2>4 DEF DraftsFit
  <1>11. CopiedFits(r)
    <2>1. /\ r.frames # <<>> /\ DOMAIN r.frames = 1 .. m + 1 /\ r.frames[m + 1] = x
          /\ \A i \in DOMAIN s : r.frames[i] = v[i]
      BY <1>3, <1>6, PushFacts
    <2>2. \A i \in DOMAIN r.frames : i = m + 1 \/ i \in DOMAIN s
      BY <1>3, <2>1
    <2>3. \A i \in DOMAIN r.frames : r.frames[i].new \in DOMAIN r.drafts
      BY <1>2, <1>3, <1>6, <1>8, <2>1, <2>2 DEF CopiedFits
    <2>4. ASSUME ~r.dirty, r.item \notin Above(r.target)
          PROVE  \A i \in DOMAIN r.frames :
                   Original(r, r.frames[i].folder) /\ \A g \in r.frames[i].todo : Original(r, g)
      <3>1. \A i \in DOMAIN s : Original(r, s[i].folder) /\ \A g \in s[i].todo : Original(r, g)
        BY <1>2, <1>6, <2>4 DEF CopiedFits, Original
      <3>2. Original(r, f)
        BY <1>1, <1>3, <3>1
      <3>3. \A g \in DOMAIN D : D[g] # f
        BY <1>2, <1>5, <1>6, <1>8, <2>4, <3>2 DEF DraftsFit, Original
      <3>4. ASSUME NEW g \in live, parent[g] = f PROVE Original(r, g)
        BY <1>6, <3>2, <3>4, ChildIsOriginal DEF IInv, Original
      <3>5. x.folder = f /\ x.todo = {g \in live : parent[g] = f}
        BY <3>3
      <3> HIDE DEF x
      <3> QED
        BY <1>3, <2>1, <2>2, <3>1, <3>2, <3>4, <3>5
    <2> QED
      BY <2>1, <2>3, <2>4 DEF CopiedFits
  <1> QED
    BY <1>1, <1>2, <1>6, <1>8, <1>9, <1>10, <1>11, CopyingIInv

LEMMA CopyDoneIInv ==
    ASSUME IInv, NEW t \in Tasks, CopyDone(t)
    PROVE  IInv'
  <1>0. PICK s \in Seq(Frames) : s = req[t].frames
    BY DEF IInv, TypeOK, Requests
  <1>0a. PICK q \in Requests : q = req[t]
    BY DEF IInv, TypeOK
  <1> DEFINE m == Len(s)
             v == Pop(s)
             r == [q EXCEPT !.frames = v]
             next == IF m = 1 THEN "commit_copy" ELSE "copy"
  <1>1. /\ step[t] = "copy" /\ step' = [step EXCEPT ![t] = next]
        /\ req' = [req EXCEPT ![t] = r] /\ UNCHANGED <<parent, live, lock, tainted, stray, served>>
    BY <1>0, <1>0a DEF CopyDone, Goto
  <1>2. /\ lock = t /\ s = q.frames /\ s # <<>>
        /\ q.gone \subseteq DOMAIN parent /\ DOMAIN q.drafts \cap DOMAIN parent = {}
        /\ {q.item, q.target, q.current} \subseteq Nodes
        /\ DraftsFit(q) /\ CopiedFits(q)
    <2>1. CopiedFits(req[t])
      BY <1>1, CopyFacts
    <2> QED
      BY <1>0, <1>0a, <1>1, <2>1, CopyFacts DEF CopiedFits
  <1>3. /\ m \in Nat \ {0} /\ DOMAIN s = 1 .. m /\ v \in Seq(Frames) /\ Len(v) = m - 1 /\ DOMAIN v = 1 .. m - 1
        /\ \A i \in DOMAIN v : v[i] = s[i]
    BY <1>2, PopFacts
  <1> HIDE DEF v, m
  <1>4. /\ r \in Requests /\ r.frames = v /\ r.item = q.item /\ r.target = q.target /\ r.current = q.current
        /\ r.dirty = q.dirty /\ r.gone = q.gone /\ r.drafts = q.drafts
    BY <1>3, WithFrames
  <1> HIDE DEF r
  <1>5. Only(t, r, next)
    BY <1>1, <1>4 DEF Only, IInv, TypeOK, Steps
  <1>6. DraftsFit(r)
    BY <1>2, <1>4 DEF DraftsFit
  <1>7. next = "copy" => CopiedFits(r)
    <2>1. next = "copy" => v # <<>>
      BY <1>3
    <2>2. \A i \in DOMAIN v : i \in DOMAIN s /\ v[i] = s[i]
      BY <1>3
    <2> HIDE DEF next
    <2> QED
      BY <1>2, <1>4, <2>1, <2>2 DEF CopiedFits, Original
  <1> QED
    BY <1>1, <1>2, <1>4, <1>5, <1>6, <1>7, CopyingIInv

-----------------------------------------------------------------------------
\* What has been moved, or deleted: every other request has seen the tree as it was.
LEMMA DirtiedFacts ==
    ASSUME IInv, NEW t \in Tasks, req' = Dirtied(t)
    PROVE  /\ req' \in [Tasks -> Requests] /\ req'[t] = NoReq
           /\ \A u \in Tasks \ {t} :
                /\ req'[u].item = req[u].item /\ req'[u].target = req[u].target
                /\ req'[u].current = req[u].current /\ req'[u].frames = req[u].frames
                /\ req'[u].drafts = req[u].drafts /\ req'[u].gone = req[u].gone
                /\ step[u] # "idle" => req'[u].dirty
  <1>1. req \in [Tasks -> Requests] /\ NoReq \in Requests
    BY NoReqFacts DEF IInv, TypeOK
  <1>2. ASSUME NEW r \in Requests, NEW b \in BOOLEAN
        PROVE  /\ [r EXCEPT !.dirty = b] \in Requests /\ [r EXCEPT !.dirty = b].dirty = b
               /\ [r EXCEPT !.dirty = b].item = r.item /\ [r EXCEPT !.dirty = b].target = r.target
               /\ [r EXCEPT !.dirty = b].current = r.current /\ [r EXCEPT !.dirty = b].frames = r.frames
               /\ [r EXCEPT !.dirty = b].drafts = r.drafts /\ [r EXCEPT !.dirty = b].gone = r.gone
    BY DEF Requests
  <1>3. ASSUME NEW u \in Tasks, u # t
        PROVE  /\ req'[u] \in Requests
               /\ req'[u].item = req[u].item /\ req'[u].target = req[u].target
               /\ req'[u].current = req[u].current /\ req'[u].frames = req[u].frames
               /\ req'[u].drafts = req[u].drafts /\ req'[u].gone = req[u].gone
               /\ step[u] # "idle" => req'[u].dirty
    <2> DEFINE b == req[u].dirty \/ step[u] # "idle"
    <2>1. req[u] \in Requests /\ b \in BOOLEAN
      BY <1>1 DEF Requests
    <2>2. req'[u] = [req[u] EXCEPT !.dirty = b]
      BY <1>3 DEF Dirtied
    <2>3. step[u] # "idle" => b
      OBVIOUS
    <2> HIDE DEF b
    <2> QED
      BY <1>2, <2>1, <2>2, <2>3
  <1>4. req'[t] = NoReq /\ req' = [u \in Tasks |-> req'[u]]
    BY DEF Dirtied
  <1>5. \A u \in Tasks : req'[u] \in Requests
    BY <1>1, <1>3, <1>4
  <1> QED
    BY <1>3, <1>4, <1>5

\* What still holds of them.
LEMMA DirtiedFits ==
    ASSUME IInv, NEW t \in Tasks, req' = Dirtied(t), DOMAIN parent' = DOMAIN parent,
           NEW u \in Tasks \ {t}, step'[u] = step[u],
           step[u] \in {"delete", "commit_delete"} =>
             \A f \in live' \ stray' : f \in live \ stray /\ parent'[f] = parent[f]
    PROVE  RequestFits(u)' /\ DeletionFits(u)' /\ CopyFits(u)'
  <1>1. /\ req'[u].item = req[u].item /\ req'[u].target = req[u].target
        /\ req'[u].current = req[u].current /\ req'[u].frames = req[u].frames
        /\ req'[u].drafts = req[u].drafts /\ req'[u].gone = req[u].gone
        /\ step[u] # "idle" => req'[u].dirty
    BY DirtiedFacts
  <1>2. RequestFits(u) /\ DeletionFits(u) /\ CopyFits(u) /\ Nodes' = Nodes
    BY DEF IInv, Nodes
  <1>3. RequestFits(u)'
    BY <1>1, <1>2 DEF RequestFits
  <1>4. DeletionFits(u)'
    <2>1. step[u] \in {"delete", "commit_delete"} => BelowIsVisited(req[u].frames, req[u].gone)'
      BY <1>1, <1>2 DEF DeletionFits, BelowIsVisited
    <2> QED
      BY <1>1, <1>2, <2>1 DEF DeletionFits
  <1>5. CopyFits(u)'
    BY <1>1, <1>2 DEF CopyFits, DraftsFit, CopiedFits
  <1> QED
    BY <1>3, <1>4, <1>5

LEMMA EndedFits ==
    ASSUME IInv, NEW t \in Tasks, req'[t] = NoReq, step'[t] = "idle"
    PROVE  RequestFits(t)' /\ DeletionFits(t)' /\ CopyFits(t)'
  BY NoReqFacts DEF RequestFits, DeletionFits, CopyFits, Nodes

\* What still holds of the requests when rows are added.
LEMMA GrownFits ==
    ASSUME IInv, TypeOK', NEW u \in Tasks, step'[u] = step[u], req'[u] = req[u],
           DOMAIN parent \subseteq DOMAIN parent', \A f \in DOMAIN parent : parent'[f] = parent[f],
           live \subseteq live',
           step[u] \in {"delete", "commit_delete"} => live' \ stray' \subseteq live \ stray
    PROVE  RequestFits(u)' /\ DeletionFits(u)' /\ CopyFits(u)'
  <1>1. RequestFits(u) /\ DeletionFits(u) /\ CopyFits(u) /\ Nodes \subseteq Nodes'
    BY DEF IInv, Nodes
  <1>2. \A f \in Nodes : Above(f)' = Above(f)
    BY AboveIsStable DEF IInv
  <1>3. RequestFits(u)'
    <2>1. Above(req[u].target)' = Above(req[u].target) /\ Above(req[u].current)' = Above(req[u].current)
      BY <1>1, <1>2 DEF RequestFits
    <2> QED
      BY <1>1, <2>1 DEF RequestFits
  <1>4. DeletionFits(u)'
    <2>1. /\ live \subseteq DOMAIN parent
          /\ step[u] \in {"delete", "commit_delete"} => BelowIsVisited(req[u].frames, req[u].gone)
      BY <1>1 DEF DeletionFits, IInv, TypeOK
    <2>2. step[u] \in {"delete", "commit_delete"} => BelowIsVisited(req[u].frames, req[u].gone)'
      BY <2>1 DEF BelowIsVisited
    <2>3. ASSUME step[u] = "delete", PathDown(req[u].frames)
          PROVE  PathDown(req[u].frames)'
      <3>1. PICK s \in Seq(Frames) : s = req[u].frames
        BY DEF IInv, TypeOK, Requests
      <3>2. /\ PathDown(s) /\ \A i \in DOMAIN s : s[i].todo \subseteq DOMAIN parent
            /\ \A i \in DOMAIN s : i + 1 \in DOMAIN s => s[i + 1].folder \in DOMAIN parent
        <4>1. /\ \A i \in DOMAIN s : s[i].todo \subseteq DOMAIN parent
              /\ \A i \in DOMAIN s : i # 1 => s[i].folder \in DOMAIN parent
          BY <1>1, <2>3, <3>1 DEF DeletionFits
        <4>2. \A i \in DOMAIN s : i + 1 # 1
          OBVIOUS
        <4> QED
          BY <2>3, <3>1, <4>1, <4>2
      <3>3. PathDown(s)'
        BY <3>2 DEF PathDown
      <3> QED
        BY <3>1, <3>3 DEF PathDown
    <2> QED
      BY <1>1, <2>2, <2>3 DEF DeletionFits, PathDown, BelowIsVisited
  <1>5. CopyFits(u)'
    <2>1. Above(req[u].target)' = Above(req[u].target)
      BY <1>1, <1>2 DEF RequestFits
    <2>2. \A f : Original(req[u], f) => Original(req[u], f)'
      BY <1>2 DEF Original, Nodes
    <2> QED
      BY <1>1, <2>1, <2>2 DEF CopyFits, DraftsFit, CopiedFits, NoCycle, Original
  <1> QED
    BY <1>3, <1>4, <1>5

\* Folders that are put where none of them is above make no cycle.
LEMMA CheckedMove ==
    ASSUME TypeOK, CyclesConfined, DOMAIN parent' = DOMAIN parent,
           NEW M \in SUBSET Folders, NEW p \in Places, Above(p) \cap M = {},
           \A f \in DOMAIN parent : parent'[f] = IF f \in M THEN p ELSE parent[f],
           tainted' = tainted \ M
    PROVE  CyclesConfined'
  <1> SUFFICES ASSUME NEW C \in SUBSET (DOMAIN parent \ (tainted \ M)), C # {}
               PROVE  \E f \in C : parent'[f] \notin C
    BY DEF CyclesConfined
  <1>1. CASE C \cap M = {}
    <2>1. C \in SUBSET (DOMAIN parent \ tainted)
      BY <1>1
    <2>2. PICK f \in C : parent[f] \notin C
      BY <2>1 DEF CyclesConfined
    <2> QED
      BY <1>1, <2>2
  <1>2. CASE C \cap M # {} /\ p \notin C
    BY <1>2
  <1>3. CASE p \in C
    <2> DEFINE D == C \cap Above(p)
    <2>1. p \in Above(p) /\ ClosedUp(Above(p)) /\ Above(p) \in SUBSET Places
      BY AboveIsClosed
    <2>2. D \in SUBSET (DOMAIN parent \ tainted) /\ D # {}
      BY <1>3, <2>1
    <2>3. PICK f \in D : parent[f] \notin D
      BY <2>2 DEF CyclesConfined
    <2>4. parent[f] \in Above(p) /\ f \notin M /\ f \in DOMAIN parent
      BY <2>1, <2>2, <2>3 DEF ClosedUp
    <2> QED
      BY <2>3, <2>4
  <1> QED
    BY <1>1, <1>2, <1>3

\* Folders that are put anywhere are in the cycles they make.
LEMMA UncheckedMove ==
    ASSUME TypeOK, CyclesConfined, DOMAIN parent' = DOMAIN parent, NEW M \in SUBSET Folders,
           \A f \in DOMAIN parent \ M : parent'[f] = parent[f],
           tainted' = tainted \cup M
    PROVE  CyclesConfined'
  BY DEF CyclesConfined

\* A new folder has nothing below it, and is not seen by a deletion under way.
LEMMA CreateFolderIInv ==
    ASSUME IInv, NEW t \in Tasks, NEW f \in Folders, NEW p \in Places, CreateFolder(t, f, p)
    PROVE  IInv'
  <1>1. /\ served < MaxRequests /\ served' = served + 1 /\ f \notin DOMAIN parent /\ p \in Nodes
        /\ \A u \in Tasks : f \notin DOMAIN req[u].drafts
        /\ parent' = With(parent, Row(f, p)) /\ live' = live \cup {f}
        /\ stray' = IF p \in Folders \ live \/ Deleting THEN stray \cup {f} ELSE stray \ {f}
        /\ UNCHANGED <<lock, step, req, tainted>>
    BY DEF CreateFolder, Exists, Put, Nodes
  <1>2. parent \in Tables /\ Row(f, p) \in Tables /\ DOMAIN Row(f, p) = {f} /\ Row(f, p)[f] = p
    BY RowFacts DEF IInv, TypeOK
  <1>3. /\ parent' \in Tables /\ DOMAIN parent' = DOMAIN parent \cup {f} /\ parent'[f] = p
        /\ \A g \in DOMAIN parent : parent'[g] = parent[g]
    <2>1. parent' \in Tables
      BY <1>1, <1>2, WithFacts
    <2> QED
      BY <1>1, <1>2, <2>1 DEF With
  <1>4. TypeOK'
    <2>1. served' \in 0 .. MaxRequests
      BY <1>1, BoundAssumption DEF IInv, TypeOK
    <2>2. live' \subseteq DOMAIN parent' /\ tainted' \subseteq DOMAIN parent' /\ stray' \subseteq DOMAIN parent'
      BY <1>1, <1>3 DEF IInv, TypeOK
    <2>3. \A u \in Tasks : DOMAIN req[u].drafts \cap DOMAIN parent' = {} /\ req[u].gone \subseteq DOMAIN parent'
      BY <1>1, <1>3 DEF IInv, TypeOK
    <2> QED
      BY <1>1, <1>3, <2>1, <2>2, <2>3 DEF IInv, TypeOK
  <1>5. LockHeld' /\ ParentsExist'
    BY <1>1, <1>3 DEF IInv, LockHeld, ParentsExist, Nodes
  <1>6. CyclesConfined'
    <2> DEFINE S == DOMAIN parent \ tainted
    <2>1. p # f /\ \A g \in S : parent[g] # f
      BY <1>1, NullAssumption DEF IInv, ParentsExist, Nodes
    <2>2. NoCycle(parent, S) /\ NoCycle(Row(f, p), DOMAIN Row(f, p))
      BY <2>1, OneRow DEF IInv, CyclesConfined, NoCycle
    <2>3. S \in SUBSET DOMAIN parent /\ DOMAIN parent \cap DOMAIN Row(f, p) = {}
          /\ \A g \in S : parent[g] \notin DOMAIN Row(f, p)
      BY <1>1, <1>2, <2>1
    <2>4. NoCycle(With(parent, Row(f, p)), S \cup DOMAIN Row(f, p))
      BY <1>2, <2>2, <2>3, JoinedRows
    <2>5. DOMAIN parent' \ tainted' \subseteq S \cup DOMAIN Row(f, p)
      BY <1>1, <1>2, <1>3
    <2> HIDE DEF S
    <2> QED
      BY <1>1, <2>4, <2>5 DEF CyclesConfined, NoCycle
  <1>7. LiveBelowLive'
    <2> SUFFICES ASSUME NEW g \in live' \ stray' PROVE parent'[g] \in live' \cup {Root}
      BY DEF LiveBelowLive
    <2>1. CASE g = f
      <3>1. p \notin Folders \ live
        BY <1>1, <2>1
      <3> QED
        BY <1>1, <1>3, <2>1, <3>1 DEF Places
    <2>2. CASE g # f
      BY <1>1, <1>3, <2>2 DEF IInv, LiveBelowLive, TypeOK
    <2> QED
      BY <2>1, <2>2
  <1>8. ASSUME NEW u \in Tasks
        PROVE  RequestFits(u)' /\ DeletionFits(u)' /\ CopyFits(u)'
    <2>1. step[u] \in {"delete", "commit_delete"} => Deleting
      BY NullAssumption DEF IInv, LockHeld, Deleting
    <2>2. step[u] \in {"delete", "commit_delete"} => live' \ stray' \subseteq live \ stray
      BY <1>1, <2>1
    <2>3. step'[u] = step[u] /\ req'[u] = req[u] /\ live \subseteq live' /\ DOMAIN parent \subseteq DOMAIN parent'
      BY <1>1, <1>3
    <2> QED
      BY <1>3, <1>4, <2>2, <2>3, GrownFits
  <1> QED
    BY <1>4, <1>5, <1>6, <1>7, <1>8 DEF IInv

\* A move that was checked makes no cycle, and one below a deleted folder is known.
LEMMA UpdateIInv ==
    ASSUME IInv, NEW t \in Tasks, Update(t)
    PROVE  IInv'
  <1> DEFINE f == req[t].item
             p == req[t].target
             dirty == req[t].dirty
  <1>1. /\ step[t] = "update" /\ parent' = [parent EXCEPT ![f] = p]
        /\ tainted' = IF dirty /\ p # Root THEN tainted \cup {f} ELSE tainted \ {f}
        /\ stray' = IF dirty \/ Deleting THEN stray \cup {f} ELSE stray \ {f}
        /\ step' = [step EXCEPT ![t] = "idle"] /\ req' = Dirtied(t)
        /\ UNCHANGED <<live, lock, served>>
    BY DEF Update, Put, Done, Goto
  <1>2. /\ f \in DOMAIN parent /\ p \in Nodes
        /\ ~dirty => p \in live \cup {Root} /\ f \notin Above(p)
    BY <1>1 DEF IInv, RequestFits
  <1> HIDE DEF f, p, dirty
  <1>3. /\ parent' \in Tables /\ DOMAIN parent' = DOMAIN parent /\ f \in Folders /\ p \in Places
        /\ \A g \in DOMAIN parent : parent'[g] = IF g = f THEN p ELSE parent[g]
    <2>1. parent \in [DOMAIN parent -> Places] /\ DOMAIN parent \in SUBSET Folders /\ p \in Places
      BY <1>2, ParentFacts DEF IInv
    <2>2. parent' \in [DOMAIN parent -> Places]
      BY <1>1, <2>1
    <2> QED
      BY <1>1, <1>2, <2>1, <2>2 DEF Tables
  <1>4. step' \in [Tasks -> Steps] /\ step'[t] = "idle" /\ \A u \in Tasks \ {t} : step'[u] = step[u]
    BY <1>1 DEF IInv, TypeOK, Steps
  <1>5. /\ req' \in [Tasks -> Requests] /\ req'[t] = NoReq
        /\ \A u \in Tasks \ {t} : /\ req'[u].frames = req[u].frames
                                  /\ req'[u].drafts = req[u].drafts /\ req'[u].gone = req[u].gone
    BY <1>1, DirtiedFacts
  <1>6. TypeOK'
    <2>1. live' \subseteq DOMAIN parent' /\ tainted' \subseteq DOMAIN parent' /\ stray' \subseteq DOMAIN parent'
      BY <1>1, <1>2, <1>3 DEF IInv, TypeOK
    <2>2. ASSUME NEW u \in Tasks
          PROVE  /\ DOMAIN req'[u].drafts \cap DOMAIN parent' = {} /\ req'[u].gone \subseteq DOMAIN parent'
                 /\ lock' # u => req'[u].frames = <<>> /\ req'[u].drafts = <<>> /\ req'[u].gone = {}
      <3>1. CASE u = t
        BY <1>5, <3>1, NoReqFacts, NoRows
      <3>2. CASE u # t
        BY <1>1, <1>3, <1>5, <3>2 DEF IInv, TypeOK
      <3> QED
        BY <3>1, <3>2
    <2> QED
      BY <1>1, <1>3, <1>4, <1>5, <2>1, <2>2 DEF IInv, TypeOK
  <1>7. LockHeld' /\ ParentsExist'
    <2>1. LockHeld'
      BY <1>1, <1>4 DEF IInv, LockHeld
    <2>2. ParentsExist'
      BY <1>2, <1>3 DEF IInv, ParentsExist, Nodes
    <2> QED
      BY <2>1, <2>2
  <1>8. CyclesConfined'
    <2>1. CASE dirty /\ p # Root
      <3>1. \A g \in DOMAIN parent \ {f} : parent'[g] = parent[g]
        BY <1>3
      <3>2. tainted' = tainted \cup {f} /\ {f} \in SUBSET Folders /\ DOMAIN parent' = DOMAIN parent
        BY <1>1, <1>3, <2>1
      <3> QED
        BY <3>1, <3>2, UncheckedMove DEF IInv
    <2>2. CASE ~(dirty /\ p # Root)
      <3>1. Above(p) \cap {f} = {}
        BY <1>2, <1>3, <2>2, AboveRoot, NullAssumption DEF IInv
      <3>2. \A g \in DOMAIN parent : parent'[g] = IF g \in {f} THEN p ELSE parent[g]
        BY <1>3
      <3> QED
        BY <1>1, <1>3, <2>2, <3>1, <3>2, CheckedMove DEF IInv
    <2> QED
      BY <2>1, <2>2
  <1>9. LiveBelowLive'
    BY <1>1, <1>2, <1>3 DEF IInv, LiveBelowLive, TypeOK
  <1>10. ASSUME NEW u \in Tasks
         PROVE  RequestFits(u)' /\ DeletionFits(u)' /\ CopyFits(u)'
    <2>1. CASE u = t
      BY <1>4, <1>5, <2>1, EndedFits
    <2>2. CASE u # t
      <3>1. step[u] \in {"delete", "commit_delete"} => Deleting
        BY NullAssumption DEF IInv, LockHeld, Deleting
      <3>2. step[u] \in {"delete", "commit_delete"} =>
              \A g \in live' \ stray' : g \in live \ stray /\ parent'[g] = parent[g]
        BY <1>1, <1>3, <3>1 DEF IInv, TypeOK
      <3> QED
        BY <1>1, <1>3, <1>4, <2>2, <3>2, DirtiedFits
    <2> QED
      BY <2>1, <2>2
  <1> QED
    BY <1>6, <1>7, <1>8, <1>9, <1>10 DEF IInv

\* bulk_move checks nothing but makes its cycles known, and no transaction is under way.
LEMMA BulkMoveIInv ==
    ASSUME IInv, NEW t \in Tasks, NEW F \in SUBSET Folders, NEW p \in Places, BulkMove(t, F, p)
    PROVE  IInv'
  <1> DEFINE M == F \ {p}
  <1>1. /\ step[t] = "idle" /\ lock = NoTask /\ F \subseteq DOMAIN parent /\ p \in Nodes
        /\ served < MaxRequests /\ served' = served + 1
        /\ parent' = [f \in DOMAIN parent |-> IF f \in M THEN p ELSE parent[f]]
        /\ tainted' = IF Above(p) \cap M # {} THEN tainted \cup M ELSE tainted \ M
        /\ stray' = IF p \in Folders \ live \/ Deleting THEN stray \cup M ELSE stray \ M
        /\ req' = Dirtied(t) /\ UNCHANGED <<live, lock, step>>
    BY DEF BulkMove, Put, Exists, Nodes
  <1>2. M \in SUBSET Folders /\ M \subseteq DOMAIN parent
    BY <1>1
  <1> HIDE DEF M
  <1>3. /\ parent' \in Tables /\ DOMAIN parent' = DOMAIN parent
        /\ \A g \in DOMAIN parent : parent'[g] = IF g \in M THEN p ELSE parent[g]
    <2>1. parent \in [DOMAIN parent -> Places] /\ DOMAIN parent \in SUBSET Folders
      BY ParentFacts DEF IInv
    <2>2. parent' \in [DOMAIN parent -> Places]
      BY <1>1, <2>1
    <2> QED
      BY <1>1, <2>1, <2>2 DEF Tables
  <1>4. /\ req' \in [Tasks -> Requests] /\ req'[t] = NoReq
        /\ \A u \in Tasks \ {t} : /\ req'[u].frames = req[u].frames
                                  /\ req'[u].drafts = req[u].drafts /\ req'[u].gone = req[u].gone
    BY <1>1, DirtiedFacts
  <1>5. TypeOK'
    <2>1. live' \subseteq DOMAIN parent' /\ tainted' \subseteq DOMAIN parent' /\ stray' \subseteq DOMAIN parent'
      BY <1>1, <1>2, <1>3 DEF IInv, TypeOK
    <2>2. ASSUME NEW u \in Tasks
          PROVE  /\ DOMAIN req'[u].drafts \cap DOMAIN parent' = {} /\ req'[u].gone \subseteq DOMAIN parent'
                 /\ lock' # u => req'[u].frames = <<>> /\ req'[u].drafts = <<>> /\ req'[u].gone = {}
      <3>1. CASE u = t
        BY <1>4, <3>1, NoReqFacts, NoRows
      <3>2. CASE u # t
        BY <1>1, <1>3, <1>4, <3>2 DEF IInv, TypeOK
      <3> QED
        BY <3>1, <3>2
    <2>3. served' \in 0 .. MaxRequests
      BY <1>1, BoundAssumption DEF IInv, TypeOK
    <2> QED
      BY <1>1, <1>3, <1>4, <2>1, <2>2, <2>3 DEF IInv, TypeOK
  <1>6. LockHeld'
    BY <1>1 DEF IInv, LockHeld
  <1>7. ParentsExist'
    BY <1>1, <1>3 DEF IInv, ParentsExist, Nodes
  <1>8. CyclesConfined'
    <2>1. CASE Above(p) \cap M # {}
      <3>1. \A f \in DOMAIN parent \ M : parent'[f] = parent[f]
        BY <1>3
      <3> QED
        BY <1>1, <1>2, <1>3, <2>1, <3>1, UncheckedMove DEF IInv
    <2>2. CASE Above(p) \cap M = {}
      BY <1>1, <1>2, <1>3, <2>2, CheckedMove DEF IInv
    <2> QED
      BY <2>1, <2>2
  <1>9. LiveBelowLive'
    <2>1. p \in Folders \ live \/ p \in live \cup {Root}
      BY DEF Places
    <2> QED
      BY <1>1, <1>3, <2>1 DEF IInv, LiveBelowLive, TypeOK
  <1>10. ASSUME NEW u \in Tasks
         PROVE  RequestFits(u)' /\ DeletionFits(u)' /\ CopyFits(u)'
    <2>1. CASE u = t
      BY <1>1, <1>4, <2>1, EndedFits
    <2>2. CASE u # t
      <3>1. step[u] \notin {"delete", "commit_delete"}
        BY <1>1, NullAssumption DEF IInv, LockHeld
      <3>2. step'[u] = step[u]
        BY <1>1
      <3> QED
        BY <1>1, <1>3, <2>2, <3>1, <3>2, DirtiedFits
    <2> QED
      BY <2>1, <2>2
  <1> QED
    BY <1>5, <1>6, <1>7, <1>8, <1>9, <1>10 DEF IInv

\* A deletion that commits leaves nothing live below what it has deleted.
LEMMA CommitDeleteIInv ==
    ASSUME IInv, NEW t \in Tasks, CommitDelete(t)
    PROVE  IInv'
  <1>1. /\ step[t] = "commit_delete" /\ lock' = NoTask /\ step' = [step EXCEPT ![t] = "idle"]
        /\ live' = live \ req[t].gone /\ req' = Dirtied(t) /\ UNCHANGED <<parent, tainted, stray, served>>
    BY DEF CommitDelete, Done, Goto
  <1>2. lock = t /\ BelowIsVisited(req[t].frames, req[t].gone)
    BY <1>1 DEF IInv, LockHeld, DeletionFits
  <1>3. step' \in [Tasks -> Steps] /\ step'[t] = "idle" /\ \A u \in Tasks \ {t} : step'[u] = step[u]
    BY <1>1 DEF IInv, TypeOK, Steps
  <1>4. /\ req' \in [Tasks -> Requests] /\ req'[t] = NoReq
        /\ \A u \in Tasks \ {t} : /\ req'[u].frames = req[u].frames
                                  /\ req'[u].drafts = req[u].drafts /\ req'[u].gone = req[u].gone
    BY <1>1, DirtiedFacts
  <1>5. \A u \in Tasks \ {t} : step[u] \notin {"delete", "commit_delete", "copy", "commit_copy"}
    BY <1>2 DEF IInv, LockHeld
  <1>6. TypeOK'
    <2>1. ASSUME NEW u \in Tasks
          PROVE  /\ DOMAIN req'[u].drafts \cap DOMAIN parent' = {} /\ req'[u].gone \subseteq DOMAIN parent'
                 /\ req'[u].frames = <<>> /\ req'[u].drafts = <<>> /\ req'[u].gone = {}
      <3>1. CASE u = t
        BY <1>4, <3>1, NoReqFacts, NoRows
      <3>2. CASE u # t
        BY <1>1, <1>2, <1>4, <3>2 DEF IInv, TypeOK
      <3> QED
        BY <3>1, <3>2
    <2> QED
      BY <1>1, <1>3, <1>4, <2>1 DEF IInv, TypeOK
  <1>7. LockHeld'
    BY <1>1, <1>3, <1>5, NullAssumption DEF LockHeld
  <1>8. ParentsExist' /\ CyclesConfined'
    BY <1>1 DEF IInv, ParentsExist, CyclesConfined, Nodes
  <1>9. LiveBelowLive'
    BY <1>1, <1>2 DEF IInv, LiveBelowLive, BelowIsVisited
  <1>10. ASSUME NEW u \in Tasks
         PROVE  RequestFits(u)' /\ DeletionFits(u)' /\ CopyFits(u)'
    <2>1. CASE u = t
      BY <1>3, <1>4, <2>1, EndedFits
    <2>2. CASE u # t
      <3>1. step'[u] = step[u] /\ step[u] \notin {"delete", "commit_delete"} /\ DOMAIN parent' = DOMAIN parent
        BY <1>1, <1>3, <1>5, <2>2
      <3> QED
        BY <1>1, <2>2, <3>1, DirtiedFits
    <2> QED
      BY <2>1, <2>2
  <1> QED
    BY <1>6, <1>7, <1>8, <1>9, <1>10 DEF IInv

\* A copy that commits adds a part of the tree of its own.
LEMMA CommitCopyIInv ==
    ASSUME IInv, NEW t \in Tasks, CommitCopy(t)
    PROVE  IInv'
  <1>1. PICK q \in Requests : q = req[t]
    BY DEF IInv, TypeOK
  <1>2. /\ step[t] = "commit_copy" /\ lock' = NoTask
        /\ parent' = With(parent, q.drafts) /\ live' = live \cup DOMAIN q.drafts
        /\ stray' = IF q.target \in Folders \ live
                    THEN stray \cup {n \in DOMAIN q.drafts : q.drafts[n] = q.target} ELSE stray
        /\ step' = [step EXCEPT ![t] = "idle"] /\ req' = [req EXCEPT ![t] = NoReq]
        /\ UNCHANGED <<tainted, served>>
    BY <1>1 DEF CommitCopy, Refuse, Goto
  <1>3. /\ lock = t /\ DOMAIN q.drafts \cap DOMAIN parent = {} /\ DraftsFit(q) /\ q.target \in Nodes
    BY <1>1, <1>2, CopyFacts
  <1>4. /\ parent \in Tables /\ q.drafts \in Tables /\ DOMAIN q.drafts \subseteq Folders
        /\ DOMAIN parent \subseteq Folders
    BY DEF IInv, TypeOK, Requests, Tables
  <1>5. /\ parent' \in Tables /\ DOMAIN parent' = DOMAIN parent \cup DOMAIN q.drafts
        /\ \A n \in DOMAIN q.drafts : parent'[n] = q.drafts[n]
        /\ \A f \in DOMAIN parent : parent'[f] = parent[f]
    <2>1. parent' \in Tables
      BY <1>2, <1>4, WithFacts
    <2> QED
      BY <1>2, <1>3, <2>1 DEF With
  <1>6. step' \in [Tasks -> Steps] /\ step'[t] = "idle" /\ \A u \in Tasks \ {t} : step'[u] = step[u]
    BY <1>2 DEF IInv, TypeOK, Steps
  <1>7. req' \in [Tasks -> Requests] /\ req'[t] = NoReq /\ \A u \in Tasks \ {t} : req'[u] = req[u]
    BY <1>2, NoReqFacts DEF IInv, TypeOK
  <1>8. \A u \in Tasks \ {t} : step[u] \notin {"delete", "commit_delete", "copy", "commit_copy"}
    BY <1>3 DEF IInv, LockHeld
  <1>9. TypeOK'
    <2>1. ASSUME NEW u \in Tasks
          PROVE  /\ DOMAIN req'[u].drafts \cap DOMAIN parent' = {} /\ req'[u].gone \subseteq DOMAIN parent'
                 /\ req'[u].frames = <<>> /\ req'[u].drafts = <<>> /\ req'[u].gone = {}
      <3>1. CASE u = t
        BY <1>7, <3>1, NoReqFacts, NoRows
      <3>2. CASE u # t
        <4>1. req'[u] = req[u] /\ lock # u
          BY <1>3, <1>7, <3>2
        <4> QED
          BY <4>1, NoRows DEF IInv, TypeOK
      <3> QED
        BY <3>1, <3>2
    <2>2. live' \subseteq DOMAIN parent' /\ tainted' \subseteq DOMAIN parent' /\ stray' \subseteq DOMAIN parent'
      BY <1>2, <1>5 DEF IInv, TypeOK
    <2> QED
      BY <1>2, <1>5, <1>6, <1>7, <2>1, <2>2 DEF IInv, TypeOK
  <1>10. LockHeld'
    BY <1>2, <1>6, <1>8, NullAssumption DEF LockHeld
  <1>11. ParentsExist'
    BY <1>3, <1>5 DEF IInv, ParentsExist, DraftsFit, Nodes
  <1>12. CyclesConfined'
    <2> DEFINE S == DOMAIN parent \ tainted
    <2>1. NoCycle(parent, S) /\ NoCycle(q.drafts, DOMAIN q.drafts)
      BY <1>3 DEF IInv, CyclesConfined, NoCycle, DraftsFit
    <2>2. S \in SUBSET DOMAIN parent /\ \A f \in S : parent[f] \notin DOMAIN q.drafts
      BY <1>3, <1>4, NullAssumption DEF IInv, ParentsExist, Nodes
    <2>3. NoCycle(With(parent, q.drafts), S \cup DOMAIN q.drafts)
      BY <1>3, <1>4, <2>1, <2>2, JoinedRows
    <2>4. DOMAIN parent' \ tainted' \subseteq S \cup DOMAIN q.drafts
      BY <1>2, <1>5
    <2> HIDE DEF S
    <2> QED
      BY <1>2, <2>3, <2>4 DEF CyclesConfined, NoCycle
  <1>13. LiveBelowLive'
    <2> SUFFICES ASSUME NEW g \in live' \ stray' PROVE parent'[g] \in live' \cup {Root}
      BY DEF LiveBelowLive
    <2>1. CASE g \in live
      <3>1. g \in live \ stray /\ parent'[g] = parent[g]
        BY <1>2, <1>5, <2>1 DEF IInv, TypeOK
      <3> QED
        BY <1>2, <3>1 DEF IInv, LiveBelowLive
    <2>2. CASE g \in DOMAIN q.drafts
      <3>1. parent'[g] \in DOMAIN q.drafts \cup {q.target}
        BY <1>3, <1>5, <2>2 DEF DraftsFit
      <3>2. q.target \in Folders \ live => parent'[g] # q.target
        BY <1>2, <1>5, <2>2
      <3>3. q.target \in Folders \cup {Root}
        BY <1>3, <1>4 DEF Nodes
      <3> QED
        BY <1>2, <3>1, <3>2, <3>3
    <2> QED
      BY <1>2, <2>1, <2>2
  <1>14. ASSUME NEW u \in Tasks
         PROVE  RequestFits(u)' /\ DeletionFits(u)' /\ CopyFits(u)'
    <2>1. CASE u = t
      BY <1>6, <1>7, <2>1, EndedFits
    <2>2. CASE u # t
      <3>1. /\ step'[u] = step[u] /\ req'[u] = req[u] /\ step[u] \notin {"delete", "commit_delete"}
            /\ live \subseteq live' /\ DOMAIN parent \subseteq DOMAIN parent'
        BY <1>2, <1>5, <1>6, <1>7, <1>8, <2>2
      <3> QED
        BY <1>5, <1>9, <3>1, GrownFits
    <2> QED
      BY <2>1, <2>2
  <1> QED
    BY <1>9, <1>10, <1>11, <1>12, <1>13, <1>14 DEF IInv

-----------------------------------------------------------------------------
LEMMA InitIInv == Init => IInv
  <1> SUFFICES ASSUME Init PROVE IInv
    OBVIOUS
  <1>1. /\ parent = <<>> /\ live = {} /\ tainted = {} /\ stray = {} /\ served = 0 /\ lock = NoTask
        /\ step = [t \in Tasks |-> "idle"] /\ req = [t \in Tasks |-> NoReq]
    BY DEF Init
  <1>2. parent \in Tables /\ DOMAIN parent = {}
    BY <1>1, NoRows
  <1>3. \A t \in Tasks : step[t] = "idle" /\ req[t] = NoReq
    BY <1>1
  <1>4. TypeOK
    <2>1. 0 \in 0 .. MaxRequests
      BY BoundAssumption
    <2>2. step \in [Tasks -> Steps] /\ req \in [Tasks -> Requests]
      BY <1>1, NoReqFacts DEF Steps
    <2> QED
      BY <1>1, <1>2, <1>3, <2>1, <2>2, NoReqFacts DEF TypeOK
  <1>5. LockHeld
    BY <1>1, <1>3, NullAssumption DEF LockHeld
  <1>6. ParentsExist /\ CyclesConfined /\ LiveBelowLive
    BY <1>1, <1>2 DEF ParentsExist, CyclesConfined, LiveBelowLive
  <1>7. \A t \in Tasks : RequestFits(t) /\ DeletionFits(t) /\ CopyFits(t)
    BY <1>3, NoReqFacts DEF RequestFits, DeletionFits, CopyFits, Nodes
  <1> QED
    BY <1>4, <1>5, <1>6, <1>7 DEF IInv

LEMMA NextIInv == IInv /\ [Next]_vars => IInv'
  <1> SUFFICES ASSUME IInv, [Next]_vars PROVE IInv'
    OBVIOUS
  <1>1. CASE UNCHANGED vars
    <2>1. UNCHANGED <<parent, live, lock, step, req, tainted, stray, served>>
      BY <1>1 DEF vars
    <2>2. TypeOK' /\ LockHeld' /\ ParentsExist' /\ CyclesConfined' /\ LiveBelowLive'
      BY <2>1 DEF IInv, TypeOK, LockHeld, ParentsExist, CyclesConfined, LiveBelowLive, Nodes
    <2>3. ASSUME NEW u \in Tasks
          PROVE  RequestFits(u)' /\ DeletionFits(u)' /\ CopyFits(u)'
      BY <2>1, <2>2, GrownFits DEF IInv
    <2> QED
      BY <2>2, <2>3 DEF IInv
  <1>2. ASSUME NEW t \in Tasks, NEW f \in Folders, NEW p \in Places, CreateFolder(t, f, p) \/ BeginRename(t, f, p)
        PROVE  IInv'
    BY <1>2, CreateFolderIInv, BeginRenameIInv
  <1>3. ASSUME NEW t \in Tasks, CheckTarget(t) \/ Walk(t) \/ Update(t) \/ PathStep(t)
        PROVE  IInv'
    BY <1>3, CheckTargetIInv, WalkIInv, UpdateIInv, PathStepIInv
  <1>4. ASSUME NEW t \in Tasks, NEW f \in Folders,
               BeginPath(t, f) \/ BeginDelete(t, f) \/ DeleteInto(t, f) \/ SkipItem(t, f)
        PROVE  IInv'
    BY <1>4, BeginPathIInv, BeginDeleteIInv, DeleteIntoIInv, SkipItemIInv
  <1>5. ASSUME NEW t \in Tasks, NEW F \in SUBSET Folders, NEW p \in Places, BulkMove(t, F, p)
        PROVE  IInv'
    BY <1>5, BulkMoveIInv
  <1>6. ASSUME NEW t \in Tasks, NEW F \in SUBSET Folders, BeginBulkDelete(t, F)
        PROVE  IInv'
    BY <1>6, BeginBulkDeleteIInv
  <1>7. ASSUME NEW t \in Tasks, LockDelete(t) \/ DeleteSelf(t) \/ CommitDelete(t)
        PROVE  IInv'
    BY <1>7, LockDeleteIInv, DeleteSelfIInv, CommitDeleteIInv
  <1>8. ASSUME NEW t \in Tasks, NEW f \in Folders, NEW n \in Folders, NEW p \in Places, BeginCopy(t, f, p, n)
        PROVE  IInv'
    BY <1>8, BeginCopyIInv
  <1>9. ASSUME NEW t \in Tasks, NEW f \in Folders, NEW n \in Folders, CopyInto(t, f, n)
        PROVE  IInv'
    BY <1>9, CopyIntoIInv
  <1>10. ASSUME NEW t \in Tasks, CopyDone(t) \/ CommitCopy(t)
         PROVE  IInv'
    BY <1>10, CopyDoneIInv, CommitCopyIInv
  <1> QED
    BY <1>1, <1>2, <1>3, <1>4, <1>5, <1>6, <1>7, <1>8, <1>9, <1>10 DEF Next

-----------------------------------------------------------------------------
\* A path down the tree that is longer than there are folders comes back to one of
\* them: its folders in between are a cycle.
LEMMA LongPath ==
    ASSUME IInv, NEW s \in Seq(Frames), Len(s) = MaxDepth, PathDown(s),
           \A i \in DOMAIN s : i # 1 => s[i].folder \in DOMAIN parent
    PROVE  \E C \in SUBSET DOMAIN parent : C # {} /\ \A f \in C : parent[f] \in C
  <1> DEFINE n == Cardinality(Folders)
  <1>1. n \in Nat /\ DOMAIN s = 1 .. n + 2
    BY FoldersAssumption, FS_CardinalityType DEF MaxDepth
  <1>2. DOMAIN parent \subseteq Folders /\ Root \notin DOMAIN parent
    BY ParentFacts DEF IInv
  <1> HIDE DEF n
  <1> DEFINE I == 2 .. n + 2
             at == [i \in I |-> s[i].folder]
  <1>3. \A i \in I : i \in DOMAIN s /\ i # 1 /\ s[i].folder \in DOMAIN parent
    BY <1>1
  <1>4. at \in [I -> Folders]
    BY <1>2, <1>3
  <1>5. IsFiniteSet(I) /\ Cardinality(I) = n + 1
    BY <1>1, FS_Interval
  <1>6. PICK i, j \in I : i # j /\ at[i] = at[j]
    <2>1. Cardinality(Folders) < Cardinality(I)
      BY <1>1, <1>5 DEF n
    <2> HIDE DEF I, at
    <2> QED
      BY <1>4, <1>5, <2>1, FoldersAssumption, FS_PigeonHole
  <1>7. ASSUME NEW a \in I, NEW b \in I, a < b, s[a].folder = s[b].folder
        PROVE  \E C \in SUBSET DOMAIN parent : C # {} /\ \A f \in C : parent[f] \in C
    <2> DEFINE C == {s[k].folder : k \in a + 1 .. b}
    <2>1. a + 1 .. b \subseteq I /\ b \in a + 1 .. b
      BY <1>1, <1>7
    <2>2. C \in SUBSET DOMAIN parent /\ C # {}
      BY <1>3, <2>1
    <2>3. ASSUME NEW k \in a + 1 .. b PROVE parent[s[k].folder] \in C
      <3>1. /\ k - 1 \in I /\ k - 1 \in DOMAIN s /\ (k - 1) + 1 = k /\ k \in DOMAIN s
            /\ (k - 1 = a \/ k - 1 \in a + 1 .. b)
        BY <1>1, <1>7
      <3>2. s[k - 1].folder # Root
        BY <1>2, <1>3, <3>1
      <3>3. parent[s[k].folder] = s[k - 1].folder
        BY <3>1, <3>2 DEF PathDown
      <3>4. CASE k - 1 = a
        BY <1>7, <2>1, <3>3, <3>4
      <3>5. CASE k - 1 \in a + 1 .. b
        BY <3>3, <3>5
      <3> QED
        BY <3>1, <3>4, <3>5
    <2>4. \A f \in C : parent[f] \in C
      BY <2>3
    <2> HIDE DEF C
    <2> QED
      BY <2>2, <2>4
  <1>8. i < j \/ j < i
    BY <1>1, <1>6
  <1> QED
    BY <1>6, <1>7, <1>8

LEMMA DeletionsEnd == IInv => RecursionConfined
  <1> SUFFICES ASSUME IInv, NEW t \in Tasks, step[t] = "delete", Len(req[t].frames) = MaxDepth,
                      tainted = {}, ~req[t].dirty
               PROVE  FALSE
    BY DEF RecursionConfined
  <1>1. PICK s \in Seq(Frames) : s = req[t].frames
    BY DEF IInv, TypeOK, Requests
  <1>2. PathDown(s) /\ \A i \in DOMAIN s : i # 1 => s[i].folder \in DOMAIN parent
    BY <1>1 DEF IInv, DeletionFits
  <1>3. PICK C \in SUBSET DOMAIN parent : C # {} /\ \A f \in C : parent[f] \in C
    BY <1>1, <1>2, LongPath
  <1> QED
    BY <1>3 DEF IInv, CyclesConfined

LEMMA OriginalsCopied == IInv => CopiesOriginals
  BY DEF IInv, TypeOK, CopyFits, CopiedFits, Original, CopiesOriginals

-----------------------------------------------------------------------------
\* What is known of the tree, and of the walks up and down that are under way on it:
\* rename_item, create_folder, bulk_move, bulk_copy, delete_item and bulk_delete
\* keep it.
THEOREM FolderTreeInvariant == Spec => []IInv
  <1> QED
    BY InitIInv, NextIInv, PTL DEF Spec

\* Cycles, lost folders and deletions without end come only from moves that bulk_move
\* did not check, or that rename_item and the deletions made on what had changed.
THEOREM FolderTreeInOrder == Spec => []TreeInOrder
  <1>1. IInv => TreeInOrder
    BY DeletionsEnd DEF IInv, TreeInOrder
  <1> QED
    BY <1>1, FolderTreeInvariant, PTL

\* A copy that is not put below what it copies, on a tree that is left alone, copies
\* originals only.
THEOREM FolderTreeCopies == Spec => []CopiesOriginals
  BY OriginalsCopied, FolderTreeInvariant, PTL
=============================================================================
