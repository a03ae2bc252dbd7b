---------------------------- MODULE StorageLocks ----------------------------
(***************************************************************************)
(* The requests of StorageTasks and the two kinds of lock they wait for:   *)
(* the rows that open transactions have written, and a user's bulk lock    *)
(* (file_service/bulk.rs, delete.rs), which is a line of KeyedLock.        *)
(*                                                                         *)
(* A folder or bulk operation takes the lock before its transaction begins *)
(* and keeps it until the function returns, with an error or not.  The     *)
(* database knows of the rows only: it ends a cycle of row waits, and      *)
(* could not end one through a bulk lock.                                  *)
(***************************************************************************)
EXTENDS StorageTasks, Sequences

CONSTANTS Locking, Plain   \* bounds: the tasks whose requests take a bulk lock, and take none

VARIABLE line   \* per user: the requests that hold or await the bulk lock, first come first

Lock == INSTANCE KeyedLock WITH Keys <- Users

lockVars == <<vars, line>>

\* t has asked for the bulk lock of u and does not hold it yet.
AwaitsLock(t, u) == req[t].lock # u /\ \E n \in DOMAIN line[u] : line[u][n] = t
Awaiting == {t \in Tasks : \E u \in Users : AwaitsLock(t, u)}

\* It is t's turn with the lock of u.
Turn(t, u) == AwaitsLock(t, u) /\ Head(line[u]) = t

-----------------------------------------------------------------------------
\* Mutant: the lock is asked for inside the transaction.
AskInTransaction(t, u) ==
    /\ req[t].lock = NoUser
    /\ spent.requests + Cardinality(Awaiting) < MaxRequests
    /\ Lock!Join(t, u)
    /\ UNCHANGED vars

\* bulk_delete, bulk_move, bulk_copy and delete_item of a folder: first the lock.
\* Nothing else of the request matters before it is held.
Ask(t, u) ==
    /\ Idle(t) /\ t \in Locking
    /\ spent.requests + Cardinality(Awaiting) < MaxRequests
    /\ Lock!Join(t, u)
    /\ UNCHANGED vars

\* With the lock, the transaction on the items that the request names begins; a
\* move or a copy goes to a folder, the name in p does not matter.
BeginLocked(t, u) ==
    /\ Turn(t, u)
    /\ \E D \in SUBSET OwnedBy(u) :
         \/ BeginBulk(t, "bulk_delete", u, D, NoPlace)
         \/ \E p \in Places, op \in {"bulk_move", "bulk_copy"} :
              /\ p.user = u /\ p.name = CHOOSE n \in Names : TRUE
              /\ BeginBulk(t, op, u, D, p)
    /\ UNCHANGED line

\* With the lock, the request finds none of its items, or a first one missing: it
\* returns and gives the lock back.
TurnedAway(t, u) == Turn(t, u) /\ Lock!Leave(t, u) /\ UNCHANGED vars

\* The client goes away before the lock is held: the waiting future is dropped.
GoAway(t, u) == AwaitsLock(t, u) /\ Lock!Leave(t, u) /\ UNCHANGED vars

\* The guard is dropped where the request ends, whatever the end.
Release(t) ==
    IF req[t].lock # NoUser /\ req'[t].lock = NoUser
    THEN Lock!Leave(t, req[t].lock)
    ELSE UNCHANGED line

Proceed(t) == Work(t) /\ Release(t)
AbortLocked(t) == AbortDeadlocked(t) /\ Release(t)
FailLocked(t) == Fail(t) /\ Release(t)

\* Requests that take no bulk lock.
ArriveUnlocked(t) ==
    /\ spent.requests + Cardinality(Awaiting) < MaxRequests
    /\ t \in Plain \ Awaiting
    /\ Arrive(t) /\ req'[t].lock = NoUser
    /\ UNCHANGED line

-----------------------------------------------------------------------------
LockInit == Init /\ Lock!Init

LockNext ==
    \E t \in Tasks :
        \/ \E u \in Users : Ask(t, u) \/ BeginLocked(t, u) \/ TurnedAway(t, u) \/ GoAway(t, u)
        \/ ArriveUnlocked(t) \/ Proceed(t) \/ AbortLocked(t) \/ FailLocked(t)

LockSpec == LockInit /\ [][LockNext]_lockVars

\* What the runtime and the database do without anybody else: the next statement, the
\* end of a deadlock, the mutex handed to the next in line.
Advance(t) ==
    Proceed(t) \/ AbortLocked(t) \/ \E u \in Users : BeginLocked(t, u) \/ TurnedAway(t, u)

-----------------------------------------------------------------------------
\* t is behind u in the line of a user.
Behind(t, u) ==
    \E k \in Users : \E m, n \in DOMAIN line[k] : m < n /\ line[k][m] = u /\ line[k][n] = t

\* The requests that have begun with a user's lock are the head of its line.
HolderIsHead ==
    \A t \in Tasks : req[t].lock # NoUser =>
        line[req[t].lock] # <<>> /\ Head(line[req[t].lock]) = t

\* Requests that wait for each other, over rows and bulk locks taken together, wait
\* for rows only, in open transactions: the database can end each such cycle.
RowCyclesOnly ==
    LET all == RowWaits \cup {e \in Tasks \X Tasks : Behind(e[1], e[2])}
    IN  \A C \in Cycles(all) : C \in Cycles(RowWaits) /\ \A t \in C : draft[t].open

\* As long as a request has begun or awaits a bulk lock, one of them can go on, so that
\* all end in the end: transactions of two users that lock the rows of contents they share
\* in different orders, with more requests behind them in the lines, leave nobody waiting
\* for a lock that its holder has not given back, or will not.
SomebodyGoesOn ==
    (\E t \in Tasks : ~Idle(t) \/ t \in Awaiting) => ENABLED (\E t \in Tasks : Advance(t))

\* A bulk lock is held by the request it was handed to, and by nobody else; it adds no
\* cycle that only the end of the process would end; and nobody waits for good
\* (file_service/bulk.rs, delete.rs: lock, then transaction).
LocksFit == HolderIsHead /\ RowCyclesOnly /\ SomebodyGoesOn
=============================================================================
