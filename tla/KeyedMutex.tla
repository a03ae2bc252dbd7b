----------------------------- MODULE KeyedMutex -----------------------------
(***************************************************************************)
(* api/src/utils/keyed_mutex.rs: the table of per-key mutexes behind       *)
(* FileService::bulk_lock, which serialises the folder and bulk operations *)
(* of one user.                                                            *)
(*                                                                         *)
(* `lock` is two steps: the entry of the DashMap is looked up or created   *)
(* and its Arc cloned under the shard lock, then the mutex is awaited with *)
(* no lock held.  `cleanup` may run between the two.  tokio's Mutex is     *)
(* external: it serves its waiters in FIFO order and hands the mutex over  *)
(* when a guard is dropped; a handler's future may be dropped while it     *)
(* waits or while it holds the guard (the client went away).               *)
(***************************************************************************)
EXTENDS Naturals, FiniteSets, SequencesExt

CONSTANTS Tasks, Keys,
          Mutexes,    \* identities of Arc<Mutex<()>> allocations
          NoMutex, NoKey

ASSUME TasksAssumption == IsFiniteSet(Tasks)
ASSUME NullAssumption == NoMutex \notin Mutexes /\ NoKey \notin Keys

VARIABLES
    locks,   \* [Keys -> Mutexes \cup {NoMutex}]: the DashMap
    key,     \* [Tasks -> Keys \cup {NoKey}]: the argument of the task's lock call
    arc,     \* [Tasks -> Mutexes \cup {NoMutex}]: the Arc clone of the task
    queue    \* [Mutexes -> Seq(Tasks)]: the owner, then the waiters in order

vars == <<locks, key, arc, queue>>

TypeOK ==
    /\ locks \in [Keys -> Mutexes \cup {NoMutex}]
    /\ key \in [Tasks -> Keys \cup {NoKey}]
    /\ arc \in [Tasks -> Mutexes \cup {NoMutex}]
    /\ queue \in [Mutexes -> Seq(Tasks)]
    /\ \A t \in Tasks : key[t] = NoKey <=> arc[t] = NoMutex

Init ==
    /\ locks = [k \in Keys |-> NoMutex]
    /\ key = [t \in Tasks |-> NoKey]
    /\ arc = [t \in Tasks |-> NoMutex]
    /\ queue = [m \in Mutexes |-> <<>>]

-----------------------------------------------------------------------------
InQueue(t, m) == \E n \in DOMAIN queue[m] : queue[m][n] = t

\* The guard of key k is in the hands of t.
Holds(t, k) ==
    /\ key[t] = k
    /\ arc[t] # NoMutex
    /\ queue[arc[t]] # <<>>
    /\ Head(queue[arc[t]]) = t

\* An allocation that neither the table nor a task refers to.
Free(m) == /\ \A k \in Keys : locks[k] # m
           /\ \A t \in Tasks : arc[t] # m

\* Arc::strong_count of the table's entry for k: the table's own reference and
\* the clones of the tasks.
StrongCount(k) == 1 + Cardinality({t \in Tasks : arc[t] = locks[k]})

-----------------------------------------------------------------------------
\* entry().or_insert_with().value().clone(), under the shard lock.
Lookup(t, k) ==
    /\ key[t] = NoKey
    /\ \E m \in Mutexes :
        /\ IF locks[k] = NoMutex THEN Free(m) ELSE m = locks[k]
        /\ locks' = [locks EXCEPT ![k] = m]
        /\ arc' = [arc EXCEPT ![t] = m]
        /\ key' = [key EXCEPT ![t] = k]
    /\ UNCHANGED queue

\* Mutant: a later caller is put before the waiters.
EnqueueFirst(t) ==
    /\ arc[t] # NoMutex
    /\ ~InQueue(t, arc[t])
    /\ queue' = [queue EXCEPT ![arc[t]] =
                    IF @ = <<>> THEN <<t>> ELSE <<Head(@), t>> \o Tail(@)]
    /\ UNCHANGED <<locks, key, arc>>

\* First poll of lock_owned(): the mutex is taken, or the task queues behind
\* the tasks already there.
Enqueue(t) ==
    /\ arc[t] # NoMutex
    /\ ~InQueue(t, arc[t])
    /\ queue' = [queue EXCEPT ![arc[t]] = Append(@, t)]
    /\ UNCHANGED <<locks, key, arc>>

\* t's guard, or its pending lock future, is dropped; so is its Arc.
DropAt(t, n) ==
    /\ queue' = [queue EXCEPT ![arc[t]] = RemoveAt(@, n)]
    /\ arc' = [arc EXCEPT ![t] = NoMutex]
    /\ key' = [key EXCEPT ![t] = NoKey]
    /\ UNCHANGED locks

\* The critical section ends and the guard goes out of scope.
Unlock(t) ==
    /\ arc[t] # NoMutex
    /\ queue[arc[t]] # <<>>
    /\ Head(queue[arc[t]]) = t
    /\ DropAt(t, 1)

\* The request is cancelled while it waits for the mutex.
CancelWait(t) ==
    /\ arc[t] # NoMutex
    /\ \E n \in DOMAIN queue[arc[t]] :
        /\ n > 1
        /\ queue[arc[t]][n] = t
        /\ DropAt(t, n)

\* Mutant: the key of the cancelled call is kept.
CancelEarlyHalf(t) ==
    /\ arc[t] # NoMutex
    /\ ~InQueue(t, arc[t])
    /\ arc' = [arc EXCEPT ![t] = NoMutex]
    /\ UNCHANGED <<locks, key, queue>>

\* The request is cancelled between the clone and the first poll.
CancelEarly(t) ==
    /\ arc[t] # NoMutex
    /\ ~InQueue(t, arc[t])
    /\ arc' = [arc EXCEPT ![t] = NoMutex]
    /\ key' = [key EXCEPT ![t] = NoKey]
    /\ UNCHANGED <<locks, queue>>

\* Mutant: whatever nobody holds at the moment is evicted, waiters or not.
CleanupUnlocked(k) ==
    /\ locks[k] # NoMutex
    /\ Cardinality({t \in Tasks : Holds(t, k)}) = 0
    /\ locks' = [locks EXCEPT ![k] = NoMutex]
    /\ UNCHANGED <<key, arc, queue>>

\* cleanup(): DashMap::retain visits the entries one at a time, each under its
\* shard lock, and drops those that only the table refers to.
Cleanup(k) ==
    /\ locks[k] # NoMutex
    /\ ~(StrongCount(k) > 1)
    /\ locks' = [locks EXCEPT ![k] = NoMutex]
    /\ UNCHANGED <<key, arc, queue>>

Next ==
    \/ \E t \in Tasks, k \in Keys : Lookup(t, k)
    \/ \E t \in Tasks : Enqueue(t) \/ Unlock(t) \/ CancelWait(t) \/ CancelEarly(t)
    \/ \E k \in Keys : Cleanup(k)

Spec == Init /\ [][Next]_vars

(***************************************************************************)
(* The runtime polls every ready task (Enqueue) and every critical section *)
(* ends (Unlock): the sections under bulk_lock are one database            *)
(* transaction each and take no second key.  Nothing is assumed of the     *)
(* callers, of cancellation or of cleanup.                                 *)
(***************************************************************************)
MutexFairness == \A t \in Tasks : WF_vars(Enqueue(t)) /\ WF_vars(Unlock(t))

-----------------------------------------------------------------------------
\* Two operations of one user never run inside the lock at the same time, even
\* when the table's entry is evicted and created again in between.
MutualExclusion ==
    \A t, u \in Tasks : \A k \in Keys : Holds(t, k) /\ Holds(u, k) => t = u

\* The callers of key k in the order the table's mutex serves them.
LineOf(k) == IF locks[k] = NoMutex THEN <<>> ELSE queue[locks[k]]

Abstract == INSTANCE KeyedLock WITH line <- [k \in Keys |-> LineOf(k)]

\* The table of mutexes implements one fair mutex per key.
RefinesKeyedLock == Abstract!Spec

\* Whoever queues for a key gets it or is cancelled.
EventuallyServed ==
    \A t \in Tasks : arc[t] # NoMutex ~> (\E k \in Keys : Holds(t, k)) \/ arc[t] = NoMutex
=============================================================================
