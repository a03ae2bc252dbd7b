---------------------------- MODULE ServerProofs ----------------------------
(***************************************************************************)
(* Three components of the server that stand each alone.                   *)
(*                                                                         *)
(* KeyedMutex: mutual exclusion per key, for any numbers of tasks, keys    *)
(* and allocations, and the step simulation of KeyedLock by KeyedMutex.    *)
(*                                                                         *)
(* ScanPipeline: virus scans, for any contents, threats, workers, batch    *)
(* sizes and failures: no row is left saying that it is scanned, and no    *)
(* threat is forgotten, but where a scan has come to nothing.              *)
(*                                                                         *)
(* UploadSession: chunked uploads, for any numbers of handlers, sessions,  *)
(* contents, chunks and failed requests: no answered part is lost, a       *)
(* session makes one file with all its chunks, and row, S3 and files agree.*)
(***************************************************************************)
EXTENDS KeyedMutex, ScanPipeline, UploadSession, TLAPS, FiniteSetTheorems

\* A task that has looked its key up is on the mutex the table still has for
\* that key: cleanup never splits the callers of a key over two mutexes.
OneMutexPerKey ==
    \A t \in Tasks : arc[t] # NoMutex => locks[key[t]] = arc[t]

\* Keys do not share a mutex.
KeysIndependent ==
    \A j, k \in Keys : j # k /\ locks[j] # NoMutex => locks[j] # locks[k]

\* Whoever stands in the queue of a mutex has its Arc.
QueuedHaveArc ==
    \A m \in Mutexes : \A n \in DOMAIN queue[m] : arc[queue[m][n]] = m

\* Nobody stands in a queue twice.
NoDuplicates ==
    \A m \in Mutexes : \A i, j \in DOMAIN queue[m] : queue[m][i] = queue[m][j] => i = j

IInv == TypeOK /\ OneMutexPerKey /\ KeysIndependent /\ QueuedHaveArc /\ NoDuplicates

-----------------------------------------------------------------------------
\* What removing one element leaves of a sequence.
LEMMA RemoveAtFacts ==
    ASSUME NEW S, NEW s \in Seq(S), NEW n \in DOMAIN s
    PROVE  /\ RemoveAt(s, n) \in Seq(S)
           /\ DOMAIN RemoveAt(s, n) = 1 .. Len(s) - 1
           /\ \A i \in 1 .. Len(s) - 1 :
                RemoveAt(s, n)[i] = IF i < n THEN s[i] ELSE s[i + 1]
  <1> DEFINE a == SubSeq(s, 1, n - 1)
             b == SubSeq(s, n + 1, Len(s))
  <1>1. n \in 1 .. Len(s) /\ Len(s) \in Nat
    OBVIOUS
  <1>2. a \in Seq(S) /\ Len(a) = n - 1 /\ \A i \in 1 .. n - 1 : a[i] = s[i]
    BY <1>1
  <1>3. b \in Seq(S) /\ Len(b) = Len(s) - n /\ \A i \in 1 .. Len(s) - n : b[i] = s[i + n]
    BY <1>1
  <1>4. RemoveAt(s, n) = a \o b
    BY DEF RemoveAt
  <1> HIDE DEF a, b
  <1>5. a \o b \in Seq(S) /\ Len(a \o b) = Len(s) - 1
    BY <1>1, <1>2, <1>3
  <1>6. ASSUME NEW i \in 1 .. Len(s) - 1
        PROVE  (a \o b)[i] = IF i < n THEN s[i] ELSE s[i + 1]
    <2>1. CASE i < n
      BY <1>1, <1>2, <1>3, <2>1
    <2>2. CASE ~(i < n)
      <3>1. i - (n - 1) \in 1 .. Len(s) - n /\ (i - (n - 1)) + n = i + 1
        BY <1>1, <2>2
      <3>2. (a \o b)[i] = b[i - (n - 1)]
        BY <1>1, <1>2, <1>3, <2>2
      <3> QED
        BY <1>3, <2>2, <3>1, <3>2
    <2> QED
      BY <2>1, <2>2
  <1> QED
    BY <1>4, <1>5, <1>6

\* A mutex nobody has a reference to has no queue.
LEMMA FreeIsIdle ==
    ASSUME TypeOK, QueuedHaveArc, NEW m \in Mutexes, \A t \in Tasks : arc[t] # m
    PROVE  queue[m] = <<>>
  <1>1. SUFFICES ASSUME queue[m] # <<>> PROVE FALSE
    OBVIOUS
  <1>2. 1 \in DOMAIN queue[m] /\ queue[m][1] \in Tasks
    BY <1>1 DEF TypeOK
  <1> QED
    BY <1>2 DEF QueuedHaveArc

\* An entry that cleanup may drop is one no task has a clone of.
LEMMA UncountedIsFree ==
    ASSUME NEW k \in Keys, ~(StrongCount(k) > 1)
    PROVE  \A t \in Tasks : arc[t] # locks[k]
  <1> DEFINE Clones == {t \in Tasks : arc[t] = locks[k]}
  <1>1. IsFiniteSet(Clones)
    BY TasksAssumption, FS_Subset
  <1>2. Cardinality(Clones) \in Nat
    BY <1>1, FS_CardinalityType
  <1>3. Cardinality(Clones) = 0
    BY <1>2 DEF StrongCount
  <1>4. Clones = {}
    BY <1>1, <1>3, FS_EmptySet
  <1> QED
    BY <1>4

LEMMA InitIInv == Init => IInv
  BY NullAssumption DEF Init, IInv, TypeOK, OneMutexPerKey, KeysIndependent, QueuedHaveArc,
                        NoDuplicates

LEMMA LookupIInv ==
    ASSUME IInv, NEW t \in Tasks, NEW k \in Keys, Lookup(t, k)
    PROVE  IInv'
  <1>1. PICK m \in Mutexes :
          /\ IF locks[k] = NoMutex THEN Free(m) ELSE m = locks[k]
          /\ locks' = [locks EXCEPT ![k] = m]
          /\ arc' = [arc EXCEPT ![t] = m]
          /\ key' = [key EXCEPT ![t] = k]
    BY DEF Lookup
  <1>2. key[t] = NoKey /\ arc[t] = NoMutex /\ queue' = queue
    BY DEF Lookup, IInv, TypeOK
  <1>3. TypeOK'
    BY <1>1, <1>2, NullAssumption DEF IInv, TypeOK
  <1>4. OneMutexPerKey'
    BY <1>1, <1>2, NullAssumption DEF IInv, TypeOK, OneMutexPerKey, Free
  <1>5. KeysIndependent'
    BY <1>1, NullAssumption DEF IInv, TypeOK, KeysIndependent, Free
  <1>6. QueuedHaveArc'
    <2> SUFFICES ASSUME NEW q \in Mutexes, NEW n \in DOMAIN queue[q]
                 PROVE  arc'[queue[q][n]] = q
      BY <1>2 DEF QueuedHaveArc
    <2>1. arc[queue[q][n]] = q /\ queue[q][n] \in Tasks
      BY DEF IInv, TypeOK, QueuedHaveArc
    <2>2. queue[q][n] # t
      BY <1>2, <2>1, NullAssumption
    <2> QED
      BY <1>1, <2>1, <2>2 DEF IInv, TypeOK
  <1>7. NoDuplicates'
    BY <1>2 DEF IInv, NoDuplicates
  <1> QED
    BY <1>3, <1>4, <1>5, <1>6, <1>7 DEF IInv

LEMMA EnqueueIInv ==
    ASSUME IInv, NEW t \in Tasks, Enqueue(t)
    PROVE  IInv'
  <1> DEFINE m == arc[t]
             s == queue[m]
  <1>1. m \in Mutexes /\ s \in Seq(Tasks) /\ ~InQueue(t, m)
    BY DEF Enqueue, IInv, TypeOK
  <1>2. queue' = [queue EXCEPT ![m] = Append(s, t)] /\ UNCHANGED <<locks, key, arc>>
    BY DEF Enqueue
  <1> HIDE DEF m
  <1>3. TypeOK'
    BY <1>1, <1>2 DEF IInv, TypeOK
  <1>4. \A q \in Mutexes : q # m => queue'[q] = queue[q]
    BY <1>2 DEF IInv, TypeOK
  <1>5. /\ DOMAIN queue'[m] = 1 .. Len(s) + 1
        /\ queue'[m][Len(s) + 1] = t
        /\ \A n \in DOMAIN s : queue'[m][n] = s[n]
        /\ DOMAIN s = 1 .. Len(s)
    BY <1>1, <1>2 DEF IInv, TypeOK
  <1>6. QueuedHaveArc'
    <2> SUFFICES ASSUME NEW q \in Mutexes, NEW n \in DOMAIN queue'[q]
                 PROVE  arc[queue'[q][n]] = q
      BY <1>2 DEF QueuedHaveArc
    <2>1. CASE q # m
      BY <1>4, <2>1 DEF IInv, QueuedHaveArc
    <2>2. CASE q = m /\ n = Len(s) + 1
      BY <1>5, <2>2 DEF m
    <2>3. CASE q = m /\ n # Len(s) + 1
      <3>1. n \in DOMAIN s
        BY <1>1, <1>5, <2>3
      <3> QED
        BY <1>1, <1>5, <2>3, <3>1 DEF IInv, QueuedHaveArc
    <2> QED
      BY <2>1, <2>2, <2>3
  <1>7. NoDuplicates'
    <2> SUFFICES ASSUME NEW q \in Mutexes, NEW i \in DOMAIN queue'[q],
                        NEW j \in DOMAIN queue'[q], queue'[q][i] = queue'[q][j]
                 PROVE  i = j
      BY DEF NoDuplicates
    <2>1. CASE q # m
      BY <1>4, <2>1 DEF IInv, NoDuplicates
    <2>2. CASE q = m
      <3>1. \A n \in DOMAIN s : s[n] # t
        BY <1>1 DEF InQueue
      <3>2. \A a, b \in DOMAIN s : s[a] = s[b] => a = b
        BY <1>1 DEF IInv, NoDuplicates
      <3>3. \A a \in DOMAIN queue'[m] : a \in DOMAIN s \/ a = Len(s) + 1
        BY <1>1, <1>5
      <3>4. \A a \in DOMAIN queue'[m] : queue'[m][a] = t <=> a = Len(s) + 1
        BY <1>1, <1>5, <3>1, <3>3
      <3> QED
        BY <1>5, <2>2, <3>2, <3>3, <3>4
    <2> QED
      BY <2>1, <2>2
  <1> QED
    BY <1>2, <1>3, <1>6, <1>7 DEF IInv, OneMutexPerKey, KeysIndependent

LEMMA DropAtIInv ==
    ASSUME IInv, NEW t \in Tasks, arc[t] # NoMutex,
           NEW n \in DOMAIN queue[arc[t]], queue[arc[t]][n] = t, DropAt(t, n)
    PROVE  IInv'
  <1> DEFINE m == arc[t]
             s == queue[m]
             r == RemoveAt(s, n)
  <1>1. m \in Mutexes /\ s \in Seq(Tasks) /\ Len(s) \in Nat /\ n \in 1 .. Len(s)
    BY DEF IInv, TypeOK
  <1>2. /\ queue' = [queue EXCEPT ![m] = r]
        /\ arc' = [arc EXCEPT ![t] = NoMutex]
        /\ key' = [key EXCEPT ![t] = NoKey]
        /\ locks' = locks
    BY DEF DropAt
  <1>3. /\ r \in Seq(Tasks)
        /\ DOMAIN r = 1 .. Len(s) - 1
        /\ \A i \in 1 .. Len(s) - 1 : r[i] = IF i < n THEN s[i] ELSE s[i + 1]
    BY <1>1, RemoveAtFacts
  <1>4. s[n] = t
    OBVIOUS
  <1>5. \A a, b \in DOMAIN s : s[a] = s[b] => a = b
    BY <1>1 DEF IInv, NoDuplicates
  <1>6. \A i \in DOMAIN s : arc[s[i]] = m /\ s[i] \in Tasks
    BY <1>1 DEF IInv, QueuedHaveArc
  <1> HIDE DEF m, s, r
  <1>7. \A i \in DOMAIN r : \E j \in DOMAIN s : j # n /\ r[i] = s[j] /\ j = IF i < n THEN i ELSE i + 1
    <2> SUFFICES ASSUME NEW i \in DOMAIN r
                 PROVE  \E j \in DOMAIN s : j # n /\ r[i] = s[j] /\ j = IF i < n THEN i ELSE i + 1
      OBVIOUS
    <2>1. CASE i < n
      BY <1>1, <1>3, <2>1
    <2>2. CASE ~(i < n)
      BY <1>1, <1>3, <2>2
    <2> QED
      BY <2>1, <2>2
  <1>8. TypeOK'
    <2>1. queue' \in [Mutexes -> Seq(Tasks)]
      BY <1>1, <1>2, <1>3 DEF IInv, TypeOK
    <2> QED
      BY <1>2, <2>1 DEF IInv, TypeOK
  <1>9. OneMutexPerKey'
    BY <1>2 DEF IInv, TypeOK, OneMutexPerKey
  <1>10. KeysIndependent'
    BY <1>2 DEF IInv, KeysIndependent
  <1>11. \A q \in Mutexes : queue'[q] = IF q = m THEN r ELSE queue[q]
    BY <1>2 DEF IInv, TypeOK
  <1>12. QueuedHaveArc'
    <2> SUFFICES ASSUME NEW q \in Mutexes, NEW i \in DOMAIN queue'[q]
                 PROVE  arc'[queue'[q][i]] = q
      BY DEF QueuedHaveArc
    <2>1. CASE q # m
      <3>1. queue'[q] = queue[q] /\ arc[queue[q][i]] = q /\ queue[q][i] \in Tasks
        BY <1>11, <2>1 DEF IInv, TypeOK, QueuedHaveArc
      <3>2. queue[q][i] # t
        BY <2>1, <3>1 DEF m
      <3> QED
        BY <1>2, <3>1, <3>2 DEF IInv, TypeOK
    <2>2. CASE q = m
      <3>1. PICK j \in DOMAIN s : j # n /\ r[i] = s[j]
        BY <1>7, <1>11, <2>2
      <3>2. s[j] # t /\ s[j] \in Tasks /\ arc[s[j]] = m
        BY <1>1, <1>4, <1>5, <1>6, <3>1 DEF s
      <3> QED
        BY <1>2, <1>11, <2>2, <3>1, <3>2 DEF IInv, TypeOK
    <2> QED
      BY <2>1, <2>2
  <1>13. NoDuplicates'
    <2> SUFFICES ASSUME NEW q \in Mutexes, NEW i \in DOMAIN queue'[q],
                        NEW j \in DOMAIN queue'[q], queue'[q][i] = queue'[q][j]
                 PROVE  i = j
      BY DEF NoDuplicates
    <2>1. CASE q # m
      BY <1>11, <2>1 DEF IInv, NoDuplicates
    <2>2. CASE q = m
      <3>1. PICK a \in DOMAIN s : r[i] = s[a] /\ a = IF i < n THEN i ELSE i + 1
        BY <1>7, <1>11, <2>2
      <3>2. PICK b \in DOMAIN s : r[j] = s[b] /\ b = IF j < n THEN j ELSE j + 1
        BY <1>7, <1>11, <2>2
      <3>3. a = b
        BY <1>5, <1>11, <2>2, <3>1, <3>2
      <3>4. i \in Int /\ j \in Int /\ n \in Int
        BY <1>1, <1>3, <1>11, <2>2
      <3> QED
        BY <3>1, <3>2, <3>3, <3>4
    <2> QED
      BY <2>1, <2>2
  <1> QED
    BY <1>8, <1>9, <1>10, <1>12, <1>13 DEF IInv

LEMMA CancelEarlyIInv ==
    ASSUME IInv, NEW t \in Tasks, CancelEarly(t)
    PROVE  IInv'
  <1>1. /\ arc[t] \in Mutexes /\ ~InQueue(t, arc[t])
        /\ arc' = [arc EXCEPT ![t] = NoMutex]
        /\ key' = [key EXCEPT ![t] = NoKey]
        /\ UNCHANGED <<locks, queue>>
    BY DEF CancelEarly, IInv, TypeOK
  <1>2. QueuedHaveArc'
    <2> SUFFICES ASSUME NEW q \in Mutexes, NEW i \in DOMAIN queue[q]
                 PROVE  arc'[queue[q][i]] = q
      BY <1>1 DEF QueuedHaveArc
    <2>1. arc[queue[q][i]] = q /\ queue[q][i] \in Tasks
      BY DEF IInv, TypeOK, QueuedHaveArc
    <2>2. queue[q][i] # t
      BY <1>1, <2>1 DEF InQueue
    <2> QED
      BY <1>1, <2>1, <2>2 DEF IInv, TypeOK
  <1> QED
    BY <1>1, <1>2 DEF IInv, TypeOK, OneMutexPerKey, KeysIndependent, NoDuplicates

LEMMA CleanupIInv ==
    ASSUME IInv, NEW k \in Keys, Cleanup(k)
    PROVE  IInv'
  <1>1. locks' = [locks EXCEPT ![k] = NoMutex] /\ UNCHANGED <<key, arc, queue>>
    BY DEF Cleanup
  <1>2. \A t \in Tasks : arc[t] # locks[k]
    BY UncountedIsFree DEF Cleanup
  <1>3. OneMutexPerKey'
    BY <1>1, <1>2, NullAssumption DEF IInv, TypeOK, OneMutexPerKey
  <1> QED
    BY <1>1, <1>3 DEF IInv, TypeOK, KeysIndependent, QueuedHaveArc, NoDuplicates

LEMMA NextIInv == IInv /\ [Next]_vars => IInv'
  <1> SUFFICES ASSUME IInv, [Next]_vars PROVE IInv'
    OBVIOUS
  <1>1. ASSUME NEW t \in Tasks, NEW k \in Keys, Lookup(t, k) PROVE IInv'
    BY <1>1, LookupIInv
  <1>2. ASSUME NEW t \in Tasks, Enqueue(t) PROVE IInv'
    BY <1>2, EnqueueIInv
  <1>3. ASSUME NEW t \in Tasks, Unlock(t) PROVE IInv'
    <2>1. arc[t] \in Mutexes /\ 1 \in DOMAIN queue[arc[t]] /\ queue[arc[t]][1] = t
      BY <1>3 DEF Unlock, IInv, TypeOK
    <2> QED
      BY <1>3, <2>1, DropAtIInv, NullAssumption DEF Unlock
  <1>4. ASSUME NEW t \in Tasks, CancelWait(t) PROVE IInv'
    BY <1>4, DropAtIInv DEF CancelWait
  <1>5. ASSUME NEW t \in Tasks, CancelEarly(t) PROVE IInv'
    BY <1>5, CancelEarlyIInv
  <1>6. ASSUME NEW k \in Keys, Cleanup(k) PROVE IInv'
    BY <1>6, CleanupIInv
  <1>7. CASE UNCHANGED vars
    BY <1>7 DEF vars, IInv, TypeOK, OneMutexPerKey, KeysIndependent, QueuedHaveArc, NoDuplicates
  <1> QED
    BY <1>1, <1>2, <1>3, <1>4, <1>5, <1>6, <1>7 DEF Next

\* The inductive invariant of the table of mutexes: who is queued where, and
\* that the callers of one key are all on the table's mutex for it.
THEOREM KeyedMutexInvariant == Spec => []IInv
  BY InitIInv, NextIInv, PTL DEF Spec

\* The typing of the table, the Arcs and the queues, for every instance.
THEOREM KeyedMutexTypeOK == Spec => []TypeOK
  <1>1. IInv => TypeOK
    BY DEF IInv
  <1> QED
    BY <1>1, KeyedMutexInvariant, PTL

\* No two tasks are ever inside the lock of one key, whatever cleanup does
\* between a task's lookup and its turn.
THEOREM KeyedMutexExclusion == Spec => []MutualExclusion
  <1>1. IInv => MutualExclusion
    BY DEF IInv, OneMutexPerKey, MutualExclusion, Holds
  <1> QED
    BY <1>1, KeyedMutexInvariant, PTL

-----------------------------------------------------------------------------
\* Every step of the table of mutexes is a step of one fair mutex per key, or
\* leaves the lines alone.
LEMMA InitRefines == Init => Abstract!Init
  BY DEF Init, Abstract!Init, LineOf

LEMMA LookupRefines ==
    ASSUME IInv, NEW t \in Tasks, NEW k \in Keys, Lookup(t, k)
    PROVE  \A j \in Keys : LineOf(j)' = LineOf(j)
  <1>1. PICK m \in Mutexes :
          /\ IF locks[k] = NoMutex THEN Free(m) ELSE m = locks[k]
          /\ locks' = [locks EXCEPT ![k] = m]
    BY DEF Lookup
  <1>2. queue' = queue /\ locks \in [Keys -> Mutexes \cup {NoMutex}]
    BY DEF Lookup, IInv, TypeOK
  <1>3. CASE locks[k] = NoMutex
    <2>1. queue[m] = <<>>
      BY <1>1, <1>3, FreeIsIdle DEF Free, IInv
    <2> QED
      BY <1>1, <1>2, <1>3, <2>1, NullAssumption DEF LineOf
  <1>4. CASE locks[k] # NoMutex
    BY <1>1, <1>2, <1>4 DEF LineOf
  <1> QED
    BY <1>3, <1>4

LEMMA CleanupRefines ==
    ASSUME IInv, NEW k \in Keys, Cleanup(k)
    PROVE  \A j \in Keys : LineOf(j)' = LineOf(j)
  <1>1. locks' = [locks EXCEPT ![k] = NoMutex] /\ queue' = queue /\ locks[k] # NoMutex
    BY DEF Cleanup
  <1>2. locks[k] \in Mutexes /\ locks \in [Keys -> Mutexes \cup {NoMutex}]
    BY <1>1 DEF IInv, TypeOK
  <1>3. \A t \in Tasks : arc[t] # locks[k]
    BY UncountedIsFree DEF Cleanup
  <1>4. queue[locks[k]] = <<>>
    BY <1>2, <1>3, FreeIsIdle DEF IInv
  <1> QED
    BY <1>1, <1>2, <1>4 DEF LineOf

\* The mutex of a task that has one is in the table, under the task's key only.
LEMMA OwnLine ==
    ASSUME IInv, NEW t \in Tasks, arc[t] # NoMutex
    PROVE  /\ key[t] \in Keys /\ locks[key[t]] = arc[t] /\ arc[t] \in Mutexes
           /\ LineOf(key[t]) = queue[arc[t]]
           /\ \A j \in Keys : j # key[t] => locks[j] # arc[t]
  BY DEF IInv, TypeOK, OneMutexPerKey, KeysIndependent, LineOf

LEMMA EnqueueRefines ==
    ASSUME IInv, NEW t \in Tasks, Enqueue(t)
    PROVE  Abstract!Join(t, key[t])
  <1> DEFINE k == key[t]
             m == arc[t]
  <1>1. m # NoMutex /\ ~InQueue(t, m) /\ UNCHANGED <<locks, key, arc>>
        /\ queue' = [queue EXCEPT ![m] = Append(@, t)]
    BY DEF Enqueue
  <1>2. /\ k \in Keys /\ locks[k] = m /\ m \in Mutexes /\ LineOf(k) = queue[m]
        /\ \A j \in Keys : j # k => locks[j] # m
    BY <1>1, OwnLine
  <1> HIDE DEF k, m
  <1>3. ~Abstract!Queued(t)
    <2> SUFFICES ASSUME NEW j \in Keys, NEW n \in DOMAIN LineOf(j), LineOf(j)[n] = t
                 PROVE  FALSE
      BY DEF Abstract!Queued
    <2>1. locks[j] \in Mutexes /\ LineOf(j) = queue[locks[j]]
      BY DEF LineOf, IInv, TypeOK
    <2>2. arc[t] = locks[j]
      BY <2>1 DEF IInv, QueuedHaveArc
    <2> QED
      BY <1>1, <2>1, <2>2 DEF InQueue, m
  <1>4. \A j \in Keys : LineOf(j)' = IF j = k THEN Append(LineOf(k), t) ELSE LineOf(j)
    BY <1>1, <1>2 DEF LineOf, IInv, TypeOK
  <1>5. [j \in Keys |-> LineOf(j)'] = [[j \in Keys |-> LineOf(j)] EXCEPT ![k] = Append(@, t)]
    BY <1>2, <1>4
  <1> QED
    BY <1>3, <1>5 DEF Abstract!Join, k

LEMMA DropAtRefines ==
    ASSUME IInv, NEW t \in Tasks, arc[t] # NoMutex,
           NEW n \in DOMAIN queue[arc[t]], queue[arc[t]][n] = t, DropAt(t, n)
    PROVE  Abstract!Leave(t, key[t])
  <1> DEFINE k == key[t]
             m == arc[t]
  <1>1. locks' = locks /\ queue' = [queue EXCEPT ![m] = RemoveAt(@, n)]
    BY DEF DropAt
  <1>2. /\ k \in Keys /\ locks[k] = m /\ m \in Mutexes /\ LineOf(k) = queue[m]
        /\ \A j \in Keys : j # k => locks[j] # m
    BY OwnLine
  <1>3. n \in DOMAIN LineOf(k) /\ LineOf(k)[n] = t
    BY <1>2
  <1> HIDE DEF k, m
  <1>4. \A j \in Keys : LineOf(j)' = IF j = k THEN RemoveAt(LineOf(k), n) ELSE LineOf(j)
    BY <1>1, <1>2, NullAssumption DEF LineOf, IInv, TypeOK
  <1>5. [j \in Keys |-> LineOf(j)'] =
          [[j \in Keys |-> LineOf(j)] EXCEPT ![k] = RemoveAt(@, n)]
    BY <1>2, <1>4
  <1>6. \A q : Abstract!RemoveAt(q, n) = RemoveAt(q, n)
    BY DEF Abstract!RemoveAt, RemoveAt
  <1> QED
    BY <1>2, <1>3, <1>5, <1>6 DEF Abstract!Leave, k

LEMMA NextRefines == IInv /\ [Next]_vars => [Abstract!Next]_([k \in Keys |-> LineOf(k)])
  <1> SUFFICES ASSUME IInv, [Next]_vars
               PROVE  \/ Abstract!Next
                      \/ [k \in Keys |-> LineOf(k)]' = [k \in Keys |-> LineOf(k)]
    OBVIOUS
  <1>1. ASSUME NEW t \in Tasks, NEW k \in Keys, Lookup(t, k)
        PROVE  [j \in Keys |-> LineOf(j)]' = [j \in Keys |-> LineOf(j)]
    BY <1>1, LookupRefines
  <1>2. ASSUME NEW t \in Tasks, Enqueue(t) PROVE Abstract!Next
    BY <1>2, EnqueueRefines, OwnLine DEF Abstract!Next, Enqueue
  <1>3. ASSUME NEW t \in Tasks, Unlock(t) PROVE Abstract!Next
    <2>1. arc[t] # NoMutex /\ 1 \in DOMAIN queue[arc[t]] /\ queue[arc[t]][1] = t
      BY <1>3 DEF Unlock, IInv, TypeOK
    <2> QED
      BY <1>3, <2>1, DropAtRefines, OwnLine DEF Unlock, Abstract!Next
  <1>4. ASSUME NEW t \in Tasks, CancelWait(t) PROVE Abstract!Next
    BY <1>4, DropAtRefines, OwnLine DEF CancelWait, Abstract!Next
  <1>5. ASSUME NEW t \in Tasks, CancelEarly(t)
        PROVE  [j \in Keys |-> LineOf(j)]' = [j \in Keys |-> LineOf(j)]
    BY <1>5 DEF CancelEarly, LineOf
  <1>6. ASSUME NEW k \in Keys, Cleanup(k)
        PROVE  [j \in Keys |-> LineOf(j)]' = [j \in Keys |-> LineOf(j)]
    BY <1>6, CleanupRefines
  <1>7. CASE UNCHANGED vars
    BY <1>7 DEF vars, LineOf
  <1> QED
    BY <1>1, <1>2, <1>3, <1>4, <1>5, <1>6, <1>7 DEF Next

\* The table of mutexes implements one fair mutex per key.
THEOREM KeyedMutexRefines == Spec => RefinesKeyedLock
  BY InitRefines, NextRefines, KeyedMutexInvariant, PTL
     DEF Spec, RefinesKeyedLock, Abstract!Spec

-----------------------------------------------------------------------------
\* A scanner that has claimed c, and so will not leave it without a word: a worker
\* that has only selected c forgets it when its transaction fails.
ClaimedScan(c) == uploader[c] = "scanning" \/ \E w \in Workers : phase[w] # "selected" /\ c \in batch[w]

\* What every status but pending and infected says about the scans of a row.
StatusExplained ==
    \A c \in Contents :
        /\ status[c] = "scanning" => ClaimedScan(c) \/ c \in lost
        /\ status[c] = "error" => c \in lost
        /\ status[c] = "clean" => c \notin Threats

\* A worker scans what is left of its batch.
CurrentInBatch == \A w \in Workers : current[w] # NoContent => current[w] \in batch[w]

ScanIInv == ScanTypeOK /\ StatusExplained /\ CurrentInBatch

-----------------------------------------------------------------------------
\* Batches are finite, and what is left of one is no larger.
LEMMA BatchShrinks ==
    ASSUME NEW C \in SUBSET Contents, NEW D \in SUBSET C, Cardinality(C) <= BatchLimit
    PROVE  Cardinality(D) <= BatchLimit
  <1>1. IsFiniteSet(C) /\ Cardinality(C) \in Nat
    BY ContentsAssumption, FS_Subset, FS_CardinalityType
  <1>2. IsFiniteSet(D) /\ Cardinality(D) \in Nat /\ Cardinality(D) <= Cardinality(C)
    BY <1>1, FS_Subset, FS_CardinalityType
  <1> QED
    BY <1>1, <1>2, BatchAssumption

\* An idle worker has no batch.
LEMMA EmptyBatch == Cardinality({}) <= BatchLimit
  BY FS_EmptySet, BatchAssumption

\* What an update of scan_status does.
LEMMA SetStatusFacts ==
    ASSUME ScanTypeOK, NEW C \in SUBSET Contents, NEW v \in {"pending", "scanning", "clean", "infected", "error"},
           SetStatus(C, v)
    PROVE  /\ status' \in [Contents -> {"none", "pending", "scanning", "clean", "infected", "error", "deleted"}]
           /\ \A c \in Contents : status'[c] = IF c \in C /\ Stored(c) THEN v ELSE status[c]
  BY DEF ScanTypeOK, SetStatus

\* A step of an upload or a deletion, which leaves the workers alone: those who
\* have claimed another content keep it.
LEMMA UploadSideIInv ==
    ASSUME ScanIInv, NEW c \in Contents, UNCHANGED <<phase, batch, current>>,
           status' \in [Contents -> {"none", "pending", "scanning", "clean", "infected", "error", "deleted"}],
           uploader' \in [Contents -> {"none", "inserted", "scanning", "done"}],
           \A d \in Contents \ {c} : status'[d] = status[d] /\ uploader'[d] = uploader[d],
           lost \subseteq lost', lost' \subseteq Contents, found' \subseteq Threats, faults' \in 0 .. MaxFaults,
           /\ status'[c] = "scanning" => ClaimedScan(c)' \/ c \in lost'
           /\ status'[c] = "error" => c \in lost'
           /\ status'[c] = "clean" => c \notin Threats
    PROVE  ScanIInv'
  <1>1. ScanTypeOK'
    BY DEF ScanIInv, ScanTypeOK
  <1>2. StatusExplained'
    BY DEF ScanIInv, StatusExplained, ClaimedScan
  <1>3. CurrentInBatch'
    BY DEF ScanIInv, CurrentInBatch
  <1> QED
    BY <1>1, <1>2, <1>3 DEF ScanIInv

\* A step of worker w to phase p, with batch B and content x: the rows it no longer
\* holds do not say scanning, or not because of it.
WorkerMoves(w, p, B, x) ==
    /\ phase' = [phase EXCEPT ![w] = p]
    /\ batch' = [batch EXCEPT ![w] = B] /\ B \in SUBSET Contents /\ Cardinality(B) <= BatchLimit
    /\ p = "idle" => B = {}
    /\ current' = [current EXCEPT ![w] = x]
    /\ x # NoContent => p = "scanning" /\ x \in B
    /\ status' \in [Contents -> {"none", "pending", "scanning", "clean", "infected", "error", "deleted"}]
    /\ \A c \in Contents :
         /\ status'[c] = "scanning" =>
              \/ p # "selected" /\ c \in B
              \/ c \in lost'
              \/ status[c] = "scanning" /\ (phase[w] # "selected" => c \notin batch[w])
         /\ status'[c] = "error" => status[c] = "error"
         /\ status'[c] = "clean" => status[c] = "clean" \/ c \notin Threats
    /\ lost \subseteq lost' /\ lost' \subseteq Contents /\ found' \subseteq Threats
    /\ faults' \in 0 .. MaxFaults /\ uploader' = uploader

\* The other workers keep what they have claimed.
LEMMA WorkerSideIInv ==
    ASSUME ScanIInv, NEW w \in Workers, NEW p \in {"idle", "selected", "claimed", "scanning"}, NEW B,
           NEW x \in Contents \cup {NoContent}, WorkerMoves(w, p, B, x)
    PROVE  ScanIInv'
  <1>1. ScanTypeOK'
    BY DEF ScanIInv, ScanTypeOK, WorkerMoves
  <1>2. CurrentInBatch'
    BY DEF ScanIInv, ScanTypeOK, CurrentInBatch, WorkerMoves
  <1>3. StatusExplained'
    <2> SUFFICES ASSUME NEW c \in Contents, status'[c] = "scanning" PROVE ClaimedScan(c)' \/ c \in lost'
      BY DEF ScanIInv, StatusExplained, WorkerMoves
    <2>1. CASE p # "selected" /\ c \in B
      BY <2>1 DEF ScanIInv, ScanTypeOK, ClaimedScan, WorkerMoves
    <2>2. CASE status[c] = "scanning" /\ (phase[w] # "selected" => c \notin batch[w]) /\ c \notin lost'
      BY <2>2 DEF ScanIInv, ScanTypeOK, StatusExplained, ClaimedScan, WorkerMoves
    <2> QED
      BY <2>1, <2>2 DEF WorkerMoves
  <1> QED
    BY <1>1, <1>2, <1>3 DEF ScanIInv

-----------------------------------------------------------------------------
\* No row yet.
LEMMA InitScanIInv == ScanInit => ScanIInv
  BY EmptyBatch, FaultsAssumption, NoContentAssumption
     DEF ScanInit, ScanIInv, ScanTypeOK, StatusExplained, CurrentInBatch

\* A new row is pending.
LEMMA InsertRowIInv ==
    ASSUME ScanIInv, NEW c \in Contents, InsertRow(c)
    PROVE  ScanIInv'
  <1>1. /\ status' = [status EXCEPT ![c] = "pending"] /\ uploader' = [uploader EXCEPT ![c] = "inserted"]
        /\ UNCHANGED <<phase, batch, current, found, lost, faults>>
    BY DEF InsertRow
  <1> QED
    BY <1>1, UploadSideIInv DEF ScanIInv, ScanTypeOK

\* The upload claims its row together with the task that scans it.
LEMMA ClaimUploadIInv ==
    ASSUME ScanIInv, NEW c \in Contents, ClaimUpload(c)
    PROVE  ScanIInv'
  <1>1. /\ uploader' = [uploader EXCEPT ![c] = "scanning"] /\ SetStatus({c}, "scanning")
        /\ UNCHANGED <<phase, batch, current, found, lost, faults>>
    BY DEF ClaimUpload
  <1>2. /\ status' \in [Contents -> {"none", "pending", "scanning", "clean", "infected", "error", "deleted"}]
        /\ \A d \in Contents : status'[d] = IF d \in {c} /\ Stored(d) THEN "scanning" ELSE status[d]
    BY <1>1, SetStatusFacts DEF ScanIInv
  <1>3. ClaimedScan(c)'
    BY <1>1 DEF ScanIInv, ScanTypeOK, ClaimedScan
  <1> QED
    BY <1>1, <1>2, <1>3, UploadSideIInv DEF ScanIInv, ScanTypeOK, StatusExplained

\* Its verdict overwrites whatever the status is by then.
LEMMA JudgeUploadIInv ==
    ASSUME ScanIInv, NEW c \in Contents, JudgeUpload(c)
    PROVE  ScanIInv'
  <1>1. /\ uploader' = [uploader EXCEPT ![c] = "done"] /\ SetStatus({c}, Verdict(c))
        /\ found' = found \cup ({c} \cap Threats)
        /\ UNCHANGED <<phase, batch, current, lost, faults>>
    BY DEF JudgeUpload, Report
  <1>2. /\ status' \in [Contents -> {"none", "pending", "scanning", "clean", "infected", "error", "deleted"}]
        /\ \A d \in Contents : status'[d] = IF d \in {c} /\ Stored(d) THEN Verdict(c) ELSE status[d]
    <2>1. Verdict(c) \in {"clean", "infected"}
      BY DEF Verdict
    <2> QED
      BY <1>1, <2>1, SetStatusFacts DEF ScanIInv
  <1>3. status'[c] \notin {"scanning", "error"} /\ (status'[c] = "clean" => c \notin Threats)
    BY <1>2 DEF Verdict, Stored, ScanIInv, StatusExplained
  <1> QED
    BY <1>1, <1>2, <1>3, UploadSideIInv DEF ScanIInv, ScanTypeOK

\* A scan that ends in an error has come to nothing.
LEMMA UploadScanErrorIInv ==
    ASSUME ScanIInv, NEW c \in Contents, UploadScanError(c)
    PROVE  ScanIInv'
  <1>1. /\ uploader' = [uploader EXCEPT ![c] = "done"] /\ SetStatus({c}, "error") /\ lost' = lost \cup {c}
        /\ UNCHANGED <<phase, batch, current, found, faults>>
    BY DEF UploadScanError
  <1>2. /\ status' \in [Contents -> {"none", "pending", "scanning", "clean", "infected", "error", "deleted"}]
        /\ \A d \in Contents : status'[d] = IF d \in {c} /\ Stored(d) THEN "error" ELSE status[d]
    BY <1>1, SetStatusFacts DEF ScanIInv
  <1> QED
    BY <1>1, <1>2, UploadSideIInv DEF ScanIInv, ScanTypeOK, StatusExplained

\* So has one that is lost with its task.
LEMMA UploadCrashIInv ==
    ASSUME ScanIInv, NEW c \in Contents, UploadCrash(c)
    PROVE  ScanIInv'
  <1>1. /\ faults' \in 0 .. MaxFaults
        /\ lost' = IF uploader[c] = "scanning" THEN lost \cup {c} ELSE lost
        /\ uploader' = [uploader EXCEPT ![c] = "done"]
        /\ UNCHANGED <<status, phase, batch, current, found>>
    BY FaultsAssumption DEF UploadCrash, ScanIInv, ScanTypeOK
  <1>2. status[c] = "scanning" => ClaimedScan(c)' \/ c \in lost'
    BY <1>1 DEF ScanIInv, StatusExplained, ClaimedScan
  <1> QED
    BY <1>1, <1>2, UploadSideIInv DEF ScanIInv, ScanTypeOK, StatusExplained

\* Deletions of the row by a request or by perform_cleanup.
LEMMA DeletedIInv ==
    ASSUME ScanIInv, NEW c \in Contents, status' = [status EXCEPT ![c] = "deleted"],
           UNCHANGED <<uploader, phase, batch, current, found, lost, faults>>
    PROVE  ScanIInv'
  BY UploadSideIInv DEF ScanIInv, ScanTypeOK

\* An idle worker takes at most BatchLimit rows, which it has not claimed yet.
LEMMA SelectIInv ==
    ASSUME ScanIInv, NEW w \in Workers, Select(w)
    PROVE  ScanIInv'
  <1>1. PICK C \in SUBSET Contents :
          /\ phase[w] = "idle" /\ Cardinality(C) <= BatchLimit
          /\ batch' = [batch EXCEPT ![w] = C] /\ phase' = [phase EXCEPT ![w] = "selected"]
          /\ UNCHANGED <<status, uploader, current, found, lost, faults>>
    BY DEF Select
  <1>2. batch[w] = {} /\ current[w] = NoContent /\ current' = [current EXCEPT ![w] = NoContent]
    BY <1>1, NoContentAssumption DEF ScanIInv, ScanTypeOK
  <1>3. WorkerMoves(w, "selected", C, NoContent)
    BY <1>1, <1>2, NoContentAssumption DEF ScanIInv, ScanTypeOK, WorkerMoves
  <1> QED
    BY <1>3, WorkerSideIInv

\* The claim: every row of the batch that says scanning from here on is scanned.
LEMMA ClaimIInv ==
    ASSUME ScanIInv, NEW w \in Workers, Claim(w)
    PROVE  ScanIInv'
  <1>1. /\ phase[w] = "selected" /\ SetStatus(batch[w], "scanning") /\ phase' = [phase EXCEPT ![w] = "claimed"]
        /\ UNCHANGED <<uploader, batch, current, found, lost, faults>>
    BY DEF Claim
  <1>2. batch[w] \in SUBSET Contents /\ Cardinality(batch[w]) <= BatchLimit /\ batch' = [batch EXCEPT ![w] = batch[w]]
    BY <1>1 DEF ScanIInv, ScanTypeOK
  <1>3. current' = [current EXCEPT ![w] = NoContent]
    BY <1>1 DEF ScanIInv, ScanTypeOK
  <1>4. /\ status' \in [Contents -> {"none", "pending", "scanning", "clean", "infected", "error", "deleted"}]
        /\ \A d \in Contents : status'[d] = IF d \in batch[w] /\ Stored(d) THEN "scanning" ELSE status[d]
    BY <1>1, <1>2, SetStatusFacts DEF ScanIInv
  <1>5. WorkerMoves(w, "claimed", batch[w], NoContent)
    BY <1>1, <1>2, <1>3, <1>4, NoContentAssumption DEF ScanIInv, ScanTypeOK, WorkerMoves
  <1> QED
    BY <1>5, WorkerSideIInv

\* Rows that are gone are left out, and do not say scanning.
LEMMA FetchIInv ==
    ASSUME ScanIInv, NEW w \in Workers, Fetch(w)
    PROVE  ScanIInv'
  <1> DEFINE B == {c \in batch[w] : Stored(c)}
  <1>1. /\ phase[w] = "claimed" /\ batch' = [batch EXCEPT ![w] = B] /\ phase' = [phase EXCEPT ![w] = "scanning"]
        /\ UNCHANGED <<status, uploader, current, found, lost, faults>>
    BY DEF Fetch
  <1>2. B \in SUBSET Contents /\ Cardinality(B) <= BatchLimit
    BY BatchShrinks DEF ScanIInv, ScanTypeOK
  <1>3. current' = [current EXCEPT ![w] = NoContent]
    BY <1>1 DEF ScanIInv, ScanTypeOK
  <1>4. \A c \in Contents : status'[c] = "scanning" => c \in B \/ c \notin batch[w]
    BY <1>1 DEF Stored
  <1> HIDE DEF B
  <1>5. WorkerMoves(w, "scanning", B, NoContent)
    BY <1>1, <1>2, <1>3, <1>4, NoContentAssumption DEF ScanIInv, ScanTypeOK, WorkerMoves
  <1> QED
    BY <1>5, WorkerSideIInv

\* The content being read is one of the batch.
LEMMA StartScanIInv ==
    ASSUME ScanIInv, NEW w \in Workers, StartScan(w)
    PROVE  ScanIInv'
  <1>1. PICK c \in batch[w] :
          /\ phase[w] = "scanning" /\ current' = [current EXCEPT ![w] = c]
          /\ UNCHANGED <<status, uploader, phase, batch, found, lost, faults>>
    BY DEF StartScan
  <1>2. /\ batch[w] \in SUBSET Contents /\ Cardinality(batch[w]) <= BatchLimit
        /\ batch' = [batch EXCEPT ![w] = batch[w]] /\ phase' = [phase EXCEPT ![w] = "scanning"]
    BY <1>1 DEF ScanIInv, ScanTypeOK
  <1>3. WorkerMoves(w, "scanning", batch[w], c)
    BY <1>1, <1>2 DEF ScanIInv, ScanTypeOK, WorkerMoves
  <1>4. c \in Contents
    BY <1>2
  <1> QED
    BY <1>3, <1>4, WorkerSideIInv

\* An empty batch leaves nothing behind.
LEMMA EndBatchIInv ==
    ASSUME ScanIInv, NEW w \in Workers, EndBatch(w)
    PROVE  ScanIInv'
  <1>1. /\ batch[w] = {} /\ phase' = [phase EXCEPT ![w] = "idle"]
        /\ UNCHANGED <<status, uploader, batch, current, found, lost, faults>>
    BY DEF EndBatch
  <1>2. batch' = [batch EXCEPT ![w] = {}] /\ current' = [current EXCEPT ![w] = NoContent]
    BY <1>1 DEF ScanIInv, ScanTypeOK, CurrentInBatch
  <1>3. WorkerMoves(w, "idle", {}, NoContent)
    BY <1>1, <1>2, EmptyBatch DEF ScanIInv, ScanTypeOK, WorkerMoves
  <1> QED
    BY <1>3, WorkerSideIInv

\* What had been claimed has come to nothing; what had not is as it was.
LEMMA WorkerCrashIInv ==
    ASSUME ScanIInv, NEW w \in Workers, WorkerCrash(w)
    PROVE  ScanIInv'
  <1>1. /\ faults' \in 0 .. MaxFaults
        /\ lost' = IF phase[w] = "selected" THEN lost ELSE lost \cup batch[w]
        /\ phase' = [phase EXCEPT ![w] = "idle"] /\ batch' = [batch EXCEPT ![w] = {}]
        /\ current' = [current EXCEPT ![w] = NoContent]
        /\ UNCHANGED <<status, uploader, found>>
    BY FaultsAssumption DEF WorkerCrash, ScanIInv, ScanTypeOK
  <1>2. lost \subseteq lost' /\ lost' \subseteq Contents
    BY <1>1 DEF ScanIInv, ScanTypeOK
  <1>3. WorkerMoves(w, "idle", {}, NoContent)
    BY <1>1, <1>2, EmptyBatch DEF ScanIInv, ScanTypeOK, WorkerMoves
  <1> QED
    BY <1>3, WorkerSideIInv

\* A scan of a worker ends: the row gets a status that is not "scanning", is gone,
\* or the content is among those whose scan has come to nothing.
LEMMA EndScanIInv ==
    ASSUME ScanIInv, NEW w \in Workers, NEW c \in Contents, EndScan(w, c),
           status' \in [Contents -> {"none", "pending", "scanning", "clean", "infected", "error", "deleted"}],
           \A d \in Contents \ {c} : status'[d] = status[d],
           status'[c] = "scanning" => c \in lost',
           status'[c] = "error" => status[c] = "error",
           status'[c] = "clean" => status[c] = "clean" \/ c \notin Threats,
           lost \subseteq lost', lost' \subseteq Contents, found' \subseteq Threats, faults' \in 0 .. MaxFaults
    PROVE  ScanIInv'
  <1> DEFINE B == batch[w] \ {c}
  <1>1. /\ current[w] = c /\ current' = [current EXCEPT ![w] = NoContent]
        /\ batch' = [batch EXCEPT ![w] = B] /\ UNCHANGED <<uploader, phase>>
    BY DEF EndScan
  <1>2. phase[w] = "scanning" /\ phase' = [phase EXCEPT ![w] = "scanning"]
    BY <1>1, NoContentAssumption DEF ScanIInv, ScanTypeOK
  <1>3. B \in SUBSET Contents /\ Cardinality(B) <= BatchLimit
    BY BatchShrinks DEF ScanIInv, ScanTypeOK
  <1>4. \A d \in Contents : status'[d] = "scanning" => d \in B \/ d \in lost' \/ (status[d] = "scanning" /\ d \notin batch[w])
    OBVIOUS
  <1> HIDE DEF B
  <1>5. WorkerMoves(w, "scanning", B, NoContent)
    BY <1>1, <1>2, <1>3, <1>4 DEF WorkerMoves
  <1> QED
    BY <1>5, WorkerSideIInv

\* The three results of a worker's scan.
LEMMA ScanStepIInv ==
    ASSUME ScanIInv, NEW w \in Workers, NEW c \in Contents, ScanStep(w, c)
    PROVE  ScanIInv'
  <1>1. CASE Judge(w, c)
    <2>1. /\ EndScan(w, c) /\ SetStatus({c}, Verdict(c)) /\ found' = found \cup ({c} \cap Threats)
          /\ UNCHANGED <<lost, faults>>
      BY <1>1 DEF Judge, Report
    <2>2. Verdict(c) \in {"clean", "infected"} /\ (Verdict(c) = "clean" => c \notin Threats)
      BY DEF Verdict
    <2>3. /\ status' \in [Contents -> {"none", "pending", "scanning", "clean", "infected", "error", "deleted"}]
          /\ \A d \in Contents : status'[d] = IF d \in {c} /\ Stored(d) THEN Verdict(c) ELSE status[d]
      BY <2>1, <2>2, SetStatusFacts DEF ScanIInv
    <2>4. status'[c] \notin {"scanning", "error"} /\ (status'[c] = "clean" => c \notin Threats)
      BY <2>2, <2>3 DEF Stored
    <2> QED
      BY <2>1, <2>3, <2>4, EndScanIInv DEF ScanIInv, ScanTypeOK
  <1>2. CASE Retry(w, c)
    <2>1. /\ EndScan(w, c) /\ SetStatus({c}, "pending") /\ faults' \in 0 .. MaxFaults /\ UNCHANGED <<found, lost>>
      BY <1>2, FaultsAssumption DEF Retry, ScanIInv, ScanTypeOK
    <2>2. /\ status' \in [Contents -> {"none", "pending", "scanning", "clean", "infected", "error", "deleted"}]
          /\ \A d \in Contents : status'[d] = IF d \in {c} /\ Stored(d) THEN "pending" ELSE status[d]
      BY <2>1, SetStatusFacts DEF ScanIInv
    <2>3. status'[c] \notin {"scanning", "error", "clean"}
      BY <2>2 DEF Stored
    <2> QED
      BY <2>1, <2>2, <2>3, EndScanIInv DEF ScanIInv, ScanTypeOK
  <1>3. CASE Swallow(w, c)
    BY <1>3, EndScanIInv DEF Swallow, ScanIInv, ScanTypeOK
  <1> QED
    BY <1>1, <1>2, <1>3 DEF ScanStep

\* ScanIInv is inductive.
LEMMA NextScanIInv == ScanIInv /\ [ScanNext]_scanVars => ScanIInv'
  <1> SUFFICES ASSUME ScanIInv, [ScanNext]_scanVars PROVE ScanIInv'
    OBVIOUS
  <1>1. CASE UNCHANGED scanVars
    BY <1>1 DEF scanVars, ScanIInv, ScanTypeOK, StatusExplained, ClaimedScan, CurrentInBatch
  <1>2. ASSUME NEW c \in Contents, InsertRow(c) \/ UploadStep(c) \/ Release(c) \/ UploadCrash(c)
        PROVE  ScanIInv'
    BY <1>2, InsertRowIInv, ClaimUploadIInv, JudgeUploadIInv, UploadScanErrorIInv, DeletedIInv, UploadCrashIInv
       DEF UploadStep, Release
  <1>3. ASSUME NEW w \in Workers, WorkerStep(w) \/ WorkerCrash(w)
        PROVE  ScanIInv'
    BY <1>3, SelectIInv, ClaimIInv, FetchIInv, StartScanIInv, EndBatchIInv, WorkerCrashIInv DEF WorkerStep
  <1>4. ASSUME NEW w \in Workers, NEW c \in Contents, ScanStep(w, c) \/ Purge(w, c)
        PROVE  ScanIInv'
    BY <1>4, ScanStepIInv, DeletedIInv DEF Purge
  <1> QED
    BY <1>1, <1>2, <1>3, <1>4 DEF ScanNext

-----------------------------------------------------------------------------
\* The inductive invariant: types, a claimed scan for every row that says scanning,
\* no clean threat, errors only where a scan has come to nothing.
THEOREM ScanPipelineInvariant == ScanSpec => []ScanIInv
  BY InitScanIInv, NextScanIInv, PTL DEF ScanSpec

\* worker.rs:99, upload.rs: claims and results that overtake each other leave no row
\* that only says it is being scanned.
THEOREM ScanPipelineInOrder == ScanSpec => []ScansInOrder
  <1>1. ScanIInv => ScansInOrder
    BY DEF ScanIInv, StatusExplained, ClaimedScan, ScansInOrder, ScanningIsScanned, Scanned
  <1> QED
    BY <1>1, ScanPipelineInvariant, PTL

\* A content in which a threat was found is blocked, waits for a scan or is being
\* scanned, or a scan of it has come to nothing.
THEOREM ScanPipelineThreatNotForgotten == ScanSpec => []ThreatNotForgotten
  <1>1. ScanIInv => ThreatNotForgotten
    BY ThreatsAssumption
       DEF ScanIInv, ScanTypeOK, StatusExplained, ClaimedScan, ThreatNotForgotten, Scanned, Stored
  <1> QED
    BY <1>1, ScanPipelineInvariant, PTL

-----------------------------------------------------------------------------
\* A request that has made the step that cannot be made again is all that keeps
\* the row of a session behind S3, unless one ended there.
Unfinished(s) ==
    \/ s \in broken
    \/ \E t \in Handlers : req[t].session = s /\ step[t] \in PointOfNoReturn

\* At most one request of a session is past its point of no return.
OneCommitted ==
    \A t, u \in Handlers :
        /\ step[t] \in PointOfNoReturn /\ step[u] \in PointOfNoReturn
        /\ req[t].session = req[u].session
        => t = u

Numbered(parts, n) == DOMAIN parts = 1 .. n

\* What holds of a session's row, files and answered parts in each state of its
\* multipart upload.
RowFollowsUpload(s) ==
    /\ sessions[s] # NoSession =>
         /\ DOMAIN sessions[s].parts \subseteq 1 .. sessions[s].total_chunks
         /\ acked[s] \subseteq DOMAIN sessions[s].parts
    /\ uploads[s].state \in {"none", "open", "aborted"} => assembled[s] = NoObject /\ made[s] = <<>>
    /\ uploads[s].state = "none" => sessions[s] = NoSession /\ acked[s] = {}
    /\ uploads[s].state = "open" =>
         IF sessions[s] = NoSession THEN Unfinished(s) /\ acked[s] = {} ELSE Pending(s)
    /\ uploads[s].state = "aborted" => sessions[s] = NoSession \/ (Pending(s) /\ Unfinished(s))
    /\ uploads[s].state = "completed" =>
         /\ sessions[s] # NoSession
         /\ IF Pending(s) THEN Unfinished(s) ELSE assembled[s] = NoObject /\ Len(made[s]) = 1
         /\ made[s] = <<>> \/ (Len(made[s]) = 1 /\ Numbered(made[s][1], sessions[s].total_chunks))

\* What a request relies on between two of its steps.
RequestFits(t) ==
    LET s == req[t].session
        Row == sessions[s]
        Merged == Numbered(req[t].parts, Row.total_chunks)
    IN  /\ step[t] \in {"upload_part", "record_part", "complete_s3", "abort_s3"} =>
             uploads[s].state # "none" /\ (Open(s) => Row # NoSession)
        /\ step[t] \in {"upload_part", "record_part"} /\ Row # NoSession => req[t].part <= Row.total_chunks
        /\ step[t] = "complete_s3" /\ Row # NoSession => Merged
        /\ step[t] = "insert_session" => Open(s) /\ Row = NoSession
        /\ step[t] = "delete_session" => uploads[s].state = "aborted"
        /\ step[t] \in {"find_content", "move_object", "attach_file", "mark_completed"} =>
             uploads[s].state = "completed" /\ Pending(s) /\ Merged
        /\ step[t] \in {"find_content", "move_object", "attach_file"} => made[s] = <<>>
        /\ step[t] \in {"find_content", "move_object"} => assembled[s] # NoObject
        /\ step[t] \in {"attach_file", "mark_completed"} => assembled[s] = NoObject
        /\ step[t] = "mark_completed" => Len(made[s]) = 1

SessionIInv ==
    /\ SessionTypeOK
    /\ OneCommitted
    /\ \A s \in Sessions : RowFollowsUpload(s)
    /\ \A t \in Handlers : RequestFits(t)

-----------------------------------------------------------------------------
\* A list of parts is a function on some of the part numbers.
LEMMA PartListFacts ==
    ASSUME NEW p \in PartLists
    PROVE  DOMAIN p \in SUBSET PartNumbers /\ p \in [DOMAIN p -> Data]
  BY DEF PartLists

\* A new session has no part.
LEMMA EmptyPartList == <<>> \in PartLists /\ DOMAIN <<>> = {}
  <1>1. DOMAIN <<>> = {}
    OBVIOUS
  <1>2. <<>> \in [{} -> Data]
    BY <1>1
  <1> QED
    BY <1>1, <1>2 DEF PartLists

\* What RecordPart and S3 do to a list.
LEMMA WithPartFacts ==
    ASSUME NEW p \in PartLists, NEW n \in PartNumbers, NEW d \in Data
    PROVE  /\ WithPart(p, n, d) \in PartLists
           /\ DOMAIN WithPart(p, n, d) = DOMAIN p \cup {n}
  <1>1. p \in [DOMAIN p -> Data] /\ DOMAIN p \in SUBSET PartNumbers
    BY PartListFacts
  <1>2. WithPart(p, n, d) \in [DOMAIN p \cup {n} -> Data]
    BY <1>1 DEF WithPart
  <1>3. DOMAIN p \cup {n} \in SUBSET PartNumbers
    BY <1>1
  <1> QED
    BY <1>2, <1>3 DEF PartLists

\* complete_upload counts the parts; as they are numbered up to total_chunks,
\* the right number of them is all of them.
LEMMA CountedIsNumbered ==
    ASSUME NEW m \in Nat, NEW P \in SUBSET (1 .. m), Cardinality(P) = m
    PROVE  P = 1 .. m
  <1>1. IsFiniteSet(1 .. m) /\ Cardinality(1 .. m) = m
    BY FS_Interval
  <1> QED
    BY <1>1, FS_Subset

\* Between requests a handler has no session.
LEMMA NoReqType == NoReq \in Requests /\ NoReq.session = NoSession
  BY EmptyPartList, ChunksAssumption DEF NoReq, Requests

\* A request with its arguments filled in is a request, and has them.
LEMMA CreateRequest ==
    ASSUME NEW s \in Sessions, NEW n \in 0 .. MaxChunks, NEW r,
           r = [NoReq EXCEPT !.session = s, !.chunks = n]
    PROVE  r \in Requests /\ r.session = s /\ r.chunks = n
  BY NoReqType DEF Requests

\* The same for the arguments of complete_upload ...
LEMMA CompleteRequest ==
    ASSUME NEW s \in Sessions, NEW p \in PartLists, NEW r,
           r = [NoReq EXCEPT !.session = s, !.parts = p]
    PROVE  r \in Requests /\ r.session = s /\ r.parts = p
  BY NoReqType DEF Requests

\* ... of abort_upload ...
LEMMA AbortRequest ==
    ASSUME NEW s \in Sessions, NEW r, r = [NoReq EXCEPT !.session = s]
    PROVE  r \in Requests /\ r.session = s
  BY NoReqType DEF Requests

\* ... and of upload_chunk.
LEMMA ChunkRequest ==
    ASSUME NEW s \in Sessions, NEW n \in PartNumbers, NEW d \in Data, NEW p \in PartLists
    PROVE  [NoReq EXCEPT !.session = s, !.part = n, !.data = d, !.parts = p] \in Requests
  <1> DEFINE a == [NoReq EXCEPT !.session = s]
             b == [a EXCEPT !.part = n]
             c == [b EXCEPT !.data = d]
  <1>1. a \in Requests
    BY NoReqType DEF Requests
  <1>2. b \in Requests
    <2>1. n \in 0 .. MaxChunks
      BY DEF PartNumbers
    <2> HIDE DEF a
    <2> QED
      BY <1>1, <2>1 DEF Requests
  <1>3. c \in Requests
    <2> HIDE DEF b
    <2> QED
      BY <1>2 DEF Requests
  <1>4. [c EXCEPT !.parts = p] \in Requests
    <2> HIDE DEF c
    <2> QED
      BY <1>3 DEF Requests
  <1> QED
    BY <1>4

\* A request between two steps is one of some session.
LEMMA BusyHasSession ==
    ASSUME SessionTypeOK, NEW t \in Handlers, step[t] # "idle"
    PROVE  req[t].session \in Sessions /\ req[t] \in Requests
  BY NoSessionAssumption DEF SessionTypeOK, Requests

\* A step of request t of session s: other sessions and their requests do not
\* notice it, so that only s, t and the other requests of s are left to look at.
StepOf(t, s) ==
    /\ req[t].session \in {s, NoSession} /\ req'[t].session \in {s, NoSession}
    /\ \A u \in Handlers \ {t} : req'[u] = req[u] /\ step'[u] = step[u]
    /\ \A z \in Sessions \ {s} :
         /\ sessions'[z] = sessions[z] /\ uploads'[z] = uploads[z] /\ assembled'[z] = assembled[z]
         /\ made'[z] = made[z] /\ acked'[z] = acked[z] /\ (z \in broken' <=> z \in broken)

\* It is enough that a step of t on s keeps the row and the requests of s in order.
LEMMA LocalStep ==
    ASSUME SessionIInv, NEW t \in Handlers, NEW s \in Sessions, StepOf(t, s),
           SessionTypeOK', RowFollowsUpload(s)', RequestFits(t)',
           \A u \in Handlers \ {t} : req[u].session = s => RequestFits(u)',
           step'[t] \in PointOfNoReturn =>
             \A u \in Handlers \ {t} : req[u].session = s => step[u] \notin PointOfNoReturn
    PROVE  SessionIInv'
  <1>1. ASSUME NEW z \in Sessions \ {s} PROVE RowFollowsUpload(z)'
    <2>1. Unfinished(z)' <=> Unfinished(z)
      BY NoSessionAssumption DEF Unfinished, StepOf
    <2>2. RowFollowsUpload(z)
      BY DEF SessionIInv
    <2> QED
      BY <2>1, <2>2 DEF RowFollowsUpload, Pending, Numbered, StepOf
  <1>2. ASSUME NEW u \in Handlers \ {t}, req[u].session # s PROVE RequestFits(u)'
    <2>1. CASE step[u] = "idle"
      BY <2>1 DEF RequestFits, StepOf
    <2>2. CASE step[u] # "idle"
      <3>1. RequestFits(u) /\ req[u].session \in Sessions \ {s}
        BY <1>2, <2>2, BusyHasSession DEF SessionIInv
      <3> QED
        BY <3>1 DEF RequestFits, Pending, Open, Numbered, StepOf
    <2> QED
      BY <2>1, <2>2
  <1>3. OneCommitted'
    <2> SUFFICES ASSUME NEW u \in Handlers, NEW v \in Handlers, u # v,
                        step'[u] \in PointOfNoReturn, step'[v] \in PointOfNoReturn,
                        req'[u].session = req'[v].session
                 PROVE  FALSE
      BY DEF OneCommitted
    <2>1. \A w \in Handlers : step'[w] \in PointOfNoReturn => req'[w].session # NoSession
      BY DEF SessionTypeOK, PointOfNoReturn
    <2>2. CASE u # t /\ v # t
      BY <2>2 DEF SessionIInv, OneCommitted, StepOf
    <2>3. CASE u = t
      BY <2>1, <2>3 DEF StepOf
    <2>4. CASE v = t
      BY <2>1, <2>4 DEF StepOf
    <2> QED
      BY <2>2, <2>3, <2>4
  <1> QED
    BY <1>1, <1>2, <1>3 DEF SessionIInv

\* What TypeOK says of the requests, for the three ways a step changes them: one
\* begins, goes on, or ends.
RequestsTyped ==
    /\ step \in [Handlers -> Steps]
    /\ req \in [Handlers -> Requests]
    /\ \A t \in Handlers :
         /\ req[t].session = NoSession <=> step[t] = "idle"
         /\ step[t] \in {"upload_part", "record_part"} => req[t].part \in PartNumbers /\ req[t].data \in Data

\* A request begins.
LEMMA BeginTyped ==
    ASSUME SessionTypeOK, NEW t \in Handlers, NEW next \in Steps \ {"idle"}, NEW r \in Requests, Begin(t, next, r),
           r.session \in Sessions, next \in {"upload_part", "record_part"} => r.part \in PartNumbers /\ r.data \in Data
    PROVE  /\ RequestsTyped'
           /\ step[t] = "idle" /\ req[t].session = NoSession
           /\ step'[t] = next /\ req'[t] = r
           /\ \A u \in Handlers \ {t} : req'[u] = req[u] /\ step'[u] = step[u]
  BY NoSessionAssumption DEF SessionTypeOK, RequestsTyped, Begin

\* A request goes on to its next step.
LEMMA GotoTyped ==
    ASSUME SessionTypeOK, NEW t \in Handlers, NEW next \in Steps \ {"idle"}, Goto(t, next), step[t] # "idle",
           next = "record_part" => step[t] = "upload_part", next # "upload_part"
    PROVE  /\ RequestsTyped'
           /\ step'[t] = next /\ req' = req
           /\ \A u \in Handlers \ {t} : req'[u] = req[u] /\ step'[u] = step[u]
  BY DEF SessionTypeOK, RequestsTyped, Goto

\* A request ends.
LEMMA EndTyped ==
    ASSUME SessionTypeOK, NEW t \in Handlers, End(t)
    PROVE  /\ RequestsTyped'
           /\ step'[t] = "idle" /\ req'[t].session = NoSession
           /\ \A u \in Handlers \ {t} : req'[u] = req[u] /\ step'[u] = step[u]
  <1>1. step' \in [Handlers -> Steps] /\ req' \in [Handlers -> Requests]
    BY NoReqType DEF SessionTypeOK, End, Steps
  <1> QED
    BY <1>1, NoReqType DEF SessionTypeOK, RequestsTyped, End

\* A request that ends in a step before its point of no return, whether refused
\* or failed, leaves everything in order.
LEMMA EndEarlyIInv ==
    ASSUME SessionIInv, NEW t \in Handlers, End(t), step[t] \notin PointOfNoReturn, step[t] # "idle",
           UNCHANGED <<sessions, uploads, assembled, made, acked, broken>>, ended' \in 0 .. MaxEnded
    PROVE  SessionIInv'
  <1>1. PICK s \in Sessions : s = req[t].session
    BY BusyHasSession DEF SessionIInv
  <1>2. /\ RequestsTyped' /\ step'[t] = "idle" /\ req'[t].session = NoSession
        /\ \A u \in Handlers \ {t} : req'[u] = req[u] /\ step'[u] = step[u]
    BY EndTyped DEF SessionIInv
  <1>3. SessionTypeOK'
    BY <1>2 DEF SessionIInv, SessionTypeOK, RequestsTyped
  <1>4. StepOf(t, s)
    BY <1>1, <1>2 DEF StepOf
  <1>5. RowFollowsUpload(s)'
    <2>1. Unfinished(s) => Unfinished(s)'
      BY <1>2 DEF Unfinished
    <2>2. RowFollowsUpload(s)
      BY <1>1 DEF SessionIInv
    <2> QED
      BY <2>1, <2>2 DEF RowFollowsUpload, Pending, Numbered
  <1>6. RequestFits(t)'
    BY <1>2 DEF RequestFits
  <1>7. ASSUME NEW u \in Handlers \ {t} PROVE RequestFits(u)'
    <2>1. RequestFits(u)
      BY DEF SessionIInv
    <2> QED
      BY <1>2, <2>1 DEF RequestFits, Pending, Open, Numbered
  <1>8. step'[t] \notin PointOfNoReturn
    BY <1>2 DEF PointOfNoReturn
  <1> QED
    BY <1>1, <1>3, <1>4, <1>5, <1>6, <1>7, <1>8, LocalStep

\* A request that begins and has touched nothing yet only has to be one that fits.
LEMMA BeginIInv ==
    ASSUME SessionIInv, NEW t \in Handlers, NEW s \in Sessions, NEW next \in Steps \ {"idle"}, NEW r \in Requests,
           Begin(t, next, r), r.session = s, next \notin PointOfNoReturn,
           next \in {"upload_part", "record_part"} => r.part \in PartNumbers /\ r.data \in Data,
           UNCHANGED <<sessions, uploads, assembled, made, acked, broken, ended>>,
           RequestFits(t)'
    PROVE  SessionIInv'
  <1>1. /\ RequestsTyped' /\ step[t] = "idle" /\ req[t].session = NoSession /\ step'[t] = next /\ req'[t] = r
        /\ \A u \in Handlers \ {t} : req'[u] = req[u] /\ step'[u] = step[u]
    BY BeginTyped DEF SessionIInv
  <1>2. SessionTypeOK'
    BY <1>1 DEF SessionIInv, SessionTypeOK, RequestsTyped
  <1>3. StepOf(t, s)
    BY <1>1 DEF StepOf
  <1>4. RowFollowsUpload(s)'
    <2>1. Unfinished(s) => Unfinished(s)'
      BY <1>1, NoSessionAssumption DEF Unfinished
    <2>2. RowFollowsUpload(s)
      BY DEF SessionIInv
    <2> QED
      BY <2>1, <2>2 DEF RowFollowsUpload, Pending, Numbered
  <1>5. ASSUME NEW u \in Handlers \ {t} PROVE RequestFits(u)'
    <2>1. RequestFits(u)
      BY DEF SessionIInv
    <2> QED
      BY <1>1, <2>1 DEF RequestFits, Pending, Open, Numbered
  <1> QED
    BY <1>1, <1>2, <1>3, <1>4, <1>5, LocalStep

-----------------------------------------------------------------------------
\* No session, no request.
LEMMA InitSessionIInv == SessionInit => SessionIInv
  BY NoSessionAssumption, ChunksAssumption, EndedAssumption, EmptyPartList, NoReqType
     DEF SessionInit, SessionIInv, SessionTypeOK, Uploads, Steps, OneCommitted, RowFollowsUpload, RequestFits, PointOfNoReturn

\* init_upload asks S3 first: a fresh upload, no row and one request that knows of it.
LEMMA CreateUploadIInv ==
    ASSUME SessionIInv, NEW t \in Handlers, NEW s \in Sessions, NEW n \in 0 .. MaxChunks, CreateUpload(t, s, n)
    PROVE  SessionIInv'
  <1> DEFINE r == [NoReq EXCEPT !.session = s, !.chunks = n]
  <1>1. /\ Begin(t, "insert_session", r)
        /\ uploads[s].state = "none" /\ uploads' = [uploads EXCEPT ![s].state = "open"]
        /\ UNCHANGED <<sessions, assembled, made, acked, broken, ended>>
    BY DEF CreateUpload
  <1>2. r \in Requests /\ r.session = s
    BY CreateRequest
  <1> HIDE DEF r
  <1>3. /\ RequestsTyped' /\ step[t] = "idle" /\ req[t].session = NoSession
        /\ step'[t] = "insert_session" /\ req'[t] = r
        /\ \A u \in Handlers \ {t} : req'[u] = req[u] /\ step'[u] = step[u]
    BY <1>1, <1>2, BeginTyped DEF SessionIInv, Steps
  <1>4. uploads' \in [Sessions -> Uploads] /\ uploads'[s].state = "open"
    BY <1>1 DEF SessionIInv, SessionTypeOK, Uploads
  <1>5. SessionTypeOK'
    BY <1>1, <1>3, <1>4 DEF SessionIInv, SessionTypeOK, RequestsTyped
  <1>6. StepOf(t, s)
    BY <1>1, <1>2, <1>3 DEF StepOf, SessionIInv, SessionTypeOK
  <1>7. sessions[s] = NoSession /\ acked[s] = {} /\ assembled[s] = NoObject /\ made[s] = <<>>
    BY <1>1 DEF SessionIInv, RowFollowsUpload
  <1>8. ASSUME NEW u \in Handlers \ {t} PROVE req[u].session # s
    BY <1>1, NoSessionAssumption DEF SessionIInv, SessionTypeOK, Steps, RequestFits, Open
  <1>9. RowFollowsUpload(s)'
    BY <1>1, <1>2, <1>3, <1>4, <1>7 DEF RowFollowsUpload, Unfinished, PointOfNoReturn
  <1>10. RequestFits(t)'
    BY <1>1, <1>2, <1>3, <1>4, <1>7 DEF RequestFits, Open
  <1> QED
    BY <1>5, <1>6, <1>8, <1>9, <1>10, LocalStep

\* The row appears when nobody but its creator can know the session.
LEMMA InsertSessionIInv ==
    ASSUME SessionIInv, NEW t \in Handlers, InsertSession(t)
    PROVE  SessionIInv'
  <1> DEFINE row == [status |-> "pending", total_chunks |-> req[t].chunks, parts |-> <<>>]
  <1>0. PICK s \in Sessions : s = req[t].session
    BY BusyHasSession DEF SessionIInv, InsertSession
  <1>1. step[t] = "insert_session" /\ sessions' = [sessions EXCEPT ![s] = row] /\ End(t)
        /\ UNCHANGED <<uploads, assembled, made, acked, broken, ended>>
    BY <1>0 DEF InsertSession
  <1>2. s \in Sessions /\ req[t] \in Requests
    BY DEF SessionIInv, SessionTypeOK
  <1>3. row \in SessionRows /\ row.status = "pending" /\ DOMAIN row.parts = {}
    BY <1>2, EmptyPartList DEF SessionRows, Requests
  <1>4. /\ RequestsTyped' /\ step'[t] = "idle" /\ req'[t].session = NoSession
        /\ \A u \in Handlers \ {t} : req'[u] = req[u] /\ step'[u] = step[u]
    BY <1>1, EndTyped DEF SessionIInv
  <1> HIDE DEF row
  <1>5. sessions' \in [Sessions -> SessionRows \cup {NoSession}] /\ sessions'[s] = row
    BY <1>1, <1>2, <1>3 DEF SessionIInv, SessionTypeOK
  <1>6. SessionTypeOK'
    BY <1>1, <1>4, <1>5 DEF SessionIInv, SessionTypeOK, RequestsTyped
  <1>7. StepOf(t, s)
    BY <1>0, <1>1, <1>4 DEF StepOf, SessionIInv, SessionTypeOK
  <1>8. uploads[s].state = "open" /\ sessions[s] = NoSession /\ RowFollowsUpload(s)
    BY <1>0, <1>1 DEF SessionIInv, RequestFits, Open
  <1>9. RowFollowsUpload(s)'
    <2>1. row # NoSession
      BY <1>3, NoSessionAssumption
    <2> QED
      BY <1>1, <1>3, <1>5, <1>8, <2>1 DEF RowFollowsUpload, Pending
  <1>10. RequestFits(t)'
    BY <1>4 DEF RequestFits
  <1>11. ASSUME NEW u \in Handlers \ {t}, req[u].session = s PROVE RequestFits(u)'
    <2>1. step[u] = "idle" \/ step[u] \in PointOfNoReturn
      BY <1>8, <1>11 DEF SessionIInv, SessionTypeOK, Steps, PointOfNoReturn, RequestFits, Open
    <2>2. step[u] \notin PointOfNoReturn
      BY <1>0, <1>1, <1>11 DEF SessionIInv, OneCommitted, PointOfNoReturn
    <2> QED
      BY <1>4, <2>1, <2>2 DEF RequestFits
  <1> QED
    BY <1>2, <1>4, <1>6, <1>7, <1>9, <1>10, <1>11, LocalStep DEF PointOfNoReturn

\* The part number is checked against total_chunks, which never changes.
LEMMA BeginChunkIInv ==
    ASSUME SessionIInv, NEW t \in Handlers, NEW s \in Sessions, NEW n \in PartNumbers, NEW d \in Data,
           BeginChunk(t, s, n, d)
    PROVE  SessionIInv'
  <1> DEFINE r == [NoReq EXCEPT !.session = s, !.part = n, !.data = d, !.parts = sessions[s].parts]
  <1>1. /\ Pending(s) /\ n <= sessions[s].total_chunks /\ Begin(t, "upload_part", r)
        /\ UNCHANGED <<sessions, uploads, assembled, made, acked, broken, ended>>
    BY DEF BeginChunk
  <1>2. sessions[s] # NoSession /\ sessions[s] \in SessionRows
    BY <1>1 DEF SessionIInv, SessionTypeOK, Pending
  <1>3. r \in Requests /\ r.session = s /\ r.part = n /\ r.data = d
    <2>1. PICK p \in PartLists : p = sessions[s].parts
      BY <1>2 DEF SessionRows
    <2> DEFINE q == [NoReq EXCEPT !.session = s, !.part = n, !.data = d, !.parts = p]
    <2>2. q \in Requests
      BY ChunkRequest, Zenon
    <2>3. q.session = s /\ q.part = n /\ q.data = d
      BY DEF NoReq
    <2> QED
      BY <2>1, <2>2, <2>3
  <1> HIDE DEF r
  <1>4. step'[t] = "upload_part" /\ req'[t] = r
    BY <1>1 DEF SessionIInv, SessionTypeOK, Begin
  <1>5. uploads[s].state # "none"
    BY <1>2 DEF SessionIInv, RowFollowsUpload
  <1>6. RequestFits(t)'
    BY <1>1, <1>2, <1>3, <1>4, <1>5 DEF RequestFits
  <1> QED
    BY <1>1, <1>3, <1>6, BeginIInv DEF Steps, PointOfNoReturn

\* S3 takes a part of an open upload only.
LEMMA UploadPartIInv ==
    ASSUME SessionIInv, NEW t \in Handlers, UploadPart(t)
    PROVE  SessionIInv'
  <1>0. PICK s \in Sessions : s = req[t].session
    BY BusyHasSession DEF SessionIInv, UploadPart
  <1> DEFINE p == WithPart(uploads[s].parts, req[t].part, req[t].data)
  <1>1. CASE ~Open(s)
    <2>1. step[t] = "upload_part" /\ End(t) /\ UNCHANGED <<sessions, uploads, assembled, made, acked, broken, ended>>
      BY <1>0, <1>1 DEF UploadPart, Refuse
    <2> QED
      BY <2>1, EndEarlyIInv DEF PointOfNoReturn, SessionIInv, SessionTypeOK
  <1>2. CASE Open(s)
    <2>1. /\ step[t] = "upload_part" /\ Goto(t, "record_part")
          /\ uploads' = [uploads EXCEPT ![s].parts = p]
          /\ UNCHANGED <<sessions, assembled, made, acked, broken, ended>>
      BY <1>0, <1>2 DEF UploadPart, Refuse
    <2>2. s \in Sessions /\ req[t].part \in PartNumbers /\ req[t].data \in Data
      BY <2>1 DEF SessionIInv, SessionTypeOK
    <2>3. p \in PartLists
      BY <2>2, WithPartFacts DEF SessionIInv, SessionTypeOK, Uploads
    <2>4. /\ RequestsTyped' /\ step'[t] = "record_part" /\ req' = req
          /\ \A u \in Handlers \ {t} : req'[u] = req[u] /\ step'[u] = step[u]
      BY <2>1, GotoTyped DEF SessionIInv, Steps
    <2> HIDE DEF p
    <2>5. uploads' \in [Sessions -> Uploads] /\ uploads'[s].state = uploads[s].state
      BY <2>1, <2>2, <2>3 DEF SessionIInv, SessionTypeOK, Uploads
    <2>6. SessionTypeOK'
      BY <2>1, <2>4, <2>5 DEF SessionIInv, SessionTypeOK, RequestsTyped
    <2>7. StepOf(t, s)
      BY <1>0, <2>1, <2>4 DEF StepOf, SessionIInv, SessionTypeOK
    <2>8. RowFollowsUpload(s)'
      <3>1. Unfinished(s) => Unfinished(s)'
        BY <2>1, <2>4 DEF Unfinished, PointOfNoReturn
      <3>2. RowFollowsUpload(s)
        BY <2>2 DEF SessionIInv
      <3> QED
        BY <2>1, <2>5, <3>1, <3>2 DEF RowFollowsUpload, Pending, Numbered
    <2>9. ASSUME NEW u \in Handlers, req[u].session = s PROVE RequestFits(u)'
      <3>1. RequestFits(u)
        BY DEF SessionIInv
      <3> QED
        BY <2>1, <2>4, <2>5, <2>9, <3>1 DEF RequestFits, Pending, Open, Numbered
    <2> QED
      BY <1>0, <2>4, <2>6, <2>7, <2>8, <2>9, LocalStep DEF PointOfNoReturn
  <1> QED
    BY <1>1, <1>2

\* The list is read again under the row lock, so it only grows.
LEMMA RecordPartIInv ==
    ASSUME SessionIInv, NEW t \in Handlers, RecordPart(t)
    PROVE  SessionIInv'
  <1>0. PICK s \in Sessions : s = req[t].session
    BY BusyHasSession DEF SessionIInv, RecordPart
  <1> DEFINE n == req[t].part
             p == WithPart(sessions[s].parts, n, req[t].data)
  <1>1. CASE sessions[s] = NoSession
    <2>1. step[t] = "record_part" /\ End(t) /\ UNCHANGED <<sessions, uploads, assembled, made, acked, broken, ended>>
      BY <1>0, <1>1 DEF RecordPart, Refuse
    <2> QED
      BY <2>1, EndEarlyIInv DEF PointOfNoReturn, SessionIInv, SessionTypeOK
  <1>2. CASE sessions[s] # NoSession
    <2>1. /\ step[t] = "record_part" /\ End(t)
          /\ sessions' = [sessions EXCEPT ![s].parts = p]
          /\ acked' = [acked EXCEPT ![s] = @ \cup {n}]
          /\ UNCHANGED <<uploads, assembled, made, broken, ended>>
      BY <1>0, <1>2 DEF RecordPart, Refuse
    <2>2. /\ n \in PartNumbers /\ req[t].data \in Data /\ sessions[s] \in SessionRows
          /\ n <= sessions[s].total_chunks
      BY <1>0, <1>2, <2>1 DEF SessionIInv, SessionTypeOK, RequestFits
    <2>3. p \in PartLists /\ DOMAIN p = DOMAIN sessions[s].parts \cup {n}
      <3>1. sessions[s].parts \in PartLists
        BY <2>2 DEF SessionRows
      <3> QED
        BY <2>2, <3>1, WithPartFacts
    <2>4. /\ RequestsTyped' /\ step'[t] = "idle" /\ req'[t].session = NoSession
          /\ \A u \in Handlers \ {t} : req'[u] = req[u] /\ step'[u] = step[u]
      BY <2>1, EndTyped DEF SessionIInv
    <2> HIDE DEF p, n
    <2>5. /\ sessions' \in [Sessions -> SessionRows \cup {NoSession}]
          /\ sessions'[s] # NoSession /\ sessions'[s].parts = p
          /\ sessions'[s].status = sessions[s].status
          /\ sessions'[s].total_chunks = sessions[s].total_chunks
      <3>1. sessions'[s] = [sessions[s] EXCEPT !.parts = p]
        BY <2>1 DEF SessionIInv, SessionTypeOK
      <3>2. sessions'[s] \in SessionRows
        BY <2>2, <2>3, <3>1 DEF SessionRows
      <3> QED
        BY <2>1, <2>2, <3>1, <3>2, NoSessionAssumption DEF SessionIInv, SessionTypeOK, SessionRows
    <2>6. acked' \in [Sessions -> SUBSET PartNumbers] /\ acked'[s] = acked[s] \cup {n}
      BY <2>1, <2>2 DEF SessionIInv, SessionTypeOK
    <2>7. SessionTypeOK'
      BY <2>1, <2>4, <2>5, <2>6 DEF SessionIInv, SessionTypeOK, RequestsTyped
    <2>8. StepOf(t, s)
      BY <1>0, <2>1, <2>4 DEF StepOf, SessionIInv, SessionTypeOK
    <2>9. RowFollowsUpload(s)'
      <3>1. Unfinished(s) => Unfinished(s)'
        BY <2>1, <2>4 DEF Unfinished, PointOfNoReturn
      <3>2. RowFollowsUpload(s)
        BY DEF SessionIInv
      <3>3. n \in 1 .. sessions[s].total_chunks
        BY <2>2 DEF PartNumbers, SessionRows
      <3>4. /\ DOMAIN sessions'[s].parts \subseteq 1 .. sessions'[s].total_chunks
            /\ acked'[s] \subseteq DOMAIN sessions'[s].parts
        BY <1>2, <2>3, <2>5, <2>6, <3>2, <3>3 DEF RowFollowsUpload
      <3>5. Pending(s)' <=> Pending(s)
        BY <1>2, <2>5 DEF Pending
      <3> QED
        BY <1>2, <2>1, <2>5, <3>1, <3>2, <3>4, <3>5 DEF RowFollowsUpload, Numbered
    <2>10. RequestFits(t)'
      BY <2>4 DEF RequestFits
    <2>11. ASSUME NEW u \in Handlers \ {t}, req[u].session = s PROVE RequestFits(u)'
      <3>1. RequestFits(u)
        BY DEF SessionIInv
      <3> QED
        BY <1>2, <2>1, <2>4, <2>5, <2>11, <3>1 DEF RequestFits, Pending, Open, Numbered
    <2> QED
      BY <2>4, <2>7, <2>8, <2>9, <2>10, <2>11, LocalStep DEF PointOfNoReturn
  <1> QED
    BY <1>1, <1>2

\* complete_upload goes on with all the parts.
LEMMA BeginCompleteIInv ==
    ASSUME SessionIInv, NEW t \in Handlers, NEW s \in Sessions, BeginComplete(t, s)
    PROVE  SessionIInv'
  <1> DEFINE p == sessions[s].parts
             r == [NoReq EXCEPT !.session = s, !.parts = p]
  <1>1. /\ Pending(s) /\ Cardinality(DOMAIN p) = sessions[s].total_chunks /\ Begin(t, "complete_s3", r)
        /\ UNCHANGED <<sessions, uploads, assembled, made, acked, broken, ended>>
    BY DEF BeginComplete
  <1>2. sessions[s] # NoSession /\ sessions[s] \in SessionRows
    BY <1>1 DEF SessionIInv, SessionTypeOK, Pending
  <1>3. p \in PartLists /\ sessions[s].total_chunks \in Nat
    BY <1>2, ChunksAssumption DEF SessionRows
  <1>4. DOMAIN p \subseteq 1 .. sessions[s].total_chunks /\ uploads[s].state # "none"
    BY <1>2 DEF SessionIInv, RowFollowsUpload
  <1>5. DOMAIN p = 1 .. sessions[s].total_chunks
    BY <1>1, <1>3, <1>4, CountedIsNumbered
  <1>6. r \in Requests /\ r.session = s /\ r.parts = p
    <2>1. PICK q \in PartLists : q = p
      BY <1>3
    <2> DEFINE a == [NoReq EXCEPT !.session = s, !.parts = q]
    <2>2. a \in Requests
      BY CompleteRequest
    <2>3. a.session = s /\ a.parts = q
      BY DEF NoReq
    <2> QED
      BY <2>1, <2>2, <2>3
  <1> HIDE DEF r
  <1>7. step'[t] = "complete_s3" /\ req'[t] = r
    BY <1>1 DEF SessionIInv, SessionTypeOK, Begin
  <1>8. RequestFits(t)'
    BY <1>1, <1>2, <1>4, <1>5, <1>6, <1>7 DEF RequestFits, Numbered
  <1> QED
    BY <1>1, <1>6, <1>8, BeginIInv DEF Steps, PointOfNoReturn

\* abort_upload changes nothing before it calls S3.
LEMMA BeginAbortIInv ==
    ASSUME SessionIInv, NEW t \in Handlers, NEW s \in Sessions, BeginAbort(t, s)
    PROVE  SessionIInv'
  <1> DEFINE r == [NoReq EXCEPT !.session = s]
  <1>1. /\ Pending(s) /\ Begin(t, "abort_s3", r)
        /\ UNCHANGED <<sessions, uploads, assembled, made, acked, broken, ended>>
    BY DEF BeginAbort
  <1>2. r \in Requests /\ r.session = s
    BY AbortRequest
  <1> HIDE DEF r
  <1>3. step'[t] = "abort_s3" /\ req'[t] = r
    BY <1>1 DEF SessionIInv, SessionTypeOK, Begin
  <1>4. uploads[s].state # "none" /\ sessions[s] # NoSession
    BY <1>1 DEF SessionIInv, RowFollowsUpload, Pending
  <1>5. RequestFits(t)'
    BY <1>1, <1>2, <1>3, <1>4 DEF RequestFits
  <1> QED
    BY <1>1, <1>2, <1>5, BeginIInv DEF Steps, PointOfNoReturn

\* Once a session's upload is completed or aborted, the one committed request is
\* the only one whose steps can still matter.
LEMMA CommittedIsAlone ==
    ASSUME SessionIInv, NEW t \in Handlers, NEW u \in Handlers \ {t}, step[t] \in PointOfNoReturn,
           req[u].session = req[t].session
    PROVE  step[u] \notin PointOfNoReturn
  BY DEF SessionIInv, OneCommitted

\* Of the requests that want to complete or abort, S3 serves one: it is committed.
LEMMA CompleteS3IInv ==
    ASSUME SessionIInv, NEW t \in Handlers, CompleteS3(t)
    PROVE  SessionIInv'
  <1>1. PICK s \in Sessions : s = req[t].session
    BY BusyHasSession DEF SessionIInv, CompleteS3
  <1>2. CASE End(t)
    <2>1. step[t] = "complete_s3" /\ UNCHANGED <<sessions, uploads, assembled, made, acked, broken, ended>>
      BY <1>2, BusyHasSession DEF CompleteS3, Refuse, End, Goto, SessionIInv, SessionTypeOK
    <2> QED
      BY <1>2, <2>1, EndEarlyIInv DEF PointOfNoReturn, SessionIInv, SessionTypeOK
  <1>3. CASE ~End(t)
    <2>1. /\ step[t] = "complete_s3" /\ uploads[s].state = "open" /\ Goto(t, "find_content")
          /\ uploads' = [uploads EXCEPT ![s].state = "completed"]
          /\ assembled' = [assembled EXCEPT ![s] = req[t].parts]
          /\ UNCHANGED <<sessions, made, acked, broken, ended>>
      BY <1>1, <1>3 DEF CompleteS3, Refuse, Open
    <2>2. req[t].parts \in PartLists
      BY DEF SessionIInv, SessionTypeOK, Requests
    <2>3. /\ RequestsTyped' /\ step'[t] = "find_content" /\ req' = req
          /\ \A u \in Handlers \ {t} : req'[u] = req[u] /\ step'[u] = step[u]
      BY <2>1, GotoTyped DEF SessionIInv, Steps
    <2>4. /\ uploads' \in [Sessions -> Uploads] /\ uploads'[s].state = "completed"
          /\ assembled' \in [Sessions -> PartLists \cup {NoObject}] /\ assembled'[s] # NoObject
      BY <2>1, <2>2, NoSessionAssumption DEF SessionIInv, SessionTypeOK, Uploads
    <2>5. SessionTypeOK'
      BY <2>1, <2>3, <2>4 DEF SessionIInv, SessionTypeOK, RequestsTyped
    <2>6. StepOf(t, s)
      BY <1>1, <2>1, <2>3 DEF StepOf, SessionIInv, SessionTypeOK
    <2>7. RowFollowsUpload(s) /\ RequestFits(t) /\ sessions[s] # NoSession /\ Pending(s) /\ made[s] = <<>>
      BY <1>1, <2>1 DEF SessionIInv, RowFollowsUpload, RequestFits, Open
    <2>8. RowFollowsUpload(s)'
      <3>1. Unfinished(s)'
        BY <1>1, <2>3 DEF Unfinished, PointOfNoReturn
      <3> QED
        BY <2>1, <2>4, <2>7, <3>1 DEF RowFollowsUpload, Pending
    <2>9. RequestFits(t)'
      BY <1>1, <2>1, <2>3, <2>4, <2>7 DEF RequestFits, Pending, Numbered
    <2>10. ASSUME NEW u \in Handlers \ {t}, req[u].session = s
           PROVE  RequestFits(u)' /\ step[u] \notin PointOfNoReturn
      <3>1. RequestFits(u)
        BY DEF SessionIInv
      <3>2. step[u] \notin PointOfNoReturn
        BY <2>1, <2>7, <2>10, <3>1 DEF RequestFits, PointOfNoReturn, Open
      <3> QED
        BY <2>1, <2>3, <2>4, <2>7, <2>10, <3>1, <3>2 DEF RequestFits, Pending, Open, Numbered, PointOfNoReturn
    <2> QED
      BY <1>1, <2>5, <2>6, <2>8, <2>9, <2>10, LocalStep
  <1> QED
    BY <1>2, <1>3

\* process_upload goes from step to step: the upload is completed, the row pending.
LEMMA MergedFacts ==
    ASSUME SessionIInv, NEW t \in Handlers, NEW s \in Sessions, s = req[t].session,
           step[t] \in {"find_content", "move_object", "attach_file", "mark_completed"}
    PROVE  /\ RowFollowsUpload(s) /\ uploads[s].state = "completed" /\ Pending(s)
           /\ sessions[s] # NoSession /\ sessions[s] \in SessionRows
           /\ req[t].parts \in PartLists /\ Numbered(req[t].parts, sessions[s].total_chunks)
           /\ step[t] \in {"find_content", "move_object"} => assembled[s] # NoObject
           /\ step[t] \in {"find_content", "move_object", "attach_file"} => made[s] = <<>>
           /\ step[t] \in {"attach_file", "mark_completed"} => assembled[s] = NoObject
           /\ step[t] = "mark_completed" => Len(made[s]) = 1
           /\ \A u \in Handlers \ {t} : req[u].session = s => step[u] \notin PointOfNoReturn
  BY CommittedIsAlone DEF SessionIInv, SessionTypeOK, Requests, RequestFits, Pending, PointOfNoReturn

\* A step of process_upload to its next one, which keeps the row.
LEMMA ProcessingIInv ==
    ASSUME SessionIInv, NEW t \in Handlers, NEW next \in {"move_object", "attach_file", "mark_completed"}, Goto(t, next),
           step[t] \in {"find_content", "move_object", "attach_file"},
           NEW s \in Sessions, s = req[t].session,
           assembled' = [assembled EXCEPT ![s] = IF next = "move_object" THEN @ ELSE NoObject],
           made' = IF next = "mark_completed" THEN [made EXCEPT ![s] = Append(@, req[t].parts)] ELSE made,
           next = "move_object" <=> assembled'[s] # NoObject,
           UNCHANGED <<sessions, uploads, acked, broken, ended>>
    PROVE  SessionIInv'
  <1>1. /\ RowFollowsUpload(s) /\ uploads[s].state = "completed" /\ Pending(s) /\ made[s] = <<>>
        /\ req[t].parts \in PartLists /\ Numbered(req[t].parts, sessions[s].total_chunks)
        /\ sessions[s] # NoSession
    BY MergedFacts
  <1>2. /\ RequestsTyped' /\ step'[t] = next /\ req' = req
        /\ \A u \in Handlers \ {t} : req'[u] = req[u] /\ step'[u] = step[u]
    BY GotoTyped DEF SessionIInv, Steps
  <1>3. assembled' \in [Sessions -> PartLists \cup {NoObject}]
    BY DEF SessionIInv, SessionTypeOK
  <1>4. /\ made' \in [Sessions -> Seq(PartLists)]
        /\ made'[s] = IF next = "mark_completed" THEN <<req[t].parts>> ELSE <<>>
    <2>1. Append(made[s], req[t].parts) = <<req[t].parts>> /\ <<req[t].parts>> \in Seq(PartLists)
      BY <1>1
    <2> QED
      BY <1>1, <2>1 DEF SessionIInv, SessionTypeOK
  <1>5. SessionTypeOK'
    BY <1>2, <1>3, <1>4 DEF SessionIInv, SessionTypeOK, RequestsTyped
  <1>6. StepOf(t, s)
    BY <1>2 DEF StepOf, SessionIInv, SessionTypeOK
  <1>7. RowFollowsUpload(s)'
    <2>1. Unfinished(s)'
      BY <1>2 DEF Unfinished, PointOfNoReturn
    <2>2. made'[s] = <<>> \/ (Len(made'[s]) = 1 /\ Numbered(made'[s][1], sessions[s].total_chunks))
      BY <1>1, <1>4
    <2> QED
      BY <1>1, <2>1, <2>2 DEF RowFollowsUpload, Pending, Numbered
  <1>8. RequestFits(t)'
    <2>1. next = "mark_completed" => Len(made'[s]) = 1
      <3>1. Len(<<req[t].parts>>) = 1
        OBVIOUS
      <3> QED
        BY <1>4, <3>1
    <2> QED
      BY <1>1, <1>2, <1>4, <2>1 DEF RequestFits, Pending, Numbered
  <1>9. ASSUME NEW u \in Handlers \ {t}, req[u].session = s
        PROVE  RequestFits(u)' /\ step[u] \notin PointOfNoReturn
    <2>1. RequestFits(u)
      BY DEF SessionIInv
    <2>2. step[u] \notin PointOfNoReturn
      BY <1>9, MergedFacts
    <2> QED
      BY <1>1, <1>2, <1>9, <2>1, <2>2 DEF RequestFits, Pending, Open, Numbered, PointOfNoReturn
  <1> QED
    BY <1>5, <1>6, <1>7, <1>8, <1>9, LocalStep

\* The content is known, or the object has to be moved.
LEMMA FindContentIInv ==
    ASSUME SessionIInv, NEW t \in Handlers, FindContent(t)
    PROVE  SessionIInv'
  <1>1. step[t] = "find_content" /\ UNCHANGED <<sessions, uploads, made, acked, broken, ended>>
    BY DEF FindContent
  <1>2. PICK s \in Sessions : s = req[t].session
    BY <1>1, BusyHasSession DEF SessionIInv
  <1>3. assembled \in [Sessions -> PartLists \cup {NoObject}] /\ assembled[s] # NoObject
    BY <1>1, <1>2, MergedFacts DEF SessionIInv, SessionTypeOK
  <1>4. CASE Goto(t, "attach_file") /\ assembled' = [assembled EXCEPT ![s] = NoObject]
    BY <1>1, <1>2, <1>3, <1>4, ProcessingIInv
  <1>5. CASE Goto(t, "move_object") /\ assembled' = assembled
    <2>1. assembled' = [assembled EXCEPT ![s] = assembled[s]]
      BY <1>3, <1>5
    <2> QED
      BY <1>1, <1>2, <1>3, <1>5, <2>1, ProcessingIInv
  <1> QED
    BY <1>2, <1>4, <1>5 DEF FindContent

\* The object is there: the one completion has it.
LEMMA MoveObjectIInv ==
    ASSUME SessionIInv, NEW t \in Handlers, MoveObject(t)
    PROVE  SessionIInv'
  <1>1. step[t] = "move_object"
    BY DEF MoveObject
  <1>2. PICK s \in Sessions : s = req[t].session
    BY <1>1, BusyHasSession DEF SessionIInv
  <1>3. assembled \in [Sessions -> PartLists \cup {NoObject}] /\ assembled[s] # NoObject
    BY <1>1, <1>2, MergedFacts DEF SessionIInv, SessionTypeOK
  <1>4. /\ assembled' = [assembled EXCEPT ![s] = NoObject] /\ Goto(t, "attach_file")
        /\ UNCHANGED <<sessions, uploads, made, acked, broken, ended>>
    BY <1>2, <1>3 DEF MoveObject
  <1> QED
    BY <1>1, <1>2, <1>3, <1>4, ProcessingIInv

\* The one file of the session.
LEMMA AttachFileIInv ==
    ASSUME SessionIInv, NEW t \in Handlers, AttachFile(t)
    PROVE  SessionIInv'
  <1>1. step[t] = "attach_file"
    BY DEF AttachFile
  <1>2. PICK s \in Sessions : s = req[t].session
    BY <1>1, BusyHasSession DEF SessionIInv
  <1>3. assembled \in [Sessions -> PartLists \cup {NoObject}] /\ assembled[s] = NoObject
    BY <1>1, <1>2, MergedFacts DEF SessionIInv, SessionTypeOK
  <1>4. /\ made' = [made EXCEPT ![s] = Append(@, req[t].parts)] /\ Goto(t, "mark_completed")
        /\ UNCHANGED <<sessions, uploads, assembled, acked, broken, ended>>
    BY <1>2 DEF AttachFile
  <1>5. assembled' = [assembled EXCEPT ![s] = NoObject]
    BY <1>3, <1>4
  <1> QED
    BY <1>1, <1>2, <1>3, <1>4, <1>5, ProcessingIInv

\* The row is there: no abort got through.
LEMMA MarkCompletedIInv ==
    ASSUME SessionIInv, NEW t \in Handlers, MarkCompleted(t)
    PROVE  SessionIInv'
  <1>1. step[t] = "mark_completed"
    BY DEF MarkCompleted
  <1>2. PICK s \in Sessions : s = req[t].session
    BY <1>1, BusyHasSession DEF SessionIInv
  <1>3. /\ RowFollowsUpload(s) /\ uploads[s].state = "completed" /\ sessions[s] # NoSession
        /\ sessions[s] \in SessionRows /\ assembled[s] = NoObject /\ Len(made[s]) = 1
        /\ \A u \in Handlers \ {t} : req[u].session = s => step[u] \notin PointOfNoReturn
    BY <1>1, <1>2, MergedFacts
  <1>4. /\ sessions' = [sessions EXCEPT ![s].status = "completed"] /\ End(t)
        /\ UNCHANGED <<uploads, assembled, made, acked, broken, ended>>
    BY <1>2, <1>3 DEF MarkCompleted
  <1>5. /\ sessions' \in [Sessions -> SessionRows \cup {NoSession}]
        /\ sessions'[s] # NoSession /\ sessions'[s].status = "completed"
        /\ sessions'[s].parts = sessions[s].parts
        /\ sessions'[s].total_chunks = sessions[s].total_chunks
    <2>1. sessions'[s] = [sessions[s] EXCEPT !.status = "completed"]
      BY <1>4 DEF SessionIInv, SessionTypeOK
    <2>2. sessions'[s] \in SessionRows
      BY <1>3, <2>1 DEF SessionRows
    <2> QED
      BY <1>3, <1>4, <2>1, <2>2, NoSessionAssumption DEF SessionIInv, SessionTypeOK, SessionRows
  <1>6. /\ RequestsTyped' /\ step'[t] = "idle" /\ req'[t].session = NoSession
        /\ \A u \in Handlers \ {t} : req'[u] = req[u] /\ step'[u] = step[u]
    BY <1>4, EndTyped DEF SessionIInv
  <1>7. SessionTypeOK'
    BY <1>4, <1>5, <1>6 DEF SessionIInv, SessionTypeOK, RequestsTyped
  <1>8. StepOf(t, s)
    BY <1>2, <1>4, <1>6 DEF StepOf, SessionIInv, SessionTypeOK
  <1>9. RowFollowsUpload(s)'
    BY <1>3, <1>4, <1>5 DEF RowFollowsUpload, Pending, Numbered
  <1>10. RequestFits(t)'
    BY <1>6 DEF RequestFits
  <1>11. ASSUME NEW u \in Handlers \ {t}, req[u].session = s PROVE RequestFits(u)'
    <2>1. RequestFits(u) /\ step[u] \notin PointOfNoReturn
      BY <1>3, <1>11 DEF SessionIInv
    <2> QED
      BY <1>3, <1>4, <1>5, <1>6, <1>11, <2>1 DEF RequestFits, Open, Numbered, PointOfNoReturn
  <1> QED
    BY <1>6, <1>7, <1>8, <1>9, <1>10, <1>11, LocalStep DEF PointOfNoReturn

\* S3 aborts an open upload only, so no completion is on its way.
LEMMA AbortS3IInv ==
    ASSUME SessionIInv, NEW t \in Handlers, AbortS3(t)
    PROVE  SessionIInv'
  <1>1. step[t] = "abort_s3"
    BY DEF AbortS3
  <1>2. PICK s \in Sessions : s = req[t].session
    BY <1>1, BusyHasSession DEF SessionIInv
  <1>3. CASE ~Open(s)
    <2>1. End(t) /\ UNCHANGED <<sessions, uploads, assembled, made, acked, broken, ended>>
      BY <1>2, <1>3 DEF AbortS3, Refuse
    <2> QED
      BY <1>1, <2>1, EndEarlyIInv DEF PointOfNoReturn, SessionIInv, SessionTypeOK
  <1>4. CASE Open(s)
    <2>1. /\ uploads' = [uploads EXCEPT ![s].state = "aborted"] /\ Goto(t, "delete_session")
          /\ UNCHANGED <<sessions, assembled, made, acked, broken, ended>>
      BY <1>2, <1>4 DEF AbortS3, Refuse
    <2>2. /\ RequestsTyped' /\ step'[t] = "delete_session" /\ req' = req
          /\ \A u \in Handlers \ {t} : req'[u] = req[u] /\ step'[u] = step[u]
      BY <1>1, <2>1, GotoTyped DEF SessionIInv, Steps
    <2>3. uploads' \in [Sessions -> Uploads] /\ uploads'[s].state = "aborted"
      BY <2>1 DEF SessionIInv, SessionTypeOK, Uploads
    <2>4. SessionTypeOK'
      BY <2>1, <2>2, <2>3 DEF SessionIInv, SessionTypeOK, RequestsTyped
    <2>5. StepOf(t, s)
      BY <1>2, <2>1, <2>2 DEF StepOf, SessionIInv, SessionTypeOK
    <2>6. RowFollowsUpload(s) /\ uploads[s].state = "open" /\ sessions[s] # NoSession /\ Pending(s)
      BY <1>1, <1>2, <1>4 DEF SessionIInv, RequestFits, RowFollowsUpload, Open
    <2>7. RowFollowsUpload(s)'
      <3>1. Unfinished(s)'
        BY <1>2, <2>2 DEF Unfinished, PointOfNoReturn
      <3> QED
        BY <2>1, <2>3, <2>6, <3>1 DEF RowFollowsUpload, Pending
    <2>8. RequestFits(t)'
      BY <1>2, <2>2, <2>3 DEF RequestFits
    <2>9. ASSUME NEW u \in Handlers \ {t}, req[u].session = s
          PROVE  RequestFits(u)' /\ step[u] \notin PointOfNoReturn
      <3>1. RequestFits(u)
        BY DEF SessionIInv
      <3>2. step[u] \notin PointOfNoReturn
        BY <2>6, <2>9, <3>1 DEF RequestFits, PointOfNoReturn, Open
      <3> QED
        BY <2>1, <2>2, <2>3, <2>9, <3>1, <3>2 DEF RequestFits, Pending, Open, Numbered, PointOfNoReturn
    <2> QED
      BY <2>4, <2>5, <2>7, <2>8, <2>9, LocalStep
  <1> QED
    BY <1>3, <1>4

\* The row goes after the upload has.
LEMMA DeleteSessionIInv ==
    ASSUME SessionIInv, NEW t \in Handlers, DeleteSession(t)
    PROVE  SessionIInv'
  <1>1. step[t] = "delete_session"
    BY DEF DeleteSession
  <1>2. PICK s \in Sessions : s = req[t].session
    BY <1>1, BusyHasSession DEF SessionIInv
  <1>3. /\ sessions' = [sessions EXCEPT ![s] = NoSession] /\ End(t)
        /\ UNCHANGED <<uploads, assembled, made, acked, broken, ended>>
    BY <1>2 DEF DeleteSession
  <1>4. /\ RequestsTyped' /\ step'[t] = "idle" /\ req'[t].session = NoSession
        /\ \A u \in Handlers \ {t} : req'[u] = req[u] /\ step'[u] = step[u]
    BY <1>3, EndTyped DEF SessionIInv
  <1>5. sessions' \in [Sessions -> SessionRows \cup {NoSession}] /\ sessions'[s] = NoSession
    BY <1>3 DEF SessionIInv, SessionTypeOK
  <1>6. SessionTypeOK'
    BY <1>3, <1>4, <1>5 DEF SessionIInv, SessionTypeOK, RequestsTyped
  <1>7. StepOf(t, s)
    BY <1>2, <1>3, <1>4 DEF StepOf, SessionIInv, SessionTypeOK
  <1>8. RowFollowsUpload(s) /\ uploads[s].state = "aborted"
    BY <1>1, <1>2 DEF SessionIInv, RequestFits
  <1>9. RowFollowsUpload(s)'
    BY <1>3, <1>5, <1>8 DEF RowFollowsUpload
  <1>10. RequestFits(t)'
    BY <1>4 DEF RequestFits
  <1>11. ASSUME NEW u \in Handlers \ {t}, req[u].session = s PROVE RequestFits(u)'
    <2>1. RequestFits(u) /\ step[u] \notin PointOfNoReturn
      BY <1>1, <1>2, <1>11, CommittedIsAlone DEF SessionIInv, PointOfNoReturn
    <2> QED
      BY <1>3, <1>4, <1>5, <1>8, <1>11, <2>1 DEF RequestFits, Open, PointOfNoReturn
  <1> QED
    BY <1>4, <1>6, <1>7, <1>9, <1>10, <1>11, LocalStep DEF PointOfNoReturn

\* A request that ends half-way leaves its session unfinished, if it was committed.
LEMMA FailIInv ==
    ASSUME SessionIInv, NEW t \in Handlers, Fail(t)
    PROVE  SessionIInv'
  <1>1. /\ step[t] # "idle" /\ End(t) /\ ended' \in 0 .. MaxEnded
        /\ UNCHANGED <<sessions, uploads, assembled, made, acked>>
    BY EndedAssumption DEF Fail, SessionIInv, SessionTypeOK
  <1>2. PICK s \in Sessions : s = req[t].session
    BY <1>1, BusyHasSession DEF SessionIInv
  <1>3. CASE step[t] \notin PointOfNoReturn
    BY <1>1, <1>3, EndEarlyIInv DEF Fail
  <1>4. CASE step[t] \in PointOfNoReturn
    <2>1. broken' = broken \cup {s}
      BY <1>2, <1>4 DEF Fail
    <2>2. /\ RequestsTyped' /\ step'[t] = "idle" /\ req'[t].session = NoSession
          /\ \A u \in Handlers \ {t} : req'[u] = req[u] /\ step'[u] = step[u]
      BY <1>1, EndTyped DEF SessionIInv
    <2>3. SessionTypeOK'
      BY <1>1, <2>1, <2>2 DEF SessionIInv, SessionTypeOK, RequestsTyped
    <2>4. StepOf(t, s)
      BY <1>1, <1>2, <2>1, <2>2 DEF StepOf
    <2>5. RowFollowsUpload(s)'
      <3>1. Unfinished(s)'
        BY <2>1 DEF Unfinished
      <3>2. RowFollowsUpload(s)
        BY DEF SessionIInv
      <3> QED
        BY <1>1, <3>1, <3>2 DEF RowFollowsUpload, Pending, Numbered
    <2>6. RequestFits(t)'
      BY <2>2 DEF RequestFits
    <2>7. ASSUME NEW u \in Handlers \ {t} PROVE RequestFits(u)'
      <3>1. RequestFits(u)
        BY DEF SessionIInv
      <3> QED
        BY <1>1, <2>2, <3>1 DEF RequestFits, Pending, Open, Numbered
    <2> QED
      BY <2>2, <2>3, <2>4, <2>5, <2>6, <2>7, LocalStep DEF PointOfNoReturn
  <1> QED
    BY <1>3, <1>4

\* IInv is inductive.
LEMMA NextSessionIInv == SessionIInv /\ [SessionNext]_sessionVars => SessionIInv'
  <1> SUFFICES ASSUME SessionIInv, [SessionNext]_sessionVars PROVE SessionIInv'
    OBVIOUS
  <1>1. CASE UNCHANGED sessionVars
    BY <1>1 DEF sessionVars, SessionIInv, SessionTypeOK, OneCommitted, RowFollowsUpload, RequestFits, Unfinished, Pending, Open, Numbered
  <1>2. ASSUME NEW t \in Handlers, NEW s \in Sessions, NEW n \in 0 .. MaxChunks, CreateUpload(t, s, n) PROVE SessionIInv'
    BY <1>2, CreateUploadIInv
  <1>3. ASSUME NEW t \in Handlers, InsertSession(t) PROVE SessionIInv'
    BY <1>3, InsertSessionIInv
  <1>4. ASSUME NEW t \in Handlers, NEW s \in Sessions, NEW n \in PartNumbers, NEW d \in Data, BeginChunk(t, s, n, d)
        PROVE  SessionIInv'
    BY <1>4, BeginChunkIInv
  <1>5. ASSUME NEW t \in Handlers, UploadPart(t) \/ RecordPart(t) PROVE SessionIInv'
    BY <1>5, UploadPartIInv, RecordPartIInv
  <1>6. ASSUME NEW t \in Handlers, NEW s \in Sessions, BeginComplete(t, s) \/ BeginAbort(t, s) PROVE SessionIInv'
    BY <1>6, BeginCompleteIInv, BeginAbortIInv
  <1>7. ASSUME NEW t \in Handlers, CompleteS3(t) \/ FindContent(t) \/ MoveObject(t) \/ AttachFile(t) \/ MarkCompleted(t)
        PROVE  SessionIInv'
    BY <1>7, CompleteS3IInv, FindContentIInv, MoveObjectIInv, AttachFileIInv, MarkCompletedIInv
  <1>8. ASSUME NEW t \in Handlers, AbortS3(t) \/ DeleteSession(t) \/ Fail(t) PROVE SessionIInv'
    BY <1>8, AbortS3IInv, DeleteSessionIInv, FailIInv
  <1> QED
    BY <1>1, <1>2, <1>3, <1>4, <1>5, <1>6, <1>7, <1>8 DEF SessionNext

\* What the invariant says between requests: with no request of the session in
\* progress and none ended past its point of no return, nothing is unfinished.
LEMMA RestingAgrees == SessionIInv => SessionsAgree
  <1> SUFFICES ASSUME SessionIInv, NEW s \in Sessions \ broken, \A t \in Handlers : req[t].session # s
               PROVE  /\ assembled[s] = NoObject
                      /\ CASE Pending(s) -> Open(s) /\ made[s] = <<>>
                           [] sessions[s] = NoSession ->
                                uploads[s].state \in {"none", "aborted"} /\ made[s] = <<>>
                           [] OTHER -> uploads[s].state = "completed" /\ Len(made[s]) = 1
    BY DEF SessionsAgree
  <1>1. ~Unfinished(s)
    BY DEF Unfinished
  <1>2. RowFollowsUpload(s) /\ uploads[s].state \in {"none", "open", "completed", "aborted"}
    BY DEF SessionIInv, SessionTypeOK, Uploads
  <1>3. Pending(s) => sessions[s] # NoSession
    BY DEF Pending
  <1> QED
    BY <1>1, <1>2, <1>3 DEF RowFollowsUpload, Open

-----------------------------------------------------------------------------
\* The inductive invariant: at most one request of a session is past its point of no
\* return, and row, files and answered parts follow the state of the multipart upload.
THEOREM UploadSessionInvariant == SessionSpec => []SessionIInv
  BY InitSessionIInv, NextSessionIInv, PTL DEF SessionSpec

\* upload_service.rs: well-formed rows, and at rest the row, S3 and the files agree.
THEOREM UploadSessionsInOrder == SessionSpec => []SessionsInOrder
  <1>1. SessionIInv => SessionsInOrder
    BY RestingAgrees DEF SessionIInv, SessionsInOrder
  <1> QED
    BY <1>1, UploadSessionInvariant, PTL

\* upload_service.rs:169: parallel uploads of chunks lose no answered part.
THEOREM UploadAckedPartsKept == SessionSpec => []AckedPartsKept
  <1>1. SessionIInv => AckedPartsKept
    BY DEF SessionIInv, RowFollowsUpload, AckedPartsKept
  <1> QED
    BY <1>1, UploadSessionInvariant, PTL

\* upload_service.rs:208: completing twice, or together with an abort, makes at most one
\* file, and it has every chunk.
THEOREM UploadOneWholeFile == SessionSpec => []OneWholeFile
  <1>1. SessionIInv => OneWholeFile
    BY DEF SessionIInv, SessionTypeOK, Uploads, RowFollowsUpload, OneWholeFile, Numbered
  <1> QED
    BY <1>1, UploadSessionInvariant, PTL
=============================================================================
