----------------------------- MODULE KeyedLock -----------------------------
(***************************************************************************)
(* What api/src/utils/keyed_mutex.rs promises its callers: one fair mutex  *)
(* per key.  `line[k]` is the order in which the callers of key k are      *)
(* served; the head of the line owns the key.  There is no table of mutex  *)
(* objects here: KeyedMutex.tla adds it and is shown to implement this     *)
(* module.                                                                 *)
(***************************************************************************)
EXTENDS Naturals, SequencesExt

CONSTANTS Tasks,   \* the asynchronous tasks (request handlers) that lock
          Keys     \* the keys: user ids in FileService

VARIABLE line      \* [Keys -> Seq(Tasks)]

Init == line = [k \in Keys |-> <<>>]

Queued(t) == \E k \in Keys : \E n \in DOMAIN line[k] : line[k][n] = t

\* t asks for k and takes its turn, at once if nobody else is there.
Join(t, k) ==
    /\ ~Queued(t)
    /\ line' = [line EXCEPT ![k] = Append(@, t)]

\* t leaves the line of k: the guard is dropped, or the waiting future is.
Leave(t, k) ==
    \E n \in DOMAIN line[k] :
        /\ line[k][n] = t
        /\ line' = [line EXCEPT ![k] = RemoveAt(@, n)]

Next == \E t \in Tasks, k \in Keys : Join(t, k) \/ Leave(t, k)

Spec == Init /\ [][Next]_line
=============================================================================
