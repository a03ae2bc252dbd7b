-------------------------- MODULE MCStorageLocks --------------------------
(***************************************************************************)
(* Two users each have a file of the one content and a file of the other.  *)
(* From there: folder and bulk operations of both, and requests that take  *)
(* no bulk lock.                                                           *)
(***************************************************************************)
EXTENDS StorageLocks, TLC

\* The properties look at no history.
Symmetry == Permutations(Locking \ Plain) \cup Permutations(Plain)

View == <<files, rows, objects, draft, step, spent, line,
          [t \in Tasks |-> [req[t] EXCEPT !.touched = {}]]>>

\* Each content has a row and a name, each user an item for it.
RowOf == CHOOSE f \in Injection(Hashes, Ids) : TRUE
NameOf == CHOOSE f \in Injection(Hashes, Names) : TRUE
ItemOf == CHOOSE f \in Injection(Users \X Hashes, Items) : TRUE

SharedInit ==
    /\ files = [i \in Items |->
                  IF \E c \in Users \X Hashes : ItemOf[c] = i
                  THEN LET c == CHOOSE d \in Users \X Hashes : ItemOf[d] = i
                       IN  [at |-> [user |-> c[1], folder |-> CHOOSE f \in Folders : TRUE,
                                    name |-> NameOf[c[2]]],
                            blob |-> RowOf[c[2]], live |-> TRUE, expires |-> FALSE]
                  ELSE NoFile]
    /\ rows = [b \in Ids |->
                 IF \E h \in Hashes : RowOf[h] = b
                 THEN LET h == CHOOSE g \in Hashes : RowOf[g] = b
                      IN  [hash |-> h, count |-> Cardinality(Users), name |-> NameOf[h],
                           infected |-> FALSE]
                 ELSE NoRow]
    /\ objects = {<<h, NameOf[h]>> : h \in Hashes}
    /\ draft = [t \in Tasks |-> NoDraft]
    /\ step = [t \in Tasks |-> "idle"]
    /\ req = [t \in Tasks |-> NoReq]
    /\ spent = [requests |-> 0, faults |-> 0]
    /\ settled = [files |-> files, rows |-> rows, objects |-> objects]
    /\ disturbed = {}
    /\ Lock!Init

SharedSpec == SharedInit /\ [][LockNext]_lockVars
=============================================================================
