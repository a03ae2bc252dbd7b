-------------------------- MODULE MCStorageOverlap ------------------------
(***************************************************************************)
(* Two requests that overlap, from every server in order with at most      *)
(* Occupied files: every count is the number of references, every content  *)
(* is in the bucket.  Uploads one after the other, and a scan, leave such  *)
(* servers.                                                                *)
(***************************************************************************)
EXTENDS StorageTasks, TLC

CONSTANT Occupied   \* bound on the files there are at the start

Symmetry == Permutations(Items) \cup Permutations(Ids) \cup Permutations(Hashes)
            \cup Permutations(Tasks)

\* Only the refinement looks at the history variable settled.
Present == <<files, rows, objects, draft, step, req, spent, disturbed>>

\* Files uploaded with an expiry (e), or without.
Uploaded(e) == [at : Places, blob : Ids, live : {TRUE}, expires : {e}]

\* The files fs, and the contents they refer to: h is stored in row rowOf[h].
InOrder(fs, rowOf) ==
    LET refs == [h \in Hashes |-> {i \in Items : fs[i] # NoFile /\ fs[i].blob = rowOf[h]}]
    IN  /\ files = fs
        /\ \E name \in [Hashes -> Names], threats \in SUBSET Hashes :
             /\ Cardinality(threats) <= 1 /\ \A h \in threats : refs[h] # {}
             /\ \A h \in Hashes :
                  IF refs[h] = {} THEN name[h] = CHOOSE n \in Names : TRUE
                  ELSE \E i \in refs[h] : fs[i].at.name = name[h]
             /\ rows = [b \in Ids |->
                          IF \E h \in Hashes : rowOf[h] = b /\ refs[h] # {}
                          THEN LET h == CHOOSE g \in Hashes : rowOf[g] = b
                               IN  [hash |-> h, count |-> Cardinality(refs[h]), name |-> name[h],
                                    infected |-> h \in threats]
                          ELSE NoRow]
        /\ objects = {KeyOf(rows[b]) : b \in {c \in Ids : rows[c] # NoRow}}

OverlapInit ==
    /\ \E rowOf \in Injection(Hashes, Ids), e \in BOOLEAN :
         \E fs \in [Items -> Uploaded(e) \cup {NoFile}] :
           /\ Cardinality({i \in Items : fs[i] # NoFile}) <= Occupied
           /\ \A i, j \in Items : fs[i] # NoFile /\ fs[j] # NoFile /\ i # j => fs[i].at # fs[j].at
           /\ \A i \in Items : fs[i] # NoFile => \E h \in Hashes : fs[i].blob = rowOf[h]
           /\ InOrder(fs, rowOf)
    /\ draft = [t \in Tasks |-> NoDraft]
    /\ step = [t \in Tasks |-> "idle"]
    /\ req = [t \in Tasks |-> NoReq]
    /\ spent = [requests |-> 0, faults |-> 0]
    /\ settled = [files |-> files, rows |-> rows, objects |-> objects]
    /\ disturbed = {}

\* Two requests that do not overlap are left to MCStorageTasks.
Overlapping == spent.requests = 1 => \E t \in Tasks : ~Idle(t)

OverlapSpec == OverlapInit /\ [][Next]_vars
=============================================================================
