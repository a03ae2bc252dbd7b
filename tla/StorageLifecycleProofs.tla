----------------------- MODULE StorageLifecycleProofs -----------------------
(***************************************************************************)
(* Reference counting is safe, for any numbers of users, contents and      *)
(* files.                                                                  *)
(*                                                                         *)
(* RefCountCovers and LiveFileReadable are not inductive.  The strengthening *)
(* adds the foreign key (which also binds soft-deleted files, that a copy  *)
(* can bring back) and the agreement of table and bucket.  Requests write  *)
(* the tables first and release contents last, so the argument is made     *)
(* once, for Settle: it establishes the invariant from any tables whose    *)
(* counts cover the references that are left plus those about to be        *)
(* released.  The lemmas also carry what a step may do to the content of a *)
(* file that stays live (KeepsContent).                                    *)
(***************************************************************************)
EXTENDS StorageLifecycle, TLAPS, FiniteSetTheorems

Typed(fs, rs, os) ==
    /\ fs \in [Items -> FileRows \cup {NoFile}]
    /\ rs \in [Hashes -> StorageRows \cup {NoRow}]
    /\ os \subseteq Hashes \X Names

\* The counts of rs cover the references of fs and those still to be released.
Covered(fs, rs, loss) ==
    \A h \in Hashes : rs[h] # NoRow =>
        rs[h].count >= Cardinality(References(fs, h)) + loss[h]

\* The foreign key user_files.storage_file_id.
Linked(fs, rs) ==
    \A i \in Items : fs[i] # NoFile /\ fs[i].blob # NoHash => rs[fs[i].blob] # NoRow

\* The bucket has the object of every row, and no other.
Stored(rs, os) ==
    /\ \A h \in Hashes : rs[h] # NoRow => <<h, rs[h].name>> \in os
    /\ \A k \in os : rs[k[1]] # NoRow /\ <<k[1], rs[k[1]].name>> = k

IInv ==
    /\ TypeOK
    /\ RefCountCovers
    /\ Linked(files, rows)
    /\ Stored(rows, objects)

\* What ContentKept says of one step.
KeepsContent ==
    \A i \in Items : Live(i) /\ Live(i)' /\ files[i].blob # NoHash /\ files'[i].blob = NoHash =>
        \E j \in Items : Live(j) /\ files[j].blob = NoHash /\ ~Live(j)'

-----------------------------------------------------------------------------
\* References are finitely many.
LEMMA ReferencesFinite ==
    ASSUME NEW fs, NEW h
    PROVE  IsFiniteSet(References(fs, h)) /\ Cardinality(References(fs, h)) \in Nat
  <1>1. References(fs, h) \in SUBSET Items
    BY DEF References
  <1>2. IsFiniteSet(References(fs, h))
    BY <1>1, ItemsAssumption, FS_Subset
  <1> QED
    BY <1>2, FS_CardinalityType

LEMMA CountFinite ==
    ASSUME NEW D \in SUBSET Items
    PROVE  Count(D) \in [Hashes -> Nat]
  <1> SUFFICES ASSUME NEW h \in Hashes
               PROVE  Cardinality({i \in D : files[i].blob = h}) \in Nat
    BY DEF Count
  <1>1. {i \in D : files[i].blob = h} \in SUBSET Items
    OBVIOUS
  <1> QED
    BY <1>1, ItemsAssumption, FS_Subset, FS_CardinalityType

\* What releasing at most one file takes from each content.
LEMMA CountSingle ==
    ASSUME NEW i \in Items, NEW D \in SUBSET {i}, NEW h \in Hashes
    PROVE  Count(D)[h] = IF i \in D /\ files[i].blob = h THEN 1 ELSE 0
  <1> DEFINE S == {j \in D : files[j].blob = h}
  <1>1. Count(D)[h] = Cardinality(S)
    BY DEF Count
  <1>2. CASE i \in D /\ files[i].blob = h
    <2>1. S = {i}
      BY <1>2
    <2> QED
      BY <1>1, <1>2, <2>1, FS_Singleton
  <1>3. CASE ~(i \in D /\ files[i].blob = h)
    <2>1. S = {}
      BY <1>3
    <2> QED
      BY <1>1, <1>3, <2>1, FS_EmptySet
  <1> QED
    BY <1>2, <1>3

LEMMA NoLossIsZero == \A h \in Hashes : NoLoss[h] = 0
  <1> SUFFICES ASSUME NEW h \in Hashes PROVE NoLoss[h] = 0
    OBVIOUS
  <1>1. {i \in {} : files[i].blob = h} = {}
    OBVIOUS
  <1> QED
    BY <1>1, FS_EmptySet DEF NoLoss, Count

\* The table fs with one row written.
Written(fs, i, r) == [fs EXCEPT ![i] = r]

\* How the number of references changes when one row of user_files is written.
LEMMA OneRowWritten ==
    ASSUME NEW fs \in [Items -> FileRows \cup {NoFile}], NEW i \in Items,
           NEW r \in FileRows, NEW h \in Hashes
    PROVE  Cardinality(References(Written(fs, i, r), h)) =
             Cardinality(References(fs, h))
             - (IF i \in References(fs, h) THEN 1 ELSE 0)
             + (IF r.live /\ r.blob = h THEN 1 ELSE 0)
  <1> DEFINE gs == Written(fs, i, r)
             R == References(fs, h)
             Q == R \ {i}
  <1>1. r # NoFile
    BY NoRowAssumption
  <1>2. IsFiniteSet(R) /\ Cardinality(R) \in Nat
    BY ReferencesFinite
  <1>3. IsFiniteSet(Q) /\ Cardinality(Q) = IF i \in R THEN Cardinality(R) - 1 ELSE Cardinality(R)
    BY <1>2, FS_RemoveElement
  <1>4. References(gs, h) = IF r.live /\ r.blob = h THEN Q \cup {i} ELSE Q
    BY <1>1 DEF References, Written
  <1>5. Cardinality(Q \cup {i}) = Cardinality(Q) + 1
    BY <1>3, FS_AddElement
  <1> HIDE DEF gs, R, Q
  <1>6. Cardinality(References(gs, h)) = Cardinality(R) - (IF i \in R THEN 1 ELSE 0)
                                         + (IF r.live /\ r.blob = h THEN 1 ELSE 0)
    BY <1>2, <1>3, <1>4, <1>5
  <1> QED
    BY <1>6 DEF gs, R

-----------------------------------------------------------------------------
\* Releasing contents re-establishes the invariant: a content whose count goes
\* to zero is one no live file refers to.
LEMMA SettleIInv ==
    ASSUME NEW fs, NEW rs, NEW os, NEW loss \in [Hashes -> Nat],
           Typed(fs, rs, os), Covered(fs, rs, loss), Linked(fs, rs), Stored(rs, os),
           Settle(fs, rs, os, loss)
    PROVE  /\ IInv'
           /\ \A i \in Items : Live(i)' => fs[i] # NoFile /\ fs[i].live /\ files'[i] = fs[i]
           /\ \A i \in Items : fs[i] # NoFile /\ ~fs[i].live => ~Live(i)'
  <1> DEFINE dead == {h \in Hashes : rs[h] # NoRow /\ loss[h] > 0 /\ rs[h].count - loss[h] <= 0}
  <1>1. /\ rows' = [h \in Hashes |-> IF rs[h] = NoRow \/ h \in dead THEN NoRow
                                     ELSE [rs[h] EXCEPT !.count = @ - loss[h]]]
        /\ objects' = os \ {<<h, rs[h].name>> : h \in dead}
        /\ files' = [i \in Items |-> IF fs[i] # NoFile /\ fs[i].blob \in dead
                                     THEN [fs[i] EXCEPT !.blob = NoHash] ELSE fs[i]]
    BY DEF Settle
  <1>2. \A h \in Hashes : rs[h] # NoRow =>
           /\ rs[h] \in StorageRows /\ rs[h].count \in 1 .. MaxRef
           /\ rs[h].name \in Names
    BY DEF Typed, StorageRows
  <1>3. \A h \in Hashes : rs[h] # NoRow /\ h \notin dead =>
           rs[h].count - loss[h] \in 1 .. MaxRef
    BY <1>2, MaxRefAssumption
  <1>4. TypeOK'
    <2>1. rows' \in [Hashes -> StorageRows \cup {NoRow}]
      BY <1>1, <1>2, <1>3 DEF StorageRows
    <2>2. files' \in [Items -> FileRows \cup {NoFile}]
      BY <1>1 DEF Typed, FileRows
    <2>3. objects' \subseteq Hashes \X Names
      BY <1>1 DEF Typed
    <2> QED
      BY <2>1, <2>2, <2>3 DEF TypeOK
  <1>5. ASSUME NEW h \in dead PROVE References(fs, h) = {}
    <2>1. Cardinality(References(fs, h)) \in Nat /\ IsFiniteSet(References(fs, h))
      BY ReferencesFinite
    <2>2. rs[h].count >= Cardinality(References(fs, h)) + loss[h]
      BY DEF Covered
    <2>3. Cardinality(References(fs, h)) = 0
      BY <1>2, <2>1, <2>2
    <2> QED
      BY <2>1, <2>3, FS_EmptySet
  <1>6. ASSUME NEW h \in Hashes, h \notin dead
        PROVE  References(files', h) = References(fs, h)
    <2>1. \A i \in Items : fs[i] # NoFile => fs[i] \in FileRows
      BY DEF Typed
    <2>2. \A i \in Items : fs[i] # NoFile /\ fs[i].blob \in dead =>
             files'[i] = [fs[i] EXCEPT !.blob = NoHash] /\ files'[i].blob = NoHash
      BY <1>1, <2>1 DEF FileRows
    <2>3. \A i \in Items : ~(fs[i] # NoFile /\ fs[i].blob \in dead) => files'[i] = fs[i]
      BY <1>1
    <2> QED
      BY <1>6, <2>2, <2>3, NullAssumption DEF References
  <1>7. RefCountCovers'
    <2> SUFFICES ASSUME NEW h \in Hashes, rows'[h] # NoRow
                 PROVE  rows'[h].count >= Cardinality(References(files', h))
      BY DEF RefCountCovers
    <2>1. rs[h] # NoRow /\ h \notin dead /\ rows'[h].count = rs[h].count - loss[h]
      BY <1>1, <1>2 DEF StorageRows
    <2>2. rs[h].count >= Cardinality(References(fs, h)) + loss[h]
      BY <2>1 DEF Covered
    <2>3. Cardinality(References(fs, h)) \in Nat
      BY ReferencesFinite
    <2> QED
      BY <1>2, <1>6, <2>1, <2>2, <2>3
  <1>8. ASSUME NEW h \in Hashes
        PROVE  /\ rows'[h] # NoRow <=> rs[h] # NoRow /\ h \notin dead
               /\ rows'[h] # NoRow => rows'[h].name = rs[h].name
    <2>1. CASE rs[h] # NoRow /\ h \notin dead
      <3>1. rows'[h] = [rs[h] EXCEPT !.count = rs[h].count - loss[h]]
        BY <1>1, <2>1
      <3>2. rows'[h] \in StorageRows /\ rows'[h].name = rs[h].name
        BY <1>2, <1>3, <2>1, <3>1 DEF StorageRows
      <3> QED
        BY <2>1, <3>2, NoRowAssumption
    <2>2. CASE ~(rs[h] # NoRow /\ h \notin dead)
      BY <1>1, <2>2
    <2> QED
      BY <2>1, <2>2
  <1>9. Linked(files, rows)'
    <2> SUFFICES ASSUME NEW i \in Items, files'[i] # NoFile, files'[i].blob # NoHash
                 PROVE  rows'[files'[i].blob] # NoRow
      BY DEF Linked
    <2>1. ~(fs[i] # NoFile /\ fs[i].blob \in dead)
      BY <1>1 DEF Typed, FileRows
    <2>2. files'[i] = fs[i]
      BY <1>1, <2>1
    <2>3. fs[i].blob \in Hashes /\ rs[fs[i].blob] # NoRow /\ fs[i].blob \notin dead
      BY <2>1, <2>2 DEF Typed, FileRows, Linked
    <2> QED
      BY <1>8, <2>2, <2>3
  <1>10. Stored(rows, objects)'
    <2>1. ASSUME NEW h \in Hashes, rows'[h] # NoRow
          PROVE  <<h, rows'[h].name>> \in objects'
      <3>1. rs[h] # NoRow /\ h \notin dead /\ rows'[h].name = rs[h].name
        BY <1>8, <2>1
      <3>2. <<h, rs[h].name>> \in os
        BY <3>1 DEF Stored
      <3>3. <<h, rs[h].name>> \notin {<<g, rs[g].name>> : g \in dead}
        BY <3>1
      <3> QED
        BY <1>1, <3>1, <3>2, <3>3
    <2>2. ASSUME NEW k \in objects'
          PROVE  rows'[k[1]] # NoRow /\ <<k[1], rows'[k[1]].name>> = k
      <3>1. k \in os /\ k[1] \in Hashes
        BY <1>1 DEF Typed
      <3>2. rs[k[1]] # NoRow /\ <<k[1], rs[k[1]].name>> = k
        BY <3>1 DEF Stored
      <3>3. k[1] \notin dead
        BY <1>1, <3>2
      <3> QED
        BY <1>8, <3>1, <3>2, <3>3
    <2> QED
      BY <2>1, <2>2 DEF Stored
  <1>11. ASSUME NEW i \in Items, Live(i)'
         PROVE  fs[i] # NoFile /\ fs[i].live /\ files'[i] = fs[i]
    <2>1. fs[i] # NoFile /\ fs[i] \in FileRows
      BY <1>1, <1>11 DEF Live, Exists, Typed
    <2>2. fs[i].live
      BY <1>1, <1>11, <2>1 DEF Live, Exists, FileRows
    <2>3. \A h \in dead : fs[i].blob # h
      BY <1>5, <2>1, <2>2 DEF References
    <2> QED
      BY <1>1, <2>1, <2>2, <2>3
  <1> QED
    BY <1>4, <1>7, <1>9, <1>10, <1>11 DEF IInv

\* What IInv says of the present tables, in the form SettleIInv takes it.
LEMMA IInvFacts ==
    ASSUME IInv
    PROVE  /\ Typed(files, rows, objects)
           /\ Linked(files, rows)
           /\ Stored(rows, objects)
           /\ \A h \in Hashes : rows[h] # NoRow =>
                rows[h].count >= Cardinality(References(files, h))
  BY DEF IInv, TypeOK, Typed, RefCountCovers

\* An upload writes one file row (at the place of an old one, or a new one),
\* after it has counted the reference in rs.
LEMMA AttachIInv ==
    ASSUME IInv, NEW p \in Places, NEW h \in Hashes, NEW e \in BOOLEAN,
           NEW rs, NEW os, Typed(files, rs, os), Stored(rs, os), rs[h] # NoRow,
           \A g \in Hashes : rows[g] # NoRow => rs[g] # NoRow,
           \A g \in Hashes : rs[g] # NoRow =>
               rs[g].count >= Cardinality(References(files, g)) + (IF g = h THEN 1 ELSE 0),
           Attach(p, h, e, rs, os)
    PROVE  IInv' /\ KeepsContent
  <1>1. ASSUME NEW i \in Items, NEW r \in FileRows, NEW loss \in [Hashes -> Nat],
               r.blob = h,
               \A g \in Hashes : loss[g] <= (IF i \in References(files, g) THEN 1 ELSE 0),
               Settle([files EXCEPT ![i] = r], rs, os, loss)
        PROVE  IInv' /\ KeepsContent
    <2> DEFINE fs == [files EXCEPT ![i] = r]
    <2>1. files \in [Items -> FileRows \cup {NoFile}]
      BY DEF Typed
    <2>2. Typed(fs, rs, os)
      BY <1>1, <2>1 DEF Typed
    <2>3. Linked(fs, rs)
      BY <1>1, <2>1 DEF Linked, IInv, Typed, FileRows
    <2> HIDE DEF fs
    <2>4. Covered(fs, rs, loss)
      <3>0. fs = Written(files, i, r)
        BY DEF fs, Written
      <3> SUFFICES ASSUME NEW g \in Hashes, rs[g] # NoRow
                   PROVE  rs[g].count >= Cardinality(References(fs, g)) + loss[g]
        BY DEF Covered
      <3>1. Cardinality(References(fs, g)) =
              Cardinality(References(files, g)) - (IF i \in References(files, g) THEN 1 ELSE 0)
              + (IF r.live /\ r.blob = g THEN 1 ELSE 0)
        BY <2>1, <3>0, OneRowWritten
      <3>2. (IF r.live /\ r.blob = g THEN 1 ELSE 0) <= (IF g = h THEN 1 ELSE 0)
        BY <1>1
      <3>3. rs[g].count \in Int /\ loss[g] \in Nat
        BY <1>1 DEF Typed, StorageRows
      <3>4. Cardinality(References(files, g)) \in Nat
        BY ReferencesFinite
      <3>5. loss[g] <= (IF i \in References(files, g) THEN 1 ELSE 0)
        BY <1>1
      <3> QED
        BY <3>1, <3>2, <3>3, <3>4, <3>5
    <2>5. Settle(fs, rs, os, loss)
      BY <1>1 DEF fs
    <2>6. /\ IInv'
          /\ \A k \in Items : Live(k)' => files'[k] = fs[k]
      BY <2>2, <2>3, <2>4, <2>5, SettleIInv
    <2>7. \A k \in Items : fs[k] = files[k] \/ fs[k].blob = h
      BY <1>1, <2>1 DEF fs
    <2>8. KeepsContent
      BY <2>6, <2>7, NullAssumption DEF KeepsContent
    <2> QED
      BY <2>6, <2>8
  <1>2. CASE \E i \in LiveAt(p) :
               Settle([files EXCEPT ![i] = [@ EXCEPT !.blob = h, !.expires = e]], rs, os,
                      Count({j \in {i} : files[j].blob # h}))
    <2>1. PICK i \in LiveAt(p) :
               Settle([files EXCEPT ![i] = [@ EXCEPT !.blob = h, !.expires = e]], rs, os,
                      Count({j \in {i} : files[j].blob # h}))
      BY <1>2
    <2> DEFINE r == [files[i] EXCEPT !.blob = h, !.expires = e]
               D == {j \in {i} : files[j].blob # h}
    <2>2. i \in Items /\ files[i] \in FileRows /\ files[i] # NoFile /\ files[i].live
      BY DEF LiveAt, Live, Exists, Typed
    <2>3. r \in FileRows /\ r.blob = h
      BY <2>2 DEF FileRows
    <2>4. Count(D) \in [Hashes -> Nat]
      BY <2>2, CountFinite
    <2>5. \A g \in Hashes : Count(D)[g] <= (IF i \in References(files, g) THEN 1 ELSE 0)
      <3> SUFFICES ASSUME NEW g \in Hashes
                   PROVE  Count(D)[g] <= (IF i \in References(files, g) THEN 1 ELSE 0)
        OBVIOUS
      <3>1. Count(D)[g] = IF i \in D /\ files[i].blob = g THEN 1 ELSE 0
        BY <2>2, CountSingle
      <3>2. i \in D /\ files[i].blob = g => i \in References(files, g)
        BY <2>2 DEF References
      <3> QED
        BY <3>1, <3>2
    <2> HIDE DEF r, D
    <2>6. Settle([files EXCEPT ![i] = r], rs, os, Count(D))
      BY <2>1 DEF r, D
    <2> QED
      BY <1>1, <2>2, <2>3, <2>4, <2>5, <2>6
  <1>3. CASE \E i \in Items :
               /\ ~Exists(i)
               /\ Settle([files EXCEPT ![i] = [at |-> p, blob |-> h, live |-> TRUE, expires |-> e]],
                         rs, os, NoLoss)
    <2>1. PICK i \in Items :
               Settle([files EXCEPT ![i] = [at |-> p, blob |-> h, live |-> TRUE, expires |-> e]],
                      rs, os, NoLoss)
      BY <1>3
    <2> DEFINE r == [at |-> p, blob |-> h, live |-> TRUE, expires |-> e]
    <2>2. r \in FileRows /\ r.blob = h
      BY DEF FileRows
    <2>3. NoLoss \in [Hashes -> Nat]
      BY CountFinite DEF NoLoss
    <2>4. \A g \in Hashes : NoLoss[g] <= (IF i \in References(files, g) THEN 1 ELSE 0)
      BY NoLossIsZero
    <2> HIDE DEF r
    <2>5. Settle([files EXCEPT ![i] = r], rs, os, NoLoss)
      BY <2>1 DEF r
    <2> QED
      BY <1>1, <2>2, <2>3, <2>4, <2>5
  <1> QED
    BY <1>2, <1>3 DEF Attach

LEMMA UploadKnownIInv ==
    ASSUME IInv, NEW p \in Places, NEW h \in Hashes, NEW e \in BOOLEAN, UploadKnown(p, h, e)
    PROVE  IInv' /\ KeepsContent
  <1> DEFINE rs == Incremented(h)
  <1>1. rows[h] # NoRow /\ rows[h].count < MaxRef /\ Attach(p, h, e, rs, objects)
    BY DEF UploadKnown
  <1>2. /\ rows \in [Hashes -> StorageRows \cup {NoRow}]
        /\ rs = [rows EXCEPT ![h].count = rows[h].count + 1]
    BY DEF IInv, TypeOK, Incremented
  <1>3. /\ rs[h] \in StorageRows /\ rs[h].count = rows[h].count + 1 /\ rs[h].name = rows[h].name
        /\ \A g \in Hashes : g # h => rs[g] = rows[g]
        /\ rs \in [Hashes -> StorageRows \cup {NoRow}]
    <2>1. rows[h] \in StorageRows
      BY <1>1, <1>2
    <2>2. rs[h] = [rows[h] EXCEPT !.count = rows[h].count + 1]
      <3> HIDE DEF rs
      <3> QED
        BY <1>2
    <2>3. rows[h].count + 1 \in 1 .. MaxRef
      BY <1>1, <2>1, MaxRefAssumption DEF StorageRows
    <2>4. rs[h] \in StorageRows /\ rs[h].count = rows[h].count + 1 /\ rs[h].name = rows[h].name
      BY <2>1, <2>2, <2>3 DEF StorageRows
    <2> HIDE DEF rs
    <2> QED
      BY <1>2, <2>4
  <1> HIDE DEF rs
  <1>4. Typed(files, rs, objects)
    BY <1>3, IInvFacts DEF Typed
  <1>5. rs[h] # NoRow
    BY <1>3, NoRowAssumption
  <1>6. \A g \in Hashes : /\ rs[g] # NoRow <=> rows[g] # NoRow
                          /\ rs[g] # NoRow => rs[g].name = rows[g].name
    BY <1>1, <1>3, <1>5
  <1>7. Stored(rs, objects)
    BY <1>6, IInvFacts DEF Stored, Typed
  <1>8. ASSUME NEW g \in Hashes, rs[g] # NoRow
        PROVE  rs[g].count >= Cardinality(References(files, g)) + (IF g = h THEN 1 ELSE 0)
    <2>1. rows[g].count \in Int /\ rows[g].count >= Cardinality(References(files, g))
      BY <1>2, <1>6, <1>8, IInvFacts DEF StorageRows
    <2>2. Cardinality(References(files, g)) \in Nat
      BY ReferencesFinite
    <2> QED
      BY <1>3, <2>1, <2>2
  <1> QED
    BY <1>1, <1>4, <1>5, <1>6, <1>7, <1>8, AttachIInv

LEMMA UploadNewIInv ==
    ASSUME IInv, NEW p \in Places, NEW h \in Hashes, NEW e \in BOOLEAN, UploadNew(p, h, e)
    PROVE  IInv' /\ KeepsContent
  <1> DEFINE row == [count |-> 1, name |-> p.name, infected |-> FALSE]
             rs == [rows EXCEPT ![h] = row]
             os == objects \cup {<<h, p.name>>}
  <1>1. rows[h] = NoRow /\ Attach(p, h, e, rs, os)
    BY DEF UploadNew
  <1>2. rows \in [Hashes -> StorageRows \cup {NoRow}] /\ objects \subseteq Hashes \X Names
        /\ p.name \in Names
    BY DEF IInv, TypeOK, Places
  <1>3. References(files, h) = {}
    BY <1>1, NullAssumption, IInvFacts DEF Linked, References, Typed, FileRows
  <1>4. Cardinality(References(files, h)) = 0
    BY <1>3, FS_EmptySet
  <1>5. row \in StorageRows /\ row # NoRow /\ row.count = 1 /\ row.name = p.name
    <2>1. 1 \in 1 .. MaxRef
      BY MaxRefAssumption
    <2>2. row \in StorageRows
      BY <1>2, <2>1 DEF StorageRows
    <2> QED
      BY <2>2, NoRowAssumption
  <1> HIDE DEF row
  <1>6. rs[h] = row /\ \A g \in Hashes : g # h => rs[g] = rows[g]
    BY <1>2
  <1>7. Typed(files, rs, os)
    BY <1>2, <1>5, IInvFacts DEF Typed
  <1> HIDE DEF rs
  <1>8. Stored(rs, os)
    <2>1. ASSUME NEW g \in Hashes, rs[g] # NoRow
          PROVE  <<g, rs[g].name>> \in os
      BY <1>5, <1>6, <2>1, IInvFacts DEF Stored
    <2>2. ASSUME NEW k \in os
          PROVE  rs[k[1]] # NoRow /\ <<k[1], rs[k[1]].name>> = k
      <3>1. CASE k \in objects
        <4>1. rows[k[1]] # NoRow /\ <<k[1], rows[k[1]].name>> = k
          BY <3>1, IInvFacts DEF Stored
        <4>2. k[1] \in Hashes /\ k[1] # h
          BY <1>1, <1>2, <3>1, <4>1
        <4> QED
          BY <1>6, <4>1, <4>2
      <3>2. CASE k = <<h, p.name>>
        BY <1>5, <1>6, <3>2
      <3> QED
        BY <3>1, <3>2
    <2> QED
      BY <2>1, <2>2 DEF Stored
  <1>9. ASSUME NEW g \in Hashes, rs[g] # NoRow
        PROVE  rs[g].count >= Cardinality(References(files, g)) + (IF g = h THEN 1 ELSE 0)
    <2>1. CASE g = h
      BY <1>4, <1>5, <1>6, <2>1
    <2>2. CASE g # h
      <3>1. rows[g].count >= Cardinality(References(files, g)) /\ rs[g] = rows[g]
        BY <1>6, <1>9, <2>2, IInvFacts
      <3>2. Cardinality(References(files, g)) \in Nat
        BY ReferencesFinite
      <3> QED
        BY <2>2, <3>1, <3>2
    <2> QED
      BY <2>1, <2>2
  <1>10. \A g \in Hashes : rows[g] # NoRow => rs[g] # NoRow
    BY <1>1, <1>6
  <1>11. rs[h] # NoRow /\ Attach(p, h, e, rs, os)
    BY <1>1, <1>5, <1>6 DEF rs, row
  <1> QED
    BY <1>7, <1>8, <1>9, <1>10, <1>11, AttachIInv

\* Soft-deleting live files releases exactly the references they held.
LEMMA SoftDeleteIInv ==
    ASSUME IInv, NEW D \in SUBSET Items, \A i \in D : Live(i),
           Settle([i \in Items |-> IF i \in D THEN [files[i] EXCEPT !.live = FALSE] ELSE files[i]],
                  rows, objects, Count(D))
    PROVE  IInv' /\ KeepsContent
  <1> DEFINE fs == [i \in Items |-> IF i \in D THEN [files[i] EXCEPT !.live = FALSE] ELSE files[i]]
  <1>1. /\ files \in [Items -> FileRows \cup {NoFile}]
        /\ \A i \in D : files[i] # NoFile /\ files[i] \in FileRows /\ files[i].live
    BY DEF Live, Exists, IInv, TypeOK
  <1>2. \A i \in D : /\ fs[i] \in FileRows /\ fs[i].live = FALSE
                     /\ fs[i].blob = files[i].blob
    BY <1>1 DEF FileRows
  <1>3. \A i \in Items : i \notin D => fs[i] = files[i]
    OBVIOUS
  <1>4. fs \in [Items -> FileRows \cup {NoFile}]
    BY <1>1, <1>2
  <1>5. Settle(fs, rows, objects, Count(D))
    OBVIOUS
  <1> HIDE DEF fs
  <1>6. Typed(fs, rows, objects)
    BY <1>4, IInvFacts DEF Typed
  <1>7. Linked(fs, rows)
    BY <1>1, <1>2, <1>3, IInvFacts DEF Linked
  <1>8. Covered(fs, rows, Count(D))
    <2> SUFFICES ASSUME NEW h \in Hashes, rows[h] # NoRow
                 PROVE  rows[h].count >= Cardinality(References(fs, h)) + Count(D)[h]
      BY DEF Covered
    <2> DEFINE R == References(files, h)
               S == {i \in D : files[i].blob = h}
    <2>1. References(fs, h) = R \ D
      BY <1>2, <1>3 DEF References
    <2>2. R \cap D = S
      BY <1>1 DEF References
    <2>3. IsFiniteSet(R) /\ Cardinality(R) \in Nat
      BY ReferencesFinite
    <2>4. Cardinality(R \ D) = Cardinality(R) - Cardinality(R \cap D)
      BY <2>3, FS_Difference
    <2>5. Count(D)[h] = Cardinality(S)
      BY DEF Count
    <2>6. Count(D)[h] \in Nat
      BY CountFinite
    <2>7. rows[h].count \in Int /\ rows[h].count >= Cardinality(R)
      BY IInvFacts DEF Typed, StorageRows
    <2> HIDE DEF R, S
    <2>8. Cardinality(References(fs, h)) = Cardinality(R) - Count(D)[h]
      BY <2>1, <2>2, <2>4, <2>5, Zenon
    <2> QED
      BY <2>3, <2>6, <2>7, <2>8
  <1>9. /\ IInv'
        /\ \A i \in Items : Live(i)' => fs[i].live /\ files'[i] = fs[i]
    BY <1>5, <1>6, <1>7, <1>8, CountFinite, IInvFacts, SettleIInv
  <1>10. KeepsContent
    BY <1>2, <1>3, <1>9 DEF KeepsContent
  <1> QED
    BY <1>9, <1>10

LEMMA DeleteIInv ==
    ASSUME IInv, NEW u \in Users, NEW D \in SUBSET Items, Delete(u, D)
    PROVE  IInv' /\ KeepsContent
  <1>1. \A i \in D : Live(i)
    BY DEF Delete, OwnedBy, Live
  <1> QED
    BY <1>1, SoftDeleteIInv DEF Delete

LEMMA ExpireIInv ==
    ASSUME IInv, NEW D \in SUBSET Items, Expire(D)
    PROVE  IInv' /\ KeepsContent
  BY SoftDeleteIInv DEF Expire

\* The target of the merge takes the reference of the renamed file, which gives
\* it up.
LEMMA RenameOntoIInv ==
    ASSUME IInv, NEW i \in Items, NEW j \in Items, RenameOnto(i, j)
    PROVE  IInv' /\ KeepsContent
  <1> DEFINE rj == [files[j] EXCEPT !.blob = files[i].blob]
             ri == [files[i] EXCEPT !.live = FALSE]
             gs == Written(files, j, rj)
             fs == Written(gs, i, ri)
             D == {k \in {j} : files[k].blob # files[i].blob}
  <1>1. /\ files \in [Items -> FileRows \cup {NoFile}] /\ i # j
        /\ files[i] \in FileRows /\ files[i] # NoFile /\ files[i].live
        /\ files[j] \in FileRows /\ files[j] # NoFile /\ files[j].live
    BY DEF RenameOnto, Live, Exists, IInv, TypeOK
  <1>2. /\ rj \in FileRows /\ rj.blob = files[i].blob /\ rj.live
        /\ ri \in FileRows /\ ri.blob = files[i].blob /\ ri.live = FALSE
    BY <1>1 DEF FileRows
  <1>3. Settle(fs, rows, objects, Count(D))
    <2>1. [files EXCEPT ![j] = [@ EXCEPT !.blob = files[i].blob],
                        ![i] = [@ EXCEPT !.live = FALSE]] = fs
      BY <1>1 DEF Written
    <2> QED
      BY <2>1 DEF RenameOnto
  <1> HIDE DEF rj, ri
  <1>4. /\ gs \in [Items -> FileRows \cup {NoFile}]
        /\ fs \in [Items -> FileRows \cup {NoFile}]
        /\ gs[i] = files[i] /\ fs[i] = ri /\ fs[j] = rj
        /\ \A k \in Items : k # i /\ k # j => fs[k] = files[k]
    BY <1>1, <1>2 DEF Written
  <1>5. Typed(fs, rows, objects)
    BY <1>4, IInvFacts DEF Typed
  <1>6. Linked(fs, rows)
    BY <1>1, <1>2, <1>4, IInvFacts DEF Linked
  <1>7. Covered(fs, rows, Count(D))
    <2> SUFFICES ASSUME NEW h \in Hashes, rows[h] # NoRow
                 PROVE  rows[h].count >= Cardinality(References(fs, h)) + Count(D)[h]
      BY DEF Covered
    <2>1. Cardinality(References(gs, h)) =
            Cardinality(References(files, h)) - (IF j \in References(files, h) THEN 1 ELSE 0)
            + (IF rj.live /\ rj.blob = h THEN 1 ELSE 0)
      BY <1>1, <1>2, OneRowWritten
    <2> HIDE DEF gs
    <2>2. Cardinality(References(fs, h)) =
            Cardinality(References(gs, h)) - (IF i \in References(gs, h) THEN 1 ELSE 0)
            + (IF ri.live /\ ri.blob = h THEN 1 ELSE 0)
      BY <1>2, <1>4, OneRowWritten
    <2>3. i \in References(gs, h) <=> files[i].blob = h
      BY <1>1, <1>4 DEF References
    <2>4. j \in References(files, h) <=> files[j].blob = h
      BY <1>1 DEF References
    <2>5. Count(D)[h] = IF j \in D /\ files[j].blob = h THEN 1 ELSE 0
      BY CountSingle
    <2>6. rows[h].count \in Int /\ rows[h].count >= Cardinality(References(files, h))
      BY IInvFacts DEF Typed, StorageRows
    <2>7. Cardinality(References(files, h)) \in Nat
      BY ReferencesFinite
    <2> HIDE DEF fs, D
    <2> QED
      BY <1>2, <2>1, <2>2, <2>3, <2>4, <2>5, <2>6, <2>7
  <1>8. Count(D) \in [Hashes -> Nat]
    BY CountFinite
  <1> HIDE DEF fs, gs, D
  <1>9. /\ IInv'
        /\ \A k \in Items : Live(k)' => fs[k].live /\ files'[k] = fs[k]
    BY <1>3, <1>5, <1>6, <1>7, <1>8, IInvFacts, SettleIInv
  <1>10. KeepsContent
    <2> SUFFICES ASSUME NEW k \in Items, Live(k)', files[k].blob # NoHash, files'[k].blob = NoHash
                 PROVE  Live(i) /\ files[i].blob = NoHash /\ ~Live(i)'
      BY DEF KeepsContent
    <2>1. k = j
      BY <1>2, <1>4, <1>9
    <2>2. files[i].blob = NoHash
      BY <1>2, <1>4, <1>9, <2>1
    <2>3. ~Live(i)'
      BY <1>2, <1>4, <1>9
    <2> QED
      BY <1>1, <2>2, <2>3 DEF Live, Exists
  <1> QED
    BY <1>9, <1>10

\* A request that moves or renames files changes no reference.
LEMMA SameContentsIInv ==
    ASSUME IInv, files' \in [Items -> FileRows \cup {NoFile}], UNCHANGED <<rows, objects>>,
           \A i \in Items : /\ files'[i] = NoFile <=> files[i] = NoFile
                            /\ files'[i] # NoFile => /\ files'[i].blob = files[i].blob
                                                    /\ files'[i].live = files[i].live
    PROVE  IInv' /\ KeepsContent
  <1>1. \A h \in Hashes : References(files', h) = References(files, h)
    BY DEF References
  <1>2. TypeOK' /\ RefCountCovers'
    BY <1>1 DEF IInv, TypeOK, RefCountCovers
  <1>3. Linked(files, rows)' /\ Stored(rows, objects)'
    BY DEF IInv, Linked, Stored
  <1>4. KeepsContent
    BY DEF KeepsContent, Live, Exists
  <1> QED
    BY <1>2, <1>3, <1>4 DEF IInv

LEMMA RenameIInv ==
    ASSUME IInv, NEW i \in Items, NEW p \in Places, Rename(i, p)
    PROVE  IInv' /\ KeepsContent
  <1>1. /\ files \in [Items -> FileRows \cup {NoFile}] /\ files[i] \in FileRows
        /\ files' = [files EXCEPT ![i] = [@ EXCEPT !.at = p]]
    BY DEF IInv, TypeOK, Rename, Live, Exists
  <1>2. /\ files'[i] \in FileRows /\ files'[i].blob = files[i].blob
        /\ files'[i].live = files[i].live
    BY <1>1 DEF FileRows
  <1>3. \A k \in Items : k # i => files'[k] = files[k]
    BY <1>1
  <1>4. files' \in [Items -> FileRows \cup {NoFile}]
    BY <1>1, <1>2
  <1> QED
    BY <1>1, <1>2, <1>3, <1>4, NoRowAssumption, SameContentsIInv DEF Rename

LEMMA MoveIInv ==
    ASSUME IInv, NEW u \in Users, NEW f \in Folders, NEW M \in SUBSET Items, Move(u, M, f)
    PROVE  IInv' /\ KeepsContent
  <1>1. /\ files \in [Items -> FileRows \cup {NoFile}]
        /\ \A i \in M : files[i] \in FileRows
        /\ files' = [i \in Items |-> IF i \in M
                                     THEN [files[i] EXCEPT !.at = [files[i].at EXCEPT !.folder = f]]
                                     ELSE files[i]]
    BY DEF IInv, TypeOK, Move, OwnedBy, Exists
  <1>2. ASSUME NEW i \in M
        PROVE  /\ files'[i] \in FileRows /\ files'[i].blob = files[i].blob
               /\ files'[i].live = files[i].live
    <2>1. [files[i].at EXCEPT !.folder = f] \in Places
      BY <1>1 DEF FileRows, Places
    <2> QED
      BY <1>1, <2>1 DEF FileRows
  <1>3. \A i \in Items : i \notin M => files'[i] = files[i]
    BY <1>1
  <1>4. files' \in [Items -> FileRows \cup {NoFile}]
    BY <1>1, <1>2, <1>3
  <1> QED
    BY <1>1, <1>2, <1>3, <1>4, NoRowAssumption, SameContentsIInv DEF Move

\* A copy counts one reference for every new row, whatever became of its source.
LEMMA CopyIInv ==
    ASSUME IInv, NEW u \in Users, NEW N \in SUBSET Items, NEW src \in [N -> Items],
           NEW at \in [N -> Places], Copy(u, N, src, at)
    PROVE  IInv' /\ KeepsContent
  <1> DEFINE gain == [h \in Hashes |-> Cardinality({n \in N : files[src[n]].blob = h})]
             copy(n) == [at |-> at[n], blob |-> files[src[n]].blob, live |-> TRUE, expires |-> FALSE]
  <1>1. /\ files \in [Items -> FileRows \cup {NoFile}]
        /\ rows \in [Hashes -> StorageRows \cup {NoRow}]
        /\ objects \subseteq Hashes \X Names /\ objects' = objects
        /\ \A n \in N : files[n] = NoFile /\ files[src[n]] \in FileRows
    BY DEF IInv, TypeOK, Copy, OwnedBy, Exists
  <1>2. /\ files' = [i \in Items |-> IF i \in N THEN copy(i) ELSE files[i]]
        /\ rows' = [h \in Hashes |-> IF rows[h] = NoRow THEN NoRow
                                     ELSE [rows[h] EXCEPT !.count = rows[h].count + gain[h]]]
        /\ \A h \in Hashes : rows[h] # NoRow => rows[h].count + gain[h] <= MaxRef
    BY DEF Copy
  <1>3. ASSUME NEW n \in N
        PROVE  /\ files'[n] \in FileRows /\ files'[n].live
               /\ files'[n].blob = files[src[n]].blob
    BY <1>1, <1>2 DEF FileRows
  <1>4. \A i \in Items : i \notin N => files'[i] = files[i]
    BY <1>2
  <1>5. ASSUME NEW h \in Hashes
        PROVE  gain[h] \in Nat /\ IsFiniteSet({n \in N : files[src[n]].blob = h})
    <2>1. {n \in N : files[src[n]].blob = h} \in SUBSET Items
      OBVIOUS
    <2> QED
      BY <2>1, ItemsAssumption, FS_Subset, FS_CardinalityType
  <1>6. ASSUME NEW h \in Hashes, rows[h] # NoRow
        PROVE  /\ rows'[h] \in StorageRows /\ rows'[h].name = rows[h].name
               /\ rows'[h].count = rows[h].count + gain[h]
               /\ rows[h].count \in Int
    <2> HIDE DEF gain
    <2>0. rows[h] \in StorageRows /\ rows[h].count \in 1 .. MaxRef
      BY <1>1, <1>6 DEF StorageRows
    <2>1. rows[h].count + gain[h] \in 1 .. MaxRef
      <3>1. rows[h].count + gain[h] <= MaxRef
        BY <1>2, <1>6
      <3>2. gain[h] \in Nat
        BY <1>5
      <3> QED
        BY <2>0, <3>1, <3>2, MaxRefAssumption
    <2>2. rows'[h] = [rows[h] EXCEPT !.count = rows[h].count + gain[h]]
      BY <1>2, <1>6
    <2> QED
      BY <2>0, <2>1, <2>2 DEF StorageRows
  <1>7. \A h \in Hashes : rows[h] = NoRow => rows'[h] = NoRow
    BY <1>2
  <1>8. TypeOK'
    <2>1. rows' \in [Hashes -> StorageRows \cup {NoRow}]
      BY <1>2, <1>6, <1>7
    <2>2. files' \in [Items -> FileRows \cup {NoFile}]
      BY <1>1, <1>2, <1>3, <1>4
    <2> QED
      BY <1>1, <2>1, <2>2 DEF TypeOK
  <1>9. ASSUME NEW h \in Hashes, rows'[h] # NoRow
        PROVE  rows'[h].count >= Cardinality(References(files', h))
    <2> DEFINE R == References(files, h)
               S == {n \in N : files[src[n]].blob = h}
    <2>1. References(files', h) = R \cup S /\ R \cap S = {}
      BY <1>1, <1>3, <1>4, NoRowAssumption DEF References
    <2>2. IsFiniteSet(R) /\ IsFiniteSet(S) /\ Cardinality(R) \in Nat
      BY <1>5, ReferencesFinite
    <2>3. Cardinality(R \cup S) = Cardinality(R) + Cardinality(S) - Cardinality(R \cap S)
      BY <2>2, FS_Union
    <2>4. Cardinality(R \cap S) = 0
      BY <2>1, FS_EmptySet
    <2>5. rows[h] # NoRow /\ gain[h] = Cardinality(S) /\ gain[h] \in Nat
      BY <1>5, <1>7, <1>9
    <2>6. rows[h].count >= Cardinality(R)
      BY <2>5, IInvFacts
    <2> HIDE DEF R, S, gain
    <2> QED
      BY <1>6, <2>1, <2>2, <2>3, <2>4, <2>5, <2>6
  <1>10. Linked(files, rows)'
    <2> SUFFICES ASSUME NEW i \in Items, files'[i] # NoFile, files'[i].blob # NoHash
                 PROVE  rows'[files'[i].blob] # NoRow
      BY DEF Linked
    <2>1. \E k \in Items : files[k] \in FileRows /\ files'[i].blob = files[k].blob
      BY <1>1, <1>3, <1>4
    <2>2. files'[i].blob \in Hashes /\ rows[files'[i].blob] # NoRow
      BY <2>1, NoRowAssumption, IInvFacts DEF FileRows, Linked
    <2> QED
      BY <1>6, <2>2, NoRowAssumption
  <1>11. Stored(rows, objects)'
    <2>1. \A h \in Hashes : /\ rows'[h] # NoRow <=> rows[h] # NoRow
                            /\ rows'[h] # NoRow => rows'[h].name = rows[h].name
      BY <1>6, <1>7, NoRowAssumption
    <2> QED
      BY <1>1, <2>1, IInvFacts DEF Stored
  <1>12. KeepsContent
    BY <1>1, <1>4 DEF KeepsContent, Live, Exists
  <1> QED
    BY <1>8, <1>9, <1>10, <1>11, <1>12 DEF IInv, RefCountCovers

LEMMA FindThreatIInv ==
    ASSUME IInv, NEW h \in Hashes, FindThreat(h)
    PROVE  IInv' /\ KeepsContent
  <1>1. /\ rows \in [Hashes -> StorageRows \cup {NoRow}] /\ rows[h] \in StorageRows
        /\ rows' = [rows EXCEPT ![h] = [rows[h] EXCEPT !.infected = TRUE]]
        /\ files' = files /\ objects' = objects
    BY DEF IInv, TypeOK, FindThreat
  <1>2. /\ rows'[h] \in StorageRows /\ rows'[h].count = rows[h].count
        /\ rows'[h].name = rows[h].name
    BY <1>1 DEF StorageRows
  <1>3. \A g \in Hashes : /\ rows'[g] # NoRow <=> rows[g] # NoRow
                          /\ rows'[g] # NoRow => /\ rows'[g].count = rows[g].count
                                                 /\ rows'[g].name = rows[g].name
    BY <1>1, <1>2, NoRowAssumption
  <1>4. TypeOK'
    BY <1>1, <1>2 DEF IInv, TypeOK
  <1>5. RefCountCovers'
    BY <1>1, <1>3 DEF IInv, RefCountCovers
  <1>6. Linked(files, rows)'
    BY <1>1, <1>3, IInvFacts DEF Linked, Typed, FileRows
  <1>7. Stored(rows, objects)'
    BY <1>1, <1>3, IInvFacts DEF Stored, Typed
  <1>8. KeepsContent
    BY <1>1 DEF KeepsContent
  <1> QED
    BY <1>4, <1>5, <1>6, <1>7, <1>8 DEF IInv

\* An infected content goes with every file that refers to it.
LEMMA PurgeInfectedIInv ==
    ASSUME IInv, NEW h \in Hashes, PurgeInfected(h)
    PROVE  IInv' /\ KeepsContent
  <1>1. /\ Typed(files, rows, objects) /\ rows[h] # NoRow
        /\ objects' = objects \ {<<h, rows[h].name>>}
        /\ files' = [i \in Items |-> IF files[i] # NoFile /\ files[i].blob = h
                                     THEN NoFile ELSE files[i]]
        /\ rows' = [rows EXCEPT ![h] = NoRow]
    BY IInvFacts DEF PurgeInfected, Exists, Key
  <1>2. rows'[h] = NoRow /\ \A g \in Hashes : g # h => rows'[g] = rows[g]
    BY <1>1 DEF Typed
  <1>3. TypeOK'
    BY <1>1 DEF TypeOK, Typed
  <1>4. \A g \in Hashes : g # h => References(files', g) = References(files, g)
    BY <1>1 DEF References
  <1>5. RefCountCovers'
    BY <1>2, <1>4 DEF IInv, RefCountCovers
  <1>6. Linked(files, rows)'
    BY <1>1, <1>2, IInvFacts DEF Linked, Typed, FileRows
  <1>7. Stored(rows, objects)'
    <2>1. ASSUME NEW g \in Hashes, rows'[g] # NoRow PROVE <<g, rows'[g].name>> \in objects'
      BY <1>1, <1>2, <2>1, IInvFacts DEF Stored
    <2>2. ASSUME NEW k \in objects'
          PROVE  rows'[k[1]] # NoRow /\ <<k[1], rows'[k[1]].name>> = k
      <3>1. k \in objects /\ k # <<h, rows[h].name>> /\ k[1] \in Hashes
        BY <1>1 DEF Typed
      <3>2. rows[k[1]] # NoRow /\ <<k[1], rows[k[1]].name>> = k
        BY <3>1, IInvFacts DEF Stored
      <3> QED
        BY <1>2, <3>1, <3>2
    <2> QED
      BY <2>1, <2>2 DEF Stored
  <1>8. KeepsContent
    BY <1>1 DEF KeepsContent, Live, Exists
  <1> QED
    BY <1>3, <1>5, <1>6, <1>7, <1>8 DEF IInv

-----------------------------------------------------------------------------
LEMMA InitIInv == Init => IInv
  <1> SUFFICES ASSUME Init PROVE IInv
    OBVIOUS
  <1>1. files = [i \in Items |-> NoFile] /\ rows = [h \in Hashes |-> NoRow] /\ objects = {}
    BY DEF Init
  <1>2. TypeOK /\ RefCountCovers /\ Linked(files, rows) /\ Stored(rows, objects)
    BY <1>1 DEF TypeOK, RefCountCovers, Linked, Stored
  <1> QED
    BY <1>2 DEF IInv

LEMMA NextIInv == IInv /\ [Next]_vars => IInv' /\ KeepsContent
  <1> SUFFICES ASSUME IInv, [Next]_vars PROVE IInv' /\ KeepsContent
    OBVIOUS
  <1>1. ASSUME NEW p \in Places, NEW h \in Hashes, NEW e \in BOOLEAN,
               UploadKnown(p, h, e) \/ UploadNew(p, h, e) \/ Link(p, h, e)
        PROVE  IInv' /\ KeepsContent
    BY <1>1, UploadKnownIInv, UploadNewIInv DEF Link
  <1>2. ASSUME NEW u \in Users, NEW D \in SUBSET Items, Delete(u, D) PROVE IInv' /\ KeepsContent
    BY <1>2, DeleteIInv
  <1>3. ASSUME NEW D \in SUBSET Items, Expire(D) PROVE IInv' /\ KeepsContent
    BY <1>3, ExpireIInv
  <1>4. ASSUME NEW i \in Items, NEW p \in Places, Rename(i, p) PROVE IInv' /\ KeepsContent
    BY <1>4, RenameIInv
  <1>5. ASSUME NEW i \in Items, NEW j \in Items, RenameOnto(i, j) PROVE IInv' /\ KeepsContent
    BY <1>5, RenameOntoIInv
  <1>6. ASSUME NEW u \in Users, NEW f \in Folders, NEW M \in SUBSET Items, Move(u, M, f)
        PROVE  IInv' /\ KeepsContent
    BY <1>6, MoveIInv
  <1>7. ASSUME NEW u \in Users, NEW N \in SUBSET Items, NEW src \in [N -> Items],
               NEW at \in [N -> Places], Copy(u, N, src, at)
        PROVE  IInv' /\ KeepsContent
    BY <1>7, CopyIInv
  <1>8. ASSUME NEW h \in Hashes, FindThreat(h) \/ PurgeInfected(h) PROVE IInv' /\ KeepsContent
    BY <1>8, FindThreatIInv, PurgeInfectedIInv
  <1>9. CASE UNCHANGED vars
    BY <1>9 DEF vars, IInv, TypeOK, RefCountCovers, References, Linked, Stored, KeepsContent
  <1> QED
    BY <1>1, <1>2, <1>3, <1>4, <1>5, <1>6, <1>7, <1>8, <1>9 DEF Next

\* The inductive invariant holds of every behaviour.
THEOREM StorageInvariant == Spec => []IInv
  BY InitIInv, NextIInv, PTL DEF Spec

\* Every request leaves well-typed tables: no count reaches zero and stays.
THEOREM StorageTypeOK == Spec => []TypeOK
  <1>1. IInv => TypeOK
    BY DEF IInv
  <1> QED
    BY <1>1, StorageInvariant, PTL

\* No content is counted less often than live files refer to it.
THEOREM StorageRefCountCovers == Spec => []RefCountCovers
  <1>1. IInv => RefCountCovers
    BY DEF IInv
  <1> QED
    BY <1>1, StorageInvariant, PTL

\* No request takes the bytes of a live file of anybody away.
THEOREM StorageLiveFileReadable == Spec => []LiveFileReadable
  <1>1. IInv => LiveFileReadable
    BY IInvFacts DEF LiveFileReadable, Live, Exists, Linked, Stored, Typed, FileRows, Key
  <1> QED
    BY <1>1, StorageInvariant, PTL

\* No request leaves an object in the bucket that no row leads to.
THEOREM StorageNoOrphanObject == Spec => []NoOrphanObject
  <1>1. IInv => NoOrphanObject
    BY IInvFacts DEF NoOrphanObject, Stored, Key
  <1> QED
    BY <1>1, StorageInvariant, PTL

\* No request takes its content from a file that stays live, but the rename of a
\* file without content onto it.
THEOREM StorageContentKept == Spec => ContentKept
  <1>1. IInv /\ [Next]_vars => [KeepsContent]_vars
    BY NextIInv
  <1>2. Spec => [][KeepsContent]_vars
    BY <1>1, StorageInvariant, PTL DEF Spec
  <1> QED
    BY <1>2 DEF ContentKept, KeepsContent
=============================================================================
