-------------------------- MODULE UploadQueueProofs --------------------------
(***************************************************************************)
(* The browser's upload queue, for any drops, files, folders, numbers of   *)
(* workers, failures, reloads and cancellations: what was dropped is       *)
(* stored in the folders it had, a folder is made twice only by a race     *)
(* that was noted, and a pending session is neither stripped of what       *)
(* resumes it nor aborted for another row.                                 *)
(***************************************************************************)
EXTENDS UploadQueue, TLAPS, FiniteSetTheorems, WellFoundedInduction

-----------------------------------------------------------------------------
\* The variables have these types, and functions their domains.
WorkRecs == [pc : Steps, item : Items \cup {Nobody}, depth : Nat, folder : Nat]
RowRecs == [status : Statuses, session : Large \cup {Nobody}]
SessionRecs == [state : {"none", "pending", "completed", "aborted"}, parts : SUBSET Parts, folder : Nat]
FolderRecs == [name : FolderNames, parent : Nat, by : Drops]

Typed ==
    /\ todo \in [Queues -> Seq(Items)]
    /\ phase \in [Queues -> {"new", "running", "swept"}]
    /\ DOMAIN cache = Queues
    /\ work \in [Agents -> WorkRecs]
    /\ dialog \in Agents \cup {Nobody}
    /\ rows = [i \in DOMAIN rows |-> rows[i]]
    /\ DOMAIN rows \subseteq Items /\ \A i \in DOMAIN rows : rows[i] \in RowRecs
    /\ folders \in Seq(FolderRecs)
    /\ session \in [Large -> SessionRecs]
    /\ metas \subseteq Large /\ chunks \subseteq Large
    /\ {faults, reloads, cancels} \subseteq Nat
    /\ \A i \in Large : session[i].state = "completed" => session[i].parts = Parts

-----------------------------------------------------------------------------
Early == {"folders", "creating", "listing", "hashing", "asking", "uploading"}
Late == {"saving", "savingChunks", "sending", "completing", "cleaning"}
Off == {"off", "done"}

Waiting(d) == {todo[d][n] : n \in DOMAIN todo[d]}

\* Only the workers of a drop under way are at work on its files; the dialog is that of
\* one that asks; the worker that resumes has large files only.
WorkersFit ==
    /\ \A w \in Agents :
         /\ (work[w].item = Nobody) = (work[w].pc \in Off)
         /\ work[w].pc \in Early \cup {"saving", "savingChunks"} => w[1] \in Drops
         /\ work[w].pc # "off" /\ w[1] \in Drops => phase[w[1]] = "running"
         /\ work[w].pc \in Late => work[w].item \in Large
    /\ dialog # Nobody => work[dialog].pc = "asking"
    /\ Waiting(ResumeDrop) \subseteq Large

-----------------------------------------------------------------------------
\* A folder's parent is older.
Rooted(fs) == \A f \in DOMAIN fs : fs[f].parent \in 0 .. f - 1
Tree == Rooted(folders)

\* What a cache has for a path is a folder of that path, and what a worker makes or
\* looks for is in one of the path above.
CachesFit ==
    \A d \in Queues : \A p \in DOMAIN cache[d] :
        /\ p \in Paths /\ cache[d][p] \in DOMAIN folders
        /\ NamesOf[cache[d][p]] = p

WantsFit ==
    \A w \in Agents :
        /\ work[w].folder \in 0 .. Len(folders)
        /\ work[w].pc \in {"creating", "listing"} =>
             /\ work[w].depth \in DOMAIN PathOf[work[w].item]
             /\ NamesOf[work[w].folder] = Path(work[w].item, work[w].depth - 1)
        /\ work[w].pc \in {"hashing", "asking", "uploading"} => NamesOf[work[w].folder] = PathOf[work[w].item]

\* Two workers make the same folder, or one makes one that the drop knows, only if that
\* has been noted.
RacesNoted ==
    \A w \in Agents : work[w].pc \in {"creating", "listing"} =>
        /\ \A v \in Workers(w[1]) \ {w} :
             work[v].pc \in {"creating", "listing"} /\ Wanted(v) = Wanted(w) => <<w[1], Wanted(w)>> \in doubled
        /\ work[w].pc = "creating" /\ Wanted(w) \in DOMAIN cache[w[1]] => <<w[1], Wanted(w)>> \in doubled

\* A drop knows of every folder that it made, or is about to look, or that it does not
\* know has been noted, or it was cut off.
Found(f) ==
    LET d == folders[f].by
        p == NamesOf[f]
    IN  \/ p \in DOMAIN cache[d]
        \/ <<d, p>> \in doubled
        \/ \E w \in Workers(d) : /\ work[w].pc = "listing" /\ Wanted(w) = p
                                 /\ work[w].folder = folders[f].parent
        \/ phase[d] = "swept"

FoldersKnown ==
    \A f \in DOMAIN folders : phase[folders[f].by] # "new" /\ Found(f)

-----------------------------------------------------------------------------
\* A session knows the folder that its file goes to, once there is metadata or somebody
\* sends the file.
Aimed(i) == session[i].folder \in 0 .. Len(folders) /\ NamesOf[session[i].folder] = PathOf[i]
Arrived(i) == \E p \in DOMAIN stored : p[2] = NameOf[i] /\ NamesOf[p[1]] = PathOf[i]

SessionsAimed ==
    /\ \A i \in metas \cup Waiting(ResumeDrop) : Aimed(i)
    /\ \A w \in Agents :
         /\ work[w].pc \in {"saving", "savingChunks", "sending", "completing"} => Aimed(work[w].item)
         /\ work[w].pc = "cleaning" => Arrived(work[w].item)

StoredFits ==
    /\ \A p \in DOMAIN stored : p = <<p[1], p[2]>> /\ p[1] \in 0 .. Len(folders)
    /\ \A n \in DOMAIN listing : <<Root, n>> \in DOMAIN stored
    /\ StructureKept

-----------------------------------------------------------------------------
\* A large file waits in one place at most, and then nothing is known of it.
Once ==
    /\ \A d, e \in Drops : \A m \in DOMAIN todo[d], n \in DOMAIN todo[e] :
         todo[d][m] = todo[e][n] /\ todo[d][m] \in Large => d = e /\ m = n
    /\ \A w \in Agents : work[w].pc \in Early /\ work[w].item \in Large =>
         /\ session[work[w].item].state = "none"
         /\ \A d \in Drops : work[w].item \notin Waiting(d)
         /\ \A v \in Agents \ {w} : work[v].pc \in Early => work[v].item # work[w].item
    /\ \A d \in Drops : \A i \in Waiting(d) \cap Large : session[i].state = "none"
    /\ \A i \in metas \cup chunks \cup Waiting(ResumeDrop) : session[i].state # "none"
    /\ \A w \in Agents : work[w].pc \in Late => session[work[w].item].state # "none"

\* The data of a pending session has its metadata, also while it is being stored.
DataKept ==
    /\ ResumableKept
    /\ \A w \in Agents : work[w].pc = "savingChunks" /\ session[work[w].item].state = "pending" =>
         work[w].item \in metas
    /\ \A w \in Agents : work[w].pc = "cleaning" => session[work[w].item].state # "pending"

\* The session in a row is that of the file, or of one of the same name.
RowsNamed ==
    \A j \in DOMAIN rows : rows[j].session # Nobody =>
        rows[j].session = j \/ (NameOf[j] = NameOf[rows[j].session] /\ PathOf[j] = <<>>)

IInv ==
    /\ Typed /\ WorkersFit
    /\ Tree /\ CachesFit /\ WantsFit /\ RacesNoted /\ FoldersKnown /\ FoldersOnce
    /\ SessionsAimed /\ StoredFits
    /\ Once /\ DataKept /\ RowsNamed /\ AbortConfined
-----------------------------------------------------------------------------
\* A set of numbers that is not empty has a least one.
LEMMA Least ==
  ASSUME NEW T, T \subseteq Nat, T # {}
  PROVE  \E m \in T : \A k \in T : m <= k
<1> DEFINE R == OpToRel(<, Nat)
<1>1. IsWellFoundedOn(R, Nat)
  BY NatLessThanWellFounded
<1>2. \A x, y \in Nat : x < y => <<x, y>> \in R
  BY DEF OpToRel
<1> HIDE DEF R
<1>3. PICK m \in T : \A y \in T : <<y, m>> \notin R
  BY <1>1, WFMin
<1>4. m \in Nat /\ \A y \in T : y \in Nat /\ ~(y < m)
  BY <1>2, <1>3
<1>5. \A y \in T : m <= y
  BY <1>4
<1> QED
  BY <1>3, <1>5

\* g has the names of the first n folders of the list fs and those above them.
IsNames(g, fs, n) == g = [f \in 0..n |-> IF f = Root THEN <<>> ELSE Append(g[fs[f].parent], fs[f].name)]

\* One step of the recursion.
LEMMA NamesStep ==
  ASSUME NEW fs, NEW n \in Nat, NEW g, IsNames(g, fs, n)
  PROVE  /\ DOMAIN g = 0..n /\ g[0] = <<>>
         /\ \A f \in 1..n : g[f] = Append(g[fs[f].parent], fs[f].name)
<1> DEFINE F == [f \in 0..n |-> IF f = Root THEN <<>> ELSE Append(g[fs[f].parent], fs[f].name)]
<1>1. g = F
  BY DEF IsNames
<1>2. DOMAIN F = 0..n /\ F[0] = <<>>
  BY DEF Root
<1>3. \A f \in 1..n : f \in 0..n /\ f # 0
  OBVIOUS
<1>4. \A f \in 1..n : F[f] = Append(g[fs[f].parent], fs[f].name)
  BY <1>3 DEF Root
<1> HIDE DEF F
<1> QED
  BY <1>1, <1>2, <1>4

\* Parents are older, so what is above a folder can be followed from the oldest on.
LEMMA NamesExist ==
  ASSUME NEW fs, Len(fs) \in Nat, DOMAIN fs = 1..Len(fs), Rooted(fs), NEW n \in 0..Len(fs)
  PROVE  \E g : IsNames(g, fs, n)
<1> DEFINE T == {m \in 0..n : ~\E g : IsNames(g, fs, m)}
<1> SUFFICES ASSUME T # {} PROVE FALSE
  <2>1. n \in 0..n
    OBVIOUS
  <2> QED
    BY <2>1
<1>1. n \in Nat /\ T \subseteq Nat
  OBVIOUS
<1>2. PICK m \in T : \A k \in T : m <= k
  <2> HIDE DEF T
  <2> QED
    BY <1>1, Least
<1>3. m \in 0..n /\ ~\E g : IsNames(g, fs, m)
  OBVIOUS
<1>4. m # 0
  <2> DEFINE g == [f \in 0..0 |-> <<>>]
  <2>1. \A f \in 0..0 : f = Root
    BY DEF Root
  <2>2. g = [f \in 0..0 |-> IF f = Root THEN <<>> ELSE Append(g[fs[f].parent], fs[f].name)]
    BY <2>1
  <2> HIDE DEF g
  <2>3. IsNames(g, fs, 0)
    BY <2>2 DEF IsNames
  <2> QED
    BY <1>3, <2>3
<1>5. m - 1 \in 0..n /\ m - 1 \notin T /\ m \in 1..n /\ m - 1 \in Nat
  <2>1. m - 1 \in 0..n /\ m \in 1..n /\ m - 1 \in Nat /\ ~(m <= m - 1)
    BY <1>1, <1>3, <1>4
  <2> HIDE DEF T
  <2> QED
    BY <1>2, <2>1
<1>6. PICK h : IsNames(h, fs, m - 1)
  BY <1>5
<1> HIDE DEF T
<1> DEFINE g == [f \in 0..m |-> IF f = m THEN Append(h[fs[m].parent], fs[m].name) ELSE h[f]]
<1>7. DOMAIN h = 0..(m - 1) /\ h[0] = <<>> /\ \A f \in 1..(m - 1) : h[f] = Append(h[fs[f].parent], fs[f].name)
  BY <1>5, <1>6, NamesStep
<1>8. \A f \in 1..m : f \in DOMAIN fs /\ fs[f].parent \in 0 .. f - 1
  BY <1>3, <1>5 DEF Rooted
<1>9. ASSUME NEW f \in 0..m PROVE g[f] = IF f = Root THEN <<>> ELSE Append(g[fs[f].parent], fs[f].name)
  <2>1. CASE f = 0
    <3>1. 0 # m
      BY <1>5
    <3> QED
      BY <1>7, <2>1, <3>1 DEF Root
  <2>2. CASE f # 0
    <3>1. f \in 1..m /\ fs[f].parent \in 0 .. f - 1
      BY <1>8, <2>2, <1>5
    <3>2. fs[f].parent \in 0..m /\ fs[f].parent # m
      BY <3>1, <1>5
    <3>3. g[fs[f].parent] = h[fs[f].parent]
      BY <3>2
    <3>4. f = m \/ f \in 1..(m - 1)
      BY <3>1, <1>5
    <3> HIDE DEF g
    <3>5. g[f] = Append(h[fs[f].parent], fs[f].name)
      <4>1. g[f] = IF f = m THEN Append(h[fs[m].parent], fs[m].name) ELSE h[f]
        BY DEF g
      <4> QED
        BY <1>7, <3>4, <4>1
    <3> QED
      BY <2>2, <3>3, <3>5 DEF Root
  <2> QED
    BY <2>1, <2>2
<1>10. IsNames(g, fs, m)
  <2>1. g = [f \in 0..m |-> g[f]]
    OBVIOUS
  <2> HIDE DEF g
  <2> DEFINE G(f) == IF f = Root THEN <<>> ELSE Append(g[fs[f].parent], fs[f].name)
  <2>2. \A f \in 0..m : g[f] = G(f)
    BY <1>9
  <2> HIDE DEF G
  <2>3. g = [f \in 0..m |-> G(f)]
    BY <2>1, <2>2
  <2> QED
    BY <2>3 DEF IsNames, G
<1> QED
  BY <1>3, <1>10

Alike(fs, hs, n, m) == n \in Nat /\ m \in Nat /\ n <= m /\ \A f \in 1..n : fs[f].parent \in 0 .. f - 1 /\ hs[f] = fs[f]

\* Lists with the same first folders give them the same names.
LEMMA NamesAgree ==
  ASSUME NEW fs, NEW hs, NEW n, NEW m, NEW g, NEW h,
         Alike(fs, hs, n, m), IsNames(g, fs, n), IsNames(h, hs, m)
  PROVE  \A f \in 0..n : g[f] = h[f]
<1>0. n \in Nat /\ m \in Nat /\ n <= m /\ \A f \in 1..n : fs[f].parent \in 0 .. f - 1 /\ hs[f] = fs[f]
  BY DEF Alike
<1> DEFINE T == {f \in 0..n : g[f] # h[f]}
<1> SUFFICES ASSUME T # {} PROVE FALSE
  OBVIOUS
<1>1. T \subseteq Nat
  BY <1>0
<1>2. PICK k \in T : \A j \in T : k <= j
  <2> HIDE DEF T
  <2> QED
    BY <1>1, Least
<1>3. k \in 0..n /\ g[k] # h[k]
  OBVIOUS
<1>4. /\ g[0] = <<>> /\ h[0] = <<>>
      /\ \A f \in 1..n : g[f] = Append(g[fs[f].parent], fs[f].name)
      /\ \A f \in 1..m : h[f] = Append(h[hs[f].parent], hs[f].name)
  BY <1>0, NamesStep
<1>5. k \in 1..n /\ k \in 1..m
  <2>1. k # 0
    BY <1>3, <1>4
  <2> QED
    BY <1>0, <1>3, <2>1
<1>6. fs[k].parent \in 0 .. k - 1 /\ hs[k] = fs[k]
  BY <1>0, <1>5
<1>7. fs[k].parent \in 0..n /\ ~(k <= fs[k].parent)
  BY <1>0, <1>5, <1>6
<1>8. fs[k].parent \notin T
  <2> HIDE DEF T
  <2> QED
    BY <1>2, <1>7
<1>9. g[fs[k].parent] = h[fs[k].parent]
  BY <1>7, <1>8
<1> QED
  BY <1>3, <1>4, <1>5, <1>6, <1>9

LEMMA NamesAre ==
  ASSUME Len(folders) \in Nat, DOMAIN folders = 1..Len(folders), Rooted(folders)
  PROVE  IsNames(NamesOf, folders, Len(folders))
<1> DEFINE P(g) == IsNames(g, folders, Len(folders))
<1>1. \E g : P(g)
  <2>1. Len(folders) \in 0..Len(folders)
    OBVIOUS
  <2> QED
    BY <2>1, NamesExist
<1>2. P(CHOOSE g : P(g))
  <2> HIDE DEF P
  <2> QED
    BY <1>1
<1>3. NamesOf = CHOOSE g : P(g)
  BY DEF NamesOf, IsNames
<1> HIDE DEF P
<1>4. P(NamesOf)
  BY <1>2, <1>3
<1> QED
  BY <1>4 DEF P

LEMMA NamesAreNext ==
  ASSUME Len(folders') \in Nat, DOMAIN (folders') = 1..Len(folders'), Rooted(folders')
  PROVE  IsNames(NamesOf', folders', Len(folders'))
<1> DEFINE P(g) == IsNames(g, folders', Len(folders'))
<1>1. \E g : P(g)
  <2>1. Len(folders') \in 0..Len(folders')
    OBVIOUS
  <2> QED
    BY <2>1, NamesExist
<1>2. P(CHOOSE g : P(g))
  <2> HIDE DEF P
  <2> QED
    BY <1>1
<1>3. NamesOf' = CHOOSE g : P(g)
  BY DEF NamesOf, IsNames
<1> HIDE DEF P
<1>4. P(NamesOf')
  BY <1>2, <1>3
<1> QED
  BY <1>4 DEF P

-----------------------------------------------------------------------------
\* Workers belong to one queue each.
LEMMA AgentFacts ==
  /\ \A w \in Agents : w[1] \in Queues /\ w \in Workers(w[1])
  /\ \A d \in Queues : \A w \in Workers(d) : w \in Agents /\ w[1] = d
  /\ Nobody \notin Agents /\ Nobody \notin Items /\ ResumeDrop \in Queues /\ ResumeDrop \notin Drops
  /\ Drops \subseteq Queues /\ Queues = Drops \cup {ResumeDrop}
<1>1. \A d : \A w \in Workers(d) : w[1] = d
  BY DEF Workers
<1>2. ASSUME NEW w \in Agents PROVE w[1] \in Queues /\ w \in Workers(w[1])
  <2>1. PICK d \in Queues : w \in Workers(d)
    BY DEF Agents
  <2> QED
    BY <1>1, <2>1
<1>3. \A d \in Queues : \A w \in Workers(d) : w \in Agents
  BY DEF Agents
<1>4. Nobody \notin Agents /\ Nobody \notin Items
  BY NullAssumption
<1>5. ResumeDrop \in Queues /\ ResumeDrop \notin Drops /\ Drops \subseteq Queues
  BY DropsAssumption DEF Queues, ResumeDrop
<1> QED
  BY <1>1, <1>2, <1>3, <1>4, <1>5 DEF Queues

\* The paths above a file, one folder after the other.
LEMMA PathFacts ==
  ASSUME NEW i \in Items
  PROVE  /\ Len(PathOf[i]) \in Nat /\ DOMAIN PathOf[i] = 1..Len(PathOf[i])
         /\ \A n \in DOMAIN PathOf[i] : PathOf[i][n] \in FolderNames
         /\ Path(i, 0) = <<>> /\ Path(i, Len(PathOf[i])) = PathOf[i]
         /\ \A n \in DOMAIN PathOf[i] : Append(Path(i, n - 1), PathOf[i][n]) = Path(i, n)
         /\ \A n \in 0..Len(PathOf[i]) : Path(i, n) \in Paths
<1> DEFINE s == PathOf[i]
<1>1. s \in Seq(FolderNames)
  BY ItemsAssumption
<1>2. \A n \in 0..Len(s) : Path(i, n) \in Paths
  BY DEF Paths, Path
<1> HIDE DEF s
<1>3. Len(s) \in Nat /\ DOMAIN s = 1..Len(s) /\ \A n \in DOMAIN s : s[n] \in FolderNames
  BY <1>1
<1>4. SubSeq(s, 1, 0) = <<>> /\ SubSeq(s, 1, Len(s)) = s
  BY <1>1
<1>5. ASSUME NEW n \in DOMAIN s PROVE Append(SubSeq(s, 1, n - 1), s[n]) = SubSeq(s, 1, n)
  <2> DEFINE a == Append(SubSeq(s, 1, n - 1), s[n])
             b == SubSeq(s, 1, n)
  <2>1. n \in 1..Len(s)
    BY <1>3
  <2>2. /\ SubSeq(s, 1, n - 1) \in Seq(FolderNames) /\ Len(SubSeq(s, 1, n - 1)) = n - 1
        /\ \A k \in 1 .. n - 1 : SubSeq(s, 1, n - 1)[k] = s[k]
    BY <1>1, <2>1
  <2>3. /\ b \in Seq(FolderNames) /\ Len(b) = n /\ \A k \in 1..n : b[k] = s[k]
    BY <1>1, <2>1
  <2>4. a \in Seq(FolderNames) /\ Len(a) = n /\ a[n] = s[n] /\ \A k \in 1 .. n - 1 : a[k] = s[k]
    <3>1. s[n] \in FolderNames
      BY <1>3
    <3> QED
      BY <2>1, <2>2, <3>1
  <2> HIDE DEF a, b
  <2>5. \A k \in 1..n : a[k] = b[k]
    <3>1. \A k \in 1..n : k = n \/ k \in 1 .. n - 1
      BY <2>1
    <3> QED
      BY <2>1, <2>3, <2>4, <3>1
  <2>6. a = b
    BY <2>3, <2>4, <2>5
  <2> QED
    BY <2>6 DEF a, b
<1> QED
  BY <1>2, <1>3, <1>4, <1>5 DEF s, Path

-----------------------------------------------------------------------------
\* The names of the folders there are, and that they stay when one is added.
LEMMA NamesFacts ==
  ASSUME Typed, Tree
  PROVE  /\ Len(folders) \in Nat /\ DOMAIN folders = 1..Len(folders)
         /\ \A f \in DOMAIN folders : folders[f] \in FolderRecs
         /\ NamesOf[Root] = <<>>
         /\ \A f \in DOMAIN folders : /\ folders[f].parent \in 0..Len(folders)
                                      /\ NamesOf[f] = Append(NamesOf[folders[f].parent], folders[f].name)
<1>1. folders \in Seq(FolderRecs)
  BY DEF Typed
<1>2. Len(folders) \in Nat /\ DOMAIN folders = 1..Len(folders) /\ \A f \in DOMAIN folders : folders[f] \in FolderRecs
  BY <1>1
<1>3. IsNames(NamesOf, folders, Len(folders))
  BY <1>2, NamesAre DEF Tree
<1>4. NamesOf[0] = <<>> /\ \A f \in 1..Len(folders) : NamesOf[f] = Append(NamesOf[folders[f].parent], folders[f].name)
  BY <1>2, <1>3, NamesStep
<1>5. ASSUME NEW f \in DOMAIN folders PROVE folders[f].parent \in 0..Len(folders)
  <2>1. folders[f].parent \in 0 .. f - 1
    BY DEF Tree, Rooted
  <2> QED
    BY <1>2, <2>1
<1> QED
  BY <1>2, <1>4, <1>5 DEF Root

\* No folder goes or changes.
Grows ==
    /\ folders' \in Seq(FolderRecs) /\ Rooted(folders')
    /\ Len(folders') \in Nat /\ DOMAIN (folders') = 1..Len(folders')
    /\ \A f \in 0..Len(folders) : f \in 0..Len(folders') /\ NamesOf'[f] = NamesOf[f]
    /\ \A f \in DOMAIN folders : f \in DOMAIN (folders') /\ (folders')[f] = folders[f]

LEMMA FoldersStay ==
  ASSUME Typed, Tree, UNCHANGED folders
  PROVE  Grows /\ NamesOf' = NamesOf
<1>1. NamesOf' = NamesOf
  BY DEF NamesOf
<1>2. Len(folders) \in Nat /\ DOMAIN folders = 1..Len(folders)
  BY NamesFacts
<1>3. folders \in Seq(FolderRecs) /\ Rooted(folders)
  BY DEF Typed, Tree
<1> QED
  BY <1>1, <1>2, <1>3 DEF Grows

LEMMA FolderAdded ==
  ASSUME Typed, Tree, NEW r \in FolderRecs, r.parent \in 0..Len(folders), folders' = Append(folders, r)
  PROVE  /\ Grows
         /\ Len(folders') = Len(folders) + 1 /\ (folders')[Len(folders')] = r
         /\ NamesOf'[Len(folders')] = Append(NamesOf[r.parent], r.name)
<1> DEFINE n == Len(folders)
<1>1. n \in Nat /\ DOMAIN folders = 1..n /\ folders \in Seq(FolderRecs)
  BY NamesFacts DEF Typed
<1>2. /\ folders' \in Seq(FolderRecs) /\ Len(folders') = n + 1 /\ DOMAIN (folders') = 1..(n + 1)
      /\ (folders')[n + 1] = r /\ \A f \in DOMAIN folders : (folders')[f] = folders[f]
  BY <1>1
<1> HIDE DEF n
<1>3. Rooted(folders')
  <2> SUFFICES ASSUME NEW f \in DOMAIN (folders') PROVE (folders')[f].parent \in 0 .. f - 1
    BY DEF Rooted
  <2>1. CASE f = n + 1
    BY <1>1, <1>2, <2>1 DEF n
  <2>2. CASE f # n + 1
    <3>1. f \in DOMAIN folders
      BY <1>1, <1>2, <2>2
    <3> QED
      BY <1>2, <3>1 DEF Tree, Rooted
  <2> QED
    BY <2>1, <2>2
<1>4. IsNames(NamesOf, folders, n)
  BY <1>1, NamesAre DEF Tree, n
<1>5. IsNames(NamesOf', folders', n + 1)
  <2>1. Len(folders') \in Nat /\ DOMAIN (folders') = 1..Len(folders')
    BY <1>1, <1>2
  <2>2. IsNames(NamesOf', folders', Len(folders'))
    BY <1>3, <2>1, NamesAreNext
  <2> QED
    BY <1>2, <2>2
<1>6. \A f \in 1..n : folders[f].parent \in 0 .. f - 1 /\ (folders')[f] = folders[f]
  BY <1>1, <1>2 DEF Tree, Rooted
<1>7. \A f \in 0..n : NamesOf[f] = NamesOf'[f]
  <2>1. PICK m : m = n + 1
    OBVIOUS
  <2>2. Alike(folders, folders', n, m)
    BY <1>1, <1>6, <2>1 DEF Alike
  <2>3. IsNames(NamesOf', folders', m)
    BY <1>5, <2>1
  <2> QED
    BY <1>4, <2>2, <2>3, NamesAgree
<1>8. NamesOf'[n + 1] = Append(NamesOf'[r.parent], r.name)
  <2>1. n + 1 \in Nat /\ n + 1 \in 1..(n + 1)
    BY <1>1
  <2>2. NamesOf'[n + 1] = Append(NamesOf'[(folders')[n + 1].parent], (folders')[n + 1].name)
    BY <1>5, <2>1, NamesStep
  <2> QED
    BY <1>2, <2>2
<1>9. NamesOf'[r.parent] = NamesOf[r.parent]
  BY <1>7 DEF n
<1>10. \A f \in 0..n : f \in 0..(n + 1)
  BY <1>1
<1>11. n + 1 \in Nat
  BY <1>1
<1>12. \A f \in DOMAIN folders : f \in DOMAIN (folders')
  BY <1>1, <1>2
<1>13. Grows
  BY <1>2, <1>3, <1>7, <1>10, <1>11, <1>12 DEF Grows, n
<1> QED
  BY <1>2, <1>8, <1>9, <1>13 DEF n

-----------------------------------------------------------------------------
\* What the parts of the steps do to the workers, the queues and the rows.
LEMMA GotoFacts ==
  ASSUME Typed, NEW w \in Agents, NEW s \in Steps, Goto(w, s)
  PROVE  /\ work' \in [Agents -> WorkRecs]
         /\ \A v \in Agents : v # w => work'[v] = work[v]
         /\ work'[w].pc = s /\ work'[w].item = work[w].item
         /\ work'[w].depth = work[w].depth /\ work'[w].folder = work[w].folder
<1>1. work \in [Agents -> WorkRecs] /\ work[w] \in WorkRecs
  BY DEF Typed
<1>2. work' = [work EXCEPT ![w].pc = s]
  BY DEF Goto
<1>3. [work[w] EXCEPT !.pc = s] \in WorkRecs
  BY <1>1 DEF WorkRecs
<1>4. work'[w] = [work[w] EXCEPT !.pc = s]
  BY <1>1, <1>2
<1>5. work' \in [Agents -> WorkRecs] /\ \A v \in Agents : v # w => work'[v] = work[v]
  BY <1>1, <1>2, <1>3
<1>6. /\ work'[w].pc = s /\ work'[w].item = work[w].item
      /\ work'[w].depth = work[w].depth /\ work'[w].folder = work[w].folder
  BY <1>1, <1>4 DEF WorkRecs
<1> QED
  BY <1>5, <1>6

LEMMA SetRowFacts ==
  ASSUME Typed, NEW i, NEW s \in Statuses, SetRow(i, s)
  PROVE  /\ rows' = [j \in DOMAIN rows' |-> rows'[j]]
         /\ DOMAIN rows' = DOMAIN rows /\ \A j \in DOMAIN rows' : rows'[j] \in RowRecs
         /\ \A j \in DOMAIN rows : rows'[j].session = rows[j].session
         /\ \A j \in DOMAIN rows : rows'[j].status = IF j = i THEN s ELSE rows[j].status
<1>1. rows = [j \in DOMAIN rows |-> rows[j]] /\ \A j \in DOMAIN rows : rows[j] \in RowRecs
  BY DEF Typed
<1>2. CASE i \notin DOMAIN rows
  <2>1. rows' = rows
    BY <1>2 DEF SetRow
  <2> QED
    BY <1>1, <1>2, <2>1
<1>3. CASE i \in DOMAIN rows
  <2>1. rows' = [rows EXCEPT ![i].status = s]
    BY <1>3 DEF SetRow
  <2>2. [rows[i] EXCEPT !.status = s] \in RowRecs
    BY <1>1, <1>3 DEF RowRecs
  <2>3. DOMAIN rows' = DOMAIN rows /\ rows'[i] = [rows[i] EXCEPT !.status = s]
        /\ \A j \in DOMAIN rows : j # i => rows'[j] = rows[j]
    BY <1>3, <2>1
  <2>4. rows'[i].session = rows[i].session /\ rows'[i].status = s
    BY <1>1, <1>3, <2>3 DEF RowRecs
  <2>5. \A j \in DOMAIN rows' : rows'[j] \in RowRecs
    BY <1>1, <2>2, <2>3
  <2>6. rows' = [j \in DOMAIN rows' |-> rows'[j]]
    BY <2>1
  <2> QED
    BY <2>3, <2>4, <2>5, <2>6
<1> QED
  BY <1>2, <1>3

\* The worker goes on with the next file of its queue.
TakesNext(w) ==
    /\ work' = [work EXCEPT ![w] = Shifted(w[1])]
    /\ todo' = [todo EXCEPT ![w[1]] = IF @ = <<>> THEN @ ELSE Tail(@)]

LEMMA TakesNextFacts ==
  ASSUME Typed, NEW w \in Agents, TakesNext(w)
  PROVE  /\ work' \in [Agents -> WorkRecs] /\ todo' \in [Queues -> Seq(Items)]
         /\ \A v \in Agents : v # w => work'[v] = work[v]
         /\ work'[w].folder = Root
         /\ \A d \in Queues : d # w[1] => todo'[d] = todo[d]
         /\ \/ work'[w].pc = "done" /\ work'[w].item = Nobody /\ todo' = todo
            \/ /\ 1 \in DOMAIN todo[w[1]] /\ work'[w].item = todo[w[1]][1]
               /\ work'[w].pc = IF w[1] = ResumeDrop THEN "sending" ELSE "folders"
               /\ \A n \in DOMAIN todo'[w[1]] : n + 1 \in DOMAIN todo[w[1]] /\ n + 1 # 1
                                                /\ todo'[w[1]][n] = todo[w[1]][n + 1]
<1> DEFINE d == w[1]
           q == todo[d]
<1>1. d \in Queues /\ work \in [Agents -> WorkRecs] /\ todo \in [Queues -> Seq(Items)] /\ q \in Seq(Items)
  BY AgentFacts DEF Typed
<1>2. work'[w] = Shifted(d) /\ (\A v \in Agents : v # w => work'[v] = work[v]) /\ DOMAIN work' = Agents
      /\ work' = [v \in Agents |-> work'[v]]
  BY <1>1 DEF TakesNext
<1>3. todo'[d] = (IF q = <<>> THEN q ELSE Tail(q)) /\ \A e \in Queues : e # d => todo'[e] = todo[e]
  BY <1>1 DEF TakesNext
<1>4. CASE q = <<>>
  <2>1. todo' = todo
    BY <1>1, <1>4 DEF TakesNext
  <2>2. work'[w] = [Idle EXCEPT !.pc = "done"]
    BY <1>2, <1>4 DEF Shifted
  <2>3. work'[w] \in WorkRecs /\ work'[w].pc = "done" /\ work'[w].item = Nobody /\ work'[w].folder = Root
    BY <2>2 DEF Idle, WorkRecs, Steps, Root
  <2>4. work' \in [Agents -> WorkRecs]
    BY <1>1, <1>2, <2>3
  <2> QED
    BY <1>1, <1>2, <1>3, <2>1, <2>3, <2>4
<1>5. CASE q # <<>>
  <2>1. Head(q) = q[1] /\ 1 \in DOMAIN q /\ q[1] \in Items /\ Tail(q) \in Seq(Items)
        /\ \A n \in DOMAIN Tail(q) : n + 1 \in DOMAIN q /\ n + 1 # 1 /\ Tail(q)[n] = q[n + 1]
    BY <1>1, <1>5
  <2>2. work'[w] = [Idle EXCEPT !.pc = IF d = ResumeDrop THEN "sending" ELSE "folders", !.item = Head(q)]
    BY <1>2, <1>5 DEF Shifted
  <2>3. /\ work'[w] \in WorkRecs /\ work'[w].pc = IF d = ResumeDrop THEN "sending" ELSE "folders"
        /\ work'[w].item = q[1] /\ work'[w].folder = Root
    <3> DEFINE p == IF d = ResumeDrop THEN "sending" ELSE "folders"
    <3>1. p \in Steps
      BY DEF Steps
    <3> HIDE DEF p, d, q
    <3>2. work'[w] = [pc |-> p, item |-> q[1], depth |-> 0, folder |-> 0]
      BY <2>1, <2>2 DEF Idle, Root, p
    <3>3. work'[w] \in WorkRecs
      BY <2>1, <3>1, <3>2 DEF WorkRecs
    <3> QED
      BY <3>2, <3>3 DEF Root, p
  <2>4. work' \in [Agents -> WorkRecs]
    BY <1>1, <1>2, <2>3
  <2>5. todo' \in [Queues -> Seq(Items)]
    BY <1>1, <1>5, <2>1 DEF TakesNext
  <2> QED
    BY <1>1, <1>2, <1>3, <1>5, <2>1, <2>3, <2>4, <2>5
<1> QED
  BY <1>4, <1>5

LEMMA NextItemTakes ==
  ASSUME NEW w, NEW s, NextItem(w, s)
  PROVE  TakesNext(w) /\ SetRow(Item(w), s) /\ UNCHANGED <<phase, cache, dialog, listing>>
  BY DEF NextItem, TakesNext

\* ensureFolderExists goes down to the first folder that the cache has not, or to the end.
HashesNext(w, g) ==
    /\ work' = [work EXCEPT ![w].pc = "hashing", ![w].folder = g]
    /\ SetRow(Item(w), "hashing")
    /\ UNCHANGED doubled

CreatesNext(w, n, g) ==
    /\ work' = [work EXCEPT ![w].pc = "creating", ![w].depth = n, ![w].folder = g]
    /\ doubled' = IF Racing(w, Path(Item(w), n)) THEN doubled \cup {<<w[1], Path(Item(w), n)>>} ELSE doubled
    /\ UNCHANGED rows

LEMMA DescendFacts ==
  ASSUME NEW w, NEW c, NEW f, Item(w) \in Items, NEW k \in 0..Len(PathOf[Item(w)]), Descend(w, c, f, k)
  PROVE  LET i == Item(w)
             From(n) == IF n = k THEN f ELSE c[Path(i, n)]
         IN  \/ /\ HashesNext(w, From(Len(PathOf[i])))
                /\ \A n \in k + 1 .. Len(PathOf[i]) : Path(i, n) \in DOMAIN c
             \/ \E n \in k + 1 .. Len(PathOf[i]) :
                  /\ CreatesNext(w, n, From(n - 1))
                  /\ Path(i, n) \notin DOMAIN c
                  /\ \A m \in k + 1 .. n - 1 : Path(i, m) \in DOMAIN c
<1> DEFINE i == Item(w)
           From(n) == IF n = k THEN f ELSE c[Path(i, n)]
           missing == {n \in k + 1 .. Len(PathOf[i]) : Path(i, n) \notin DOMAIN c}
           first == CHOOSE n \in missing : \A m \in missing : n <= m
<1>1. CASE missing = {}
  <2>1. HashesNext(w, From(Len(PathOf[i])))
    BY <1>1 DEF Descend, HashesNext
  <2> QED
    BY <1>1, <2>1
<1>2. CASE missing # {}
  <2>1. CreatesNext(w, first, From(first - 1))
    BY <1>2 DEF Descend, CreatesNext
  <2>2. missing \subseteq Nat
    <3>1. Len(PathOf[i]) \in Nat
      BY PathFacts
    <3> QED
      BY <3>1
  <2>3. \E n \in missing : \A m \in missing : n <= m
    <3> HIDE DEF missing
    <3> QED
      BY <1>2, <2>2, Least
  <2>4. first \in missing /\ \A m \in missing : first <= m
    <3> HIDE DEF missing
    <3> QED
      BY <2>3
  <2> HIDE DEF first
  <2>5. \A m \in k + 1 .. first - 1 : Path(i, m) \in DOMAIN c
    <3> SUFFICES ASSUME NEW m \in k + 1 .. first - 1, Path(i, m) \notin DOMAIN c PROVE FALSE
      OBVIOUS
    <3>1. first \in Nat /\ Len(PathOf[i]) \in Nat /\ first <= Len(PathOf[i])
      BY <2>2, <2>4, PathFacts
    <3>2. m \in k + 1 .. Len(PathOf[i]) /\ ~(first <= m)
      BY <3>1
    <3> QED
      BY <2>4, <3>2
  <2> QED
    BY <2>1, <2>4, <2>5
<1> QED
  BY <1>1, <1>2

-----------------------------------------------------------------------------
\* Who is at work has a file, and who has stored something of it a large one.
LEMMA BusyFacts ==
  ASSUME Typed, WorkersFit, NEW w \in Agents, work[w].pc \notin Off
  PROVE  /\ work[w] \in WorkRecs /\ Item(w) \in Items
         /\ work[w].pc \in Late => Item(w) \in Large
         /\ work[w].pc \in Early \cup {"saving", "savingChunks"} => w[1] \in Drops
<1>1. work[w] \in WorkRecs
  BY DEF Typed
<1>2. work[w].item # Nobody /\ work[w].item \in Items \cup {Nobody}
  BY <1>1 DEF WorkersFit, WorkRecs
<1> QED
  BY <1>1, <1>2 DEF WorkersFit, Item

\* What a step writes into a session.
LEMMA StateFacts ==
  ASSUME Typed, NEW i \in Large, NEW s \in {"none", "pending", "completed", "aborted"},
         session' = [session EXCEPT ![i].state = s]
  PROVE  /\ session' \in [Large -> SessionRecs]
         /\ session'[i].state = s /\ session'[i].parts = session[i].parts /\ session'[i].folder = session[i].folder
         /\ \A j \in Large : j # i => session'[j] = session[j]
<1>1. session \in [Large -> SessionRecs] /\ session[i] \in SessionRecs
  BY DEF Typed
<1>2. session'[i] = [session[i] EXCEPT !.state = s]
  BY <1>1
<1>3. session'[i] \in SessionRecs /\ session'[i].state = s
      /\ session'[i].parts = session[i].parts /\ session'[i].folder = session[i].folder
  BY <1>1, <1>2 DEF SessionRecs
<1> QED
  BY <1>1, <1>3

LEMMA PartsFacts ==
  ASSUME Typed, NEW i \in Large, NEW p \in Parts, session' = [session EXCEPT ![i].parts = @ \cup {p}]
  PROVE  /\ session' \in [Large -> SessionRecs]
         /\ session'[i].state = session[i].state /\ session'[i].parts = session[i].parts \cup {p}
         /\ session'[i].folder = session[i].folder
         /\ \A j \in Large : j # i => session'[j] = session[j]
<1>1. session \in [Large -> SessionRecs] /\ session[i] \in SessionRecs
  BY DEF Typed
<1>2. session'[i] = [session[i] EXCEPT !.parts = @ \cup {p}]
  BY <1>1
<1>3. session'[i] \in SessionRecs /\ session'[i].state = session[i].state
      /\ session'[i].parts = session[i].parts \cup {p} /\ session'[i].folder = session[i].folder
  BY <1>1, <1>2 DEF SessionRecs
<1> QED
  BY <1>1, <1>3

LEMMA BegunFacts ==
  ASSUME Typed, NEW i \in Large, NEW f \in Nat,
         session' = [session EXCEPT ![i].state = "pending", ![i].folder = f]
  PROVE  /\ session' \in [Large -> SessionRecs]
         /\ session'[i].state = "pending" /\ session'[i].folder = f
         /\ \A j \in Large : j # i => session'[j] = session[j]
<1>1. session \in [Large -> SessionRecs] /\ session[i] \in SessionRecs
  BY DEF Typed
<1>2. session'[i] = [session[i] EXCEPT !.state = "pending", !.folder = f]
  BY <1>1
<1>3. session'[i] \in SessionRecs /\ session'[i].state = "pending" /\ session'[i].folder = f
  BY <1>1, <1>2 DEF SessionRecs
<1> QED
  BY <1>1, <1>3

\* What the steps do to the sessions: nothing; a part more; the end of one that is complete;
\* an abort; or the first step of a file that is being uploaded.
Grew(i, p) == session' = [session EXCEPT ![i].parts = @ \cup {p}]
Ended(i) == session[i].state = "pending" /\ session[i].parts = Parts
            /\ session' = [session EXCEPT ![i].state = "completed"]
Cut(i) ==
    /\ session[i].state = "pending" /\ session' = [session EXCEPT ![i].state = "aborted"]
    /\ \E j \in DOMAIN rows : rows[j].session = i /\ cancelled' = cancelled \cup {j}
Begun(i, f) == session' = [session EXCEPT ![i].state = "pending", ![i].folder = f]
Known(i) == session' = [session EXCEPT ![i].state = "pending"]
SessionsStep ==
    \/ UNCHANGED session
    \/ \E i \in Large, p \in Parts : Grew(i, p)
    \/ \E i \in Large : Ended(i) \/ Cut(i)

\* Such a step ends pending sessions, begins none and leaves every folder.
LEMMA SessionsStepFacts ==
  ASSUME Typed, SessionsStep
  PROVE  /\ session' \in [Large -> SessionRecs]
         /\ \A i \in Large : session'[i].folder = session[i].folder
         /\ \A i \in Large : session'[i].state = "none" <=> session[i].state = "none"
         /\ \A i \in Large : session'[i].state = "pending" => session[i].state = "pending"
         /\ \A i \in Large : session'[i].state = "completed" => session'[i].parts = Parts
<1>1. session \in [Large -> SessionRecs] /\ \A i \in Large : session[i].state = "completed" => session[i].parts = Parts
  BY DEF Typed
<1>2. CASE UNCHANGED session
  BY <1>1, <1>2
<1>3. CASE \E i \in Large, p \in Parts : Grew(i, p)
  <2>1. PICK i \in Large, p \in Parts : session' = [session EXCEPT ![i].parts = @ \cup {p}]
    BY <1>3 DEF Grew
  <2>2. /\ session' \in [Large -> SessionRecs]
        /\ session'[i].state = session[i].state /\ session'[i].parts = session[i].parts \cup {p}
        /\ session'[i].folder = session[i].folder
        /\ \A j \in Large : j # i => session'[j] = session[j]
    BY <2>1, PartsFacts
  <2>3. session[i].state = "completed" => session'[i].parts = Parts
    BY <1>1, <2>2
  <2> QED
    BY <1>1, <2>2, <2>3
<1>4. CASE \E i \in Large : Ended(i)
  <2>1. PICK i \in Large : Ended(i)
    BY <1>4
  <2>2. /\ session' \in [Large -> SessionRecs]
        /\ session'[i].state = "completed" /\ session'[i].parts = session[i].parts
        /\ session'[i].folder = session[i].folder
        /\ \A j \in Large : j # i => session'[j] = session[j]
    BY <2>1, StateFacts DEF Ended
  <2> QED
    BY <1>1, <2>1, <2>2 DEF Ended
<1>5. CASE \E i \in Large : Cut(i)
  <2>1. PICK i \in Large : Cut(i)
    BY <1>5
  <2>2. /\ session' \in [Large -> SessionRecs]
        /\ session'[i].state = "aborted" /\ session'[i].parts = session[i].parts
        /\ session'[i].folder = session[i].folder
        /\ \A j \in Large : j # i => session'[j] = session[j]
    BY <2>1, StateFacts DEF Cut
  <2> QED
    BY <1>1, <2>1, <2>2 DEF Cut
<1> QED
  BY <1>2, <1>3, <1>4, <1>5 DEF SessionsStep

\* A file that is being uploaded and unknown to the server gets its session.
LEMMA FirstFacts ==
  ASSUME Typed, NEW i \in Large, NEW f \in Nat, Begun(i, f) \/ Known(i)
  PROVE  /\ session' \in [Large -> SessionRecs]
         /\ session'[i].state = "pending"
         /\ session'[i].folder = IF Begun(i, f) THEN f ELSE session[i].folder
         /\ \A j \in Large : j # i => session'[j] = session[j]
         /\ \A j \in Large : session'[j].state = "completed" => session'[j].parts = Parts
<1>1. \A j \in Large : session[j].state = "completed" => session[j].parts = Parts
  BY DEF Typed
<1>2. CASE Begun(i, f)
  <2>1. /\ session' \in [Large -> SessionRecs]
        /\ session'[i].state = "pending" /\ session'[i].folder = f
        /\ \A j \in Large : j # i => session'[j] = session[j]
    BY <1>2, BegunFacts DEF Begun
  <2> QED
    BY <1>1, <1>2, <2>1
<1>3. CASE Known(i) /\ ~Begun(i, f)
  <2>1. /\ session' \in [Large -> SessionRecs]
        /\ session'[i].state = "pending" /\ session'[i].folder = session[i].folder
        /\ \A j \in Large : j # i => session'[j] = session[j]
    BY <1>3, StateFacts DEF Known
  <2> QED
    BY <1>1, <1>3, <2>1
<1> QED
  BY <1>2, <1>3

-----------------------------------------------------------------------------
\* A cache knows folders of its paths, when the step is over.
CacheFits(c) == \A p \in DOMAIN c : p \in Paths /\ c[p] \in DOMAIN (folders') /\ NamesOf'[c[p]] = p

\* Where ensureFolderExists leaves the worker.
Changes(w) ==
    /\ work' \in [Agents -> WorkRecs] /\ \A v \in Agents : v # w => work'[v] = work[v]
    /\ work'[w].item = work[w].item

Descended(w, c) ==
    /\ Changes(w)
    /\ work'[w].folder \in 0..Len(folders')
    /\ \/ /\ work'[w].pc = "hashing" /\ NamesOf'[work'[w].folder] = PathOf[Item(w)]
          /\ SetRow(Item(w), "hashing") /\ UNCHANGED doubled
       \/ /\ work'[w].pc = "creating" /\ work'[w].depth \in DOMAIN PathOf[Item(w)]
          /\ NamesOf'[work'[w].folder] = Path(Item(w), work'[w].depth - 1)
          /\ Path(Item(w), work'[w].depth) \notin DOMAIN c
          /\ doubled' = IF Racing(w, Path(Item(w), work'[w].depth))
                        THEN doubled \cup {<<w[1], Path(Item(w), work'[w].depth)>>} ELSE doubled
          /\ UNCHANGED rows

LEMMA HashesFacts ==
  ASSUME Typed, NEW w \in Agents, NEW g \in Nat, HashesNext(w, g)
  PROVE  Changes(w) /\ work'[w].pc = "hashing" /\ work'[w].folder = g
<1>1. work \in [Agents -> WorkRecs] /\ work[w] \in WorkRecs
  BY DEF Typed
<1>2. work' = [work EXCEPT ![w].pc = "hashing", ![w].folder = g]
  BY DEF HashesNext
<1>3. work'[w] = [work[w] EXCEPT !.pc = "hashing", !.folder = g]
  BY <1>1, <1>2
<1>4. work'[w] \in WorkRecs /\ work'[w].pc = "hashing" /\ work'[w].folder = g /\ work'[w].item = work[w].item
  BY <1>1, <1>3 DEF WorkRecs, Steps
<1>5. work' \in [Agents -> WorkRecs] /\ \A v \in Agents : v # w => work'[v] = work[v]
  BY <1>1, <1>2, <1>4
<1> QED
  BY <1>4, <1>5 DEF Changes

LEMMA CreatesFacts ==
  ASSUME Typed, NEW w \in Agents, NEW n \in Nat, NEW g \in Nat, CreatesNext(w, n, g)
  PROVE  Changes(w) /\ work'[w].pc = "creating" /\ work'[w].folder = g /\ work'[w].depth = n
<1>1. work \in [Agents -> WorkRecs] /\ work[w] \in WorkRecs
  BY DEF Typed
<1>2. work' = [work EXCEPT ![w].pc = "creating", ![w].depth = n, ![w].folder = g]
  BY DEF CreatesNext
<1>3. work'[w] = [work[w] EXCEPT !.pc = "creating", !.depth = n, !.folder = g]
  BY <1>1, <1>2
<1>4. work'[w] \in WorkRecs /\ work'[w].pc = "creating" /\ work'[w].folder = g
      /\ work'[w].depth = n /\ work'[w].item = work[w].item
  BY <1>1, <1>3 DEF WorkRecs, Steps
<1>5. work' \in [Agents -> WorkRecs] /\ \A v \in Agents : v # w => work'[v] = work[v]
  BY <1>1, <1>2, <1>4
<1> QED
  BY <1>4, <1>5 DEF Changes

LEMMA DescendFits ==
  ASSUME Typed, NEW w \in Agents, Item(w) \in Items, NEW c, CacheFits(c), NEW f,
         Len(folders') \in Nat, DOMAIN (folders') = 1..Len(folders'), f \in 0..Len(folders'),
         NEW k \in 0..Len(PathOf[Item(w)]), NamesOf'[f] = Path(Item(w), k),
         Descend(w, c, f, k)
  PROVE  Descended(w, c)
<1> DEFINE i == Item(w)
           From(n) == IF n = k THEN f ELSE c[Path(i, n)]
<1>1. /\ Len(PathOf[i]) \in Nat /\ DOMAIN PathOf[i] = 1..Len(PathOf[i]) /\ Path(i, Len(PathOf[i])) = PathOf[i]
  BY PathFacts
<1>2. \/ /\ HashesNext(w, From(Len(PathOf[i])))
         /\ \A n \in k + 1 .. Len(PathOf[i]) : Path(i, n) \in DOMAIN c
      \/ \E n \in k + 1 .. Len(PathOf[i]) :
           /\ CreatesNext(w, n, From(n - 1))
           /\ Path(i, n) \notin DOMAIN c
           /\ \A m \in k + 1 .. n - 1 : Path(i, m) \in DOMAIN c
  BY DescendFacts
<1>3. ASSUME NEW n \in k..Len(PathOf[i]), n # k => Path(i, n) \in DOMAIN c
      PROVE  From(n) \in 0..Len(folders') /\ NamesOf'[From(n)] = Path(i, n)
  BY <1>3 DEF CacheFits
<1> HIDE DEF From
<1>4. CASE /\ HashesNext(w, From(Len(PathOf[i])))
           /\ \A n \in k + 1 .. Len(PathOf[i]) : Path(i, n) \in DOMAIN c
  <2> DEFINE g == From(Len(PathOf[i]))
  <2>1. Len(PathOf[i]) \in k..Len(PathOf[i])
    BY <1>1
  <2>2. Len(PathOf[i]) # k => Path(i, Len(PathOf[i])) \in DOMAIN c
    BY <1>1, <1>4
  <2>3. g \in 0..Len(folders') /\ NamesOf'[g] = PathOf[i]
    BY <1>1, <1>3, <2>1, <2>2
  <2> HIDE DEF g
  <2>4. g \in Nat /\ HashesNext(w, g)
    BY <1>4, <2>3 DEF g
  <2>5. Changes(w) /\ work'[w].pc = "hashing" /\ work'[w].folder = g
    BY <2>4, HashesFacts
  <2> QED
    BY <2>3, <2>4, <2>5 DEF Descended, HashesNext
<1>5. CASE \E n \in k + 1 .. Len(PathOf[i]) :
             /\ CreatesNext(w, n, From(n - 1))
             /\ Path(i, n) \notin DOMAIN c
             /\ \A m \in k + 1 .. n - 1 : Path(i, m) \in DOMAIN c
  <2>1. PICK n \in k + 1 .. Len(PathOf[i]) :
             /\ CreatesNext(w, n, From(n - 1))
             /\ Path(i, n) \notin DOMAIN c
             /\ \A m \in k + 1 .. n - 1 : Path(i, m) \in DOMAIN c
    BY <1>5
  <2> DEFINE g == From(n - 1)
  <2>2. n - 1 \in k..Len(PathOf[i]) /\ n \in Nat /\ n \in 1..Len(PathOf[i])
    BY <1>1
  <2>3. n - 1 # k => Path(i, n - 1) \in DOMAIN c
    BY <1>1, <2>1, <2>2
  <2>4. g \in 0..Len(folders') /\ NamesOf'[g] = Path(i, n - 1)
    BY <1>3, <2>2, <2>3
  <2> HIDE DEF g
  <2>5. g \in Nat /\ CreatesNext(w, n, g)
    BY <2>1, <2>4 DEF g
  <2>6. Changes(w) /\ work'[w].pc = "creating" /\ work'[w].folder = g /\ work'[w].depth = n
    BY <2>2, <2>5, CreatesFacts
  <2>7. n \in DOMAIN PathOf[i]
    BY <1>1, <2>2
  <2>8. UNCHANGED rows
        /\ doubled' = IF Racing(w, Path(i, n)) THEN doubled \cup {<<w[1], Path(i, n)>>} ELSE doubled
    BY <2>5 DEF CreatesNext
  <2> QED
    BY <2>1, <2>4, <2>6, <2>7, <2>8 DEF Descended
<1> QED
  BY <1>2, <1>4, <1>5

-----------------------------------------------------------------------------
\* What holds of the folders, of what is known and wanted of them, and of what is noted.
FoldersInv == Typed /\ WorkersFit /\ Tree /\ CachesFit /\ WantsFit /\ RacesNoted /\ FoldersKnown /\ FoldersOnce

Cached(w, f) == With(cache[w[1]], Wanted(w), f)

LEMMA CachedFacts ==
  ASSUME NEW w, NEW f
  PROVE  /\ DOMAIN Cached(w, f) = DOMAIN cache[w[1]] \cup {Wanted(w)}
         /\ Cached(w, f)[Wanted(w)] = f
         /\ \A p \in DOMAIN cache[w[1]] : p # Wanted(w) => Cached(w, f)[p] = cache[w[1]][p]
  BY DEF Cached, With

\* The cache that a drop has is one of folders that stay.
LEMMA CacheStays ==
  ASSUME FoldersInv, Grows, NEW d \in Queues
  PROVE  CacheFits(cache[d])
  BY DEF FoldersInv, CachesFit, CacheFits, Grows

\* The worker in front of a folder knows the path of it.
LEMMA WantedFacts ==
  ASSUME FoldersInv, NEW w \in Agents, work[w].pc \in {"creating", "listing"}
  PROVE  /\ Item(w) \in Items /\ w[1] \in Drops /\ phase[w[1]] = "running"
         /\ work[w].depth \in DOMAIN PathOf[Item(w)] /\ work[w].depth \in 0..Len(PathOf[Item(w)])
         /\ Wanted(w) = Path(Item(w), work[w].depth) /\ Wanted(w) \in Paths
         /\ NewFolder(w) \in FolderRecs /\ NewFolder(w).parent \in 0..Len(folders)
         /\ NewFolder(w).parent = work[w].folder /\ NewFolder(w).by = w[1]
         /\ Wanted(w) = Append(NamesOf[NewFolder(w).parent], NewFolder(w).name)
<1> DEFINE i == Item(w)
           n == work[w].depth
<1>1. work[w].pc \notin Off /\ work[w].pc \in Early /\ work[w].pc # "off"
  BY DEF Off, Early
<1>2. i \in Items /\ w[1] \in Drops /\ phase[w[1]] = "running" /\ work[w] \in WorkRecs
  BY <1>1, BusyFacts DEF FoldersInv, WorkersFit
<1>3. n \in DOMAIN PathOf[i] /\ NamesOf[work[w].folder] = Path(i, n - 1) /\ work[w].folder \in 0..Len(folders)
  BY DEF FoldersInv, WantsFit, Item
<1>4. /\ Len(PathOf[i]) \in Nat /\ DOMAIN PathOf[i] = 1..Len(PathOf[i])
      /\ \A m \in DOMAIN PathOf[i] : PathOf[i][m] \in FolderNames
      /\ \A m \in DOMAIN PathOf[i] : Append(Path(i, m - 1), PathOf[i][m]) = Path(i, m)
      /\ \A m \in 0..Len(PathOf[i]) : Path(i, m) \in Paths
  BY <1>2, PathFacts
<1>5. n \in 0..Len(PathOf[i])
  BY <1>3, <1>4
<1>6. work[w].folder \in Nat
  BY <1>2 DEF WorkRecs
<1>7. NewFolder(w) \in FolderRecs
  BY <1>2, <1>3, <1>4, <1>6 DEF NewFolder, FolderRecs
<1>8. NewFolder(w).parent = work[w].folder /\ NewFolder(w).name = PathOf[i][n] /\ NewFolder(w).by = w[1]
  BY DEF NewFolder
<1> QED
  BY <1>2, <1>3, <1>4, <1>5, <1>7, <1>8 DEF Wanted

\* A folder of the wanted path goes into the cache, and ensureFolderExists goes on below it.
LEMMA EnterFits ==
  ASSUME FoldersInv, Grows, NEW w \in Agents, work[w].pc \in {"creating", "listing"},
         NEW f \in DOMAIN (folders'), NamesOf'[f] = Wanted(w), Enter(w, f)
  PROVE  /\ CacheFits(Cached(w, f)) /\ cache' = [cache EXCEPT ![w[1]] = Cached(w, f)]
         /\ Descended(w, Cached(w, f))
<1>1. /\ Item(w) \in Items /\ work[w].depth \in 0..Len(PathOf[Item(w)])
      /\ Wanted(w) = Path(Item(w), work[w].depth) /\ Wanted(w) \in Paths
  BY WantedFacts
<1>2. CacheFits(cache[w[1]])
  BY CacheStays, AgentFacts
<1>3. CacheFits(Cached(w, f))
  <2> SUFFICES ASSUME NEW p \in DOMAIN Cached(w, f)
               PROVE  p \in Paths /\ Cached(w, f)[p] \in DOMAIN (folders') /\ NamesOf'[Cached(w, f)[p]] = p
    BY DEF CacheFits
  <2>0. /\ DOMAIN Cached(w, f) = DOMAIN cache[w[1]] \cup {Wanted(w)} /\ Cached(w, f)[Wanted(w)] = f
        /\ \A q \in DOMAIN cache[w[1]] : q # Wanted(w) => Cached(w, f)[q] = cache[w[1]][q]
    BY DEF Cached, With
  <2>1. CASE p = Wanted(w)
    BY <1>1, <2>0, <2>1
  <2>2. CASE p # Wanted(w)
    <3>1. p \in DOMAIN cache[w[1]] /\ Cached(w, f)[p] = cache[w[1]][p]
      BY <2>0, <2>2
    <3> QED
      BY <1>2, <3>1 DEF CacheFits
  <2> QED
    BY <2>1, <2>2
<1>4. cache' = [cache EXCEPT ![w[1]] = Cached(w, f)] /\ Descend(w, Cached(w, f), f, work[w].depth)
  BY DEF Enter, Cached
<1>5. Len(folders') \in Nat /\ DOMAIN (folders') = 1..Len(folders') /\ f \in 0..Len(folders')
  BY DEF Grows
<1> QED
  BY <1>1, <1>3, <1>4, <1>5, DescendFits DEF FoldersInv

\* A folder of the wanted name where the worker is has the wanted path.
LEMMA NamesakeFacts ==
  ASSUME FoldersInv, NEW w \in Agents, work[w].pc \in {"creating", "listing"}, NEW f \in Namesakes(w)
  PROVE  f \in DOMAIN folders /\ NamesOf[f] = Wanted(w)
<1>1. Wanted(w) = Append(NamesOf[NewFolder(w).parent], NewFolder(w).name) /\ NewFolder(w).parent = work[w].folder
  BY WantedFacts
<1>2. f \in DOMAIN folders /\ folders[f].name = NewFolder(w).name /\ folders[f].parent = work[w].folder
  BY DEF Namesakes
<1> QED
  BY <1>1, <1>2, NamesFacts DEF FoldersInv

\* The steps of ensureFolderExists.
LEMMA EnsureFits ==
  ASSUME FoldersInv, NEW w \in Agents, EnsureFolderExists(w)
  PROVE  Grows /\ UNCHANGED <<folders, cache>> /\ Descended(w, cache[w[1]])
<1>1. work[w].pc = "folders" /\ Descend(w, cache[w[1]], Root, 0) /\ UNCHANGED <<folders, cache>>
  BY DEF EnsureFolderExists, At, server, queues
<1>2. Grows /\ NamesOf' = NamesOf
  BY <1>1, FoldersStay DEF FoldersInv
<1>3. CacheFits(cache[w[1]])
  BY <1>2, CacheStays, AgentFacts
<1>4. Item(w) \in Items
  BY <1>1, BusyFacts DEF FoldersInv, Off
<1>5. NamesOf'[Root] = Path(Item(w), 0) /\ Len(PathOf[Item(w)]) \in Nat
  BY <1>2, <1>4, NamesFacts, PathFacts DEF FoldersInv
<1>6. Len(folders') \in Nat /\ DOMAIN (folders') = 1..Len(folders') /\ Root \in 0..Len(folders')
  BY <1>2 DEF Grows, Root
<1>7. 0 \in 0..Len(PathOf[Item(w)])
  BY <1>5
<1>8. Descended(w, cache[w[1]])
  BY <1>1, <1>3, <1>4, <1>5, <1>6, <1>7, DescendFits DEF FoldersInv
<1> QED
  BY <1>1, <1>2, <1>8

LEMMA MakeFits ==
  ASSUME FoldersInv, NEW w \in Agents, work[w].pc = "creating", folders' = Append(folders, NewFolder(w))
  PROVE  /\ Grows /\ Len(folders') = Len(folders) + 1 /\ Len(folders') \in DOMAIN (folders')
         /\ (folders')[Len(folders')] = NewFolder(w) /\ NamesOf'[Len(folders')] = Wanted(w)
<1>1. /\ NewFolder(w) \in FolderRecs /\ NewFolder(w).parent \in 0..Len(folders)
      /\ Wanted(w) = Append(NamesOf[NewFolder(w).parent], NewFolder(w).name)
  BY WantedFacts
<1>2. /\ Grows /\ Len(folders') = Len(folders) + 1 /\ (folders')[Len(folders')] = NewFolder(w)
      /\ NamesOf'[Len(folders')] = Append(NamesOf[NewFolder(w).parent], NewFolder(w).name)
  BY <1>1, FolderAdded DEF FoldersInv
<1>3. Len(folders) \in Nat
  BY NamesFacts DEF FoldersInv
<1>4. Len(folders') \in DOMAIN (folders')
  BY <1>2, <1>3 DEF Grows
<1> QED
  BY <1>1, <1>2, <1>4

LEMMA CreateFits ==
  ASSUME FoldersInv, NEW w \in Agents, CreateFolder(w)
  PROVE  LET f == Len(folders') IN
         /\ CacheFits(Cached(w, f)) /\ cache' = [cache EXCEPT ![w[1]] = Cached(w, f)]
         /\ Descended(w, Cached(w, f))
<1>1. work[w].pc = "creating" /\ folders' = Append(folders, NewFolder(w)) /\ Enter(w, Len(folders'))
  BY DEF CreateFolder, At
<1>2. Grows /\ Len(folders') \in DOMAIN (folders') /\ NamesOf'[Len(folders')] = Wanted(w)
  BY <1>1, MakeFits
<1> QED
  BY <1>1, <1>2, EnterFits

LEMMA FindFits ==
  ASSUME FoldersInv, NEW w \in Agents, FindFolder(w)
  PROVE  /\ Grows /\ UNCHANGED folders
         /\ \E f \in DOMAIN folders : /\ CacheFits(Cached(w, f)) /\ cache' = [cache EXCEPT ![w[1]] = Cached(w, f)]
                                      /\ Descended(w, Cached(w, f))
<1>1. PICK f \in Namesakes(w) : Enter(w, f)
  BY DEF FindFolder
<1>2. work[w].pc = "listing" /\ UNCHANGED folders
  BY DEF FindFolder, At
<1>3. Grows /\ NamesOf' = NamesOf
  BY <1>2, FoldersStay DEF FoldersInv
<1>4. f \in DOMAIN folders /\ NamesOf[f] = Wanted(w)
  BY <1>2, NamesakeFacts
<1>5. f \in DOMAIN (folders') /\ NamesOf'[f] = Wanted(w)
  BY <1>2, <1>3, <1>4
<1>6. /\ CacheFits(Cached(w, f)) /\ cache' = [cache EXCEPT ![w[1]] = Cached(w, f)]
      /\ Descended(w, Cached(w, f))
  BY <1>1, <1>2, <1>3, <1>5, EnterFits
<1> QED
  BY <1>2, <1>3, <1>4, <1>6

-----------------------------------------------------------------------------
\* A step that touches neither folders nor caches: workers leave the search for folders, and
\* the listing of them only when there is none of the name or when that has been noted.
Quiet ==
    /\ UNCHANGED <<folders, cache>> /\ doubled \subseteq doubled'
    /\ \A d \in Queues : phase[d] # "new" => phase'[d] # "new"
    /\ \A d \in Drops : phase[d] = "swept" => phase'[d] = "swept"
    /\ \A w \in Agents : work'[w] # work[w] =>
         /\ work'[w].pc \notin {"creating", "listing"} /\ work'[w].folder \in 0..Len(folders)
         /\ work'[w].pc \in {"hashing", "asking", "uploading"} => NamesOf[work'[w].folder] = PathOf[work'[w].item]
         /\ work[w].pc = "listing" => Namesakes(w) = {} \/ <<w[1], Wanted(w)>> \in doubled'

FoldersKept == (Tree /\ CachesFit /\ WantsFit /\ RacesNoted /\ FoldersKnown /\ FoldersOnce)'

\* What is known of a folder is known of its names, its parent and its drop.
LEMMA SameNames ==
  ASSUME NEW s, NEW t, NEW a, NEW b, s \in Seq(FolderNames), t \in Seq(FolderNames), Append(s, a) = Append(t, b)
  PROVE  s = t /\ a = b
<1> DEFINE x == Append(s, a)
           y == Append(t, b)
<1>1. /\ Len(x) = Len(s) + 1 /\ x[Len(s) + 1] = a /\ \A n \in 1..Len(s) : x[n] = s[n]
  OBVIOUS
<1>2. /\ Len(y) = Len(t) + 1 /\ y[Len(t) + 1] = b /\ \A n \in 1..Len(t) : y[n] = t[n]
  OBVIOUS
<1>3. Len(s) \in Nat /\ Len(t) \in Nat /\ x = y
  OBVIOUS
<1> HIDE DEF x, y
<1>4. Len(s) = Len(t)
  BY <1>1, <1>2, <1>3
<1>5. a = b /\ \A n \in 1..Len(s) : s[n] = t[n]
  BY <1>1, <1>2, <1>3, <1>4
<1> QED
  BY <1>4, <1>5

LEMMA WantedSame ==
  ASSUME NEW v, NEW w, work'[v].item = work[v].item, work'[v].depth = work[v].depth
  PROVE  Wanted(v)' = Wanted(v)
  BY DEF Wanted, Path, Item

LEMMA QuietFolders ==
  ASSUME FoldersInv, Quiet
  PROVE  FoldersKept
<1> USE AgentFacts DEF FoldersInv
<1>1. Grows /\ NamesOf' = NamesOf /\ folders' = folders /\ cache' = cache /\ doubled \subseteq doubled'
  BY FoldersStay DEF Quiet
<1>2. Tree'
  BY <1>1 DEF Tree
<1>3. CachesFit'
  BY <1>1 DEF CachesFit
<1>4. WantsFit'
  <2> SUFFICES ASSUME NEW w \in Agents
               PROVE  /\ work'[w].folder \in 0..Len(folders')
                      /\ work'[w].pc \in {"creating", "listing"} =>
                           /\ work'[w].depth \in DOMAIN PathOf[work'[w].item]
                           /\ NamesOf'[work'[w].folder] = Path(work'[w].item, work'[w].depth - 1)
                      /\ work'[w].pc \in {"hashing", "asking", "uploading"} =>
                           NamesOf'[work'[w].folder] = PathOf[work'[w].item]
    BY DEF WantsFit, Path
  <2>1. CASE work'[w] = work[w]
    BY <1>1, <2>1 DEF WantsFit
  <2>2. CASE work'[w] # work[w]
    BY <1>1, <2>2 DEF Quiet
  <2> QED
    BY <2>1, <2>2
<1>5. ASSUME NEW w \in Agents, work'[w].pc \in {"creating", "listing"}
      PROVE  work'[w] = work[w] /\ Wanted(w)' = Wanted(w)
  <2>1. work'[w] = work[w]
    BY <1>5 DEF Quiet
  <2> QED
    BY <2>1, WantedSame
<1>6. RacesNoted'
  <2> SUFFICES ASSUME NEW w \in Agents, work'[w].pc \in {"creating", "listing"}
               PROVE  /\ \A v \in Workers(w[1]) \ {w} :
                           work'[v].pc \in {"creating", "listing"} /\ Wanted(v)' = Wanted(w)' => <<w[1], Wanted(w)'>> \in doubled'
                      /\ work'[w].pc = "creating" /\ Wanted(w)' \in DOMAIN cache'[w[1]] => <<w[1], Wanted(w)'>> \in doubled'
    BY DEF RacesNoted, Workers
  <2>1. work'[w] = work[w] /\ Wanted(w)' = Wanted(w)
    BY <1>5
  <2>2. ASSUME NEW v \in Workers(w[1]) \ {w}, work'[v].pc \in {"creating", "listing"}, Wanted(v)' = Wanted(w)'
        PROVE  <<w[1], Wanted(w)>> \in doubled
    <3>1. v \in Agents /\ w[1] \in Queues
      OBVIOUS
    <3>2. work'[v] = work[v] /\ Wanted(v)' = Wanted(v)
      BY <2>2, <3>1, <1>5
    <3> QED
      BY <2>1, <2>2, <3>2 DEF RacesNoted
  <2>3. work'[w].pc = "creating" /\ Wanted(w)' \in DOMAIN cache'[w[1]] => <<w[1], Wanted(w)>> \in doubled
    BY <1>1, <2>1 DEF RacesNoted
  <2> QED
    BY <1>1, <2>1, <2>2, <2>3
<1>7. FoldersKnown'
  <2> SUFFICES ASSUME NEW f \in DOMAIN folders PROVE phase'[folders[f].by] # "new" /\ Found(f)'
    BY <1>1 DEF FoldersKnown
  <2>0. PICK d, p : d = folders[f].by /\ p = NamesOf[f]
    OBVIOUS
  <2>1. d \in Drops /\ d \in Queues /\ phase[d] # "new" /\ Found(f)
    BY <2>0, NamesFacts DEF FoldersKnown, FolderRecs
  <2>2. phase'[d] # "new"
    BY <2>1 DEF Quiet
  <2>3. ASSUME NEW w \in Workers(d), work[w].pc = "listing", Wanted(w) = p, work[w].folder = folders[f].parent,
               work'[w] # work[w]
        PROVE  <<d, p>> \in doubled'
    <3>1. w \in Agents /\ w[1] = d
      BY <2>1
    <3>2. f \in Namesakes(w)
      <4>1. /\ Wanted(w) = Append(NamesOf[NewFolder(w).parent], NewFolder(w).name)
            /\ NewFolder(w).parent = work[w].folder
        BY <2>3, <3>1, WantedFacts
      <4>2. p = Append(NamesOf[folders[f].parent], folders[f].name)
        BY <2>0, NamesFacts
      <4>3. Append(NamesOf[work[w].folder], NewFolder(w).name) = Append(NamesOf[work[w].folder], folders[f].name)
        BY <2>3, <4>1, <4>2
      <4>4. NamesOf[work[w].folder] \in Seq(FolderNames)
        <5>1. /\ Item(w) \in Items /\ NamesOf[work[w].folder] = Path(Item(w), work[w].depth - 1)
              /\ work[w].depth \in DOMAIN PathOf[Item(w)]
          BY <2>3, <3>1, WantedFacts DEF WantsFit, Item
        <5>2. PathOf[Item(w)] \in Seq(FolderNames)
          BY <5>1, ItemsAssumption
        <5> QED
          BY <5>1, <5>2 DEF Path
      <4>5. NewFolder(w).name = folders[f].name
        BY <4>3, <4>4, SameNames
      <4> QED
        BY <2>0, <2>3, <4>5 DEF Namesakes
    <3>3. <<w[1], Wanted(w)>> \in doubled'
      BY <2>3, <3>1, <3>2 DEF Quiet
    <3> QED
      BY <2>3, <3>1, <3>3
  <2>4. ASSUME NEW w \in Workers(d), work[w].pc = "listing", Wanted(w) = p, work[w].folder = folders[f].parent
        PROVE  Found(f)'
    <3>1. CASE work'[w] = work[w]
      <4>1. Wanted(w)' = Wanted(w)
        BY <3>1, WantedSame
      <4>2. \E v \in Workers(d) : work'[v].pc = "listing" /\ Wanted(v)' = p /\ work'[v].folder = folders[f].parent
        BY <2>4, <3>1, <4>1
      <4> QED
        BY <1>1, <2>0, <4>2 DEF Found, Workers
    <3>2. CASE work'[w] # work[w]
      BY <1>1, <2>0, <2>3, <2>4, <3>2 DEF Found
    <3> QED
      BY <3>1, <3>2
  <2>5. ASSUME phase[d] = "swept" PROVE Found(f)'
    BY <1>1, <2>0, <2>1, <2>5 DEF Found, Quiet
  <2>6. ASSUME p \in DOMAIN cache[d] \/ <<d, p>> \in doubled PROVE Found(f)'
    BY <1>1, <2>0, <2>6 DEF Found
  <2>7. \/ p \in DOMAIN cache[d] \/ <<d, p>> \in doubled
        \/ \E w \in Workers(d) : work[w].pc = "listing" /\ Wanted(w) = p /\ work[w].folder = folders[f].parent
        \/ phase[d] = "swept"
    BY <2>0, <2>1 DEF Found
  <2>8. Found(f)'
    BY <2>4, <2>5, <2>6, <2>7
  <2>9. phase'[folders[f].by] # "new"
    BY <2>0, <2>2
  <2> QED
    BY <2>8, <2>9
<1>8. FoldersOnce'
  BY <1>1 DEF FoldersOnce
<1> QED
  BY <1>2, <1>3, <1>4, <1>6, <1>7, <1>8 DEF FoldersKept

-----------------------------------------------------------------------------
\* A folder of this name is there already only if that has been noted: else the drop would
\* know it, and the worker would not make it.
LEMMA OnceMore ==
  ASSUME FoldersInv, NEW w \in Agents, work[w].pc = "creating",
         folders' = Append(folders, NewFolder(w)), doubled \subseteq doubled'
  PROVE  FoldersOnce'
<1> USE DEF FoldersInv
<1> DEFINE n == Len(folders')
           p == Wanted(w)
<1>1. /\ Grows /\ n = Len(folders) + 1 /\ (folders')[n] = NewFolder(w) /\ NamesOf'[n] = p
      /\ DOMAIN folders = 1..Len(folders) /\ Len(folders) \in Nat /\ DOMAIN (folders') = 1..n
  BY MakeFits, NamesFacts DEF Grows
<1>2. \A f \in DOMAIN (folders') : f = n \/ f \in DOMAIN folders
  BY <1>1
<1>3. /\ w[1] \in Drops /\ phase[w[1]] = "running" /\ p = Append(NamesOf[NewFolder(w).parent], NewFolder(w).name)
      /\ NewFolder(w).by = w[1]
  BY WantedFacts
<1> HIDE DEF n, p
<1>4. ASSUME NEW g \in DOMAIN folders, folders[g] = NewFolder(w)
      PROVE  NamesOf[g] = p /\ folders[g].by = w[1] /\ <<w[1], p>> \in doubled
  <2>1. NamesOf[g] = p /\ folders[g].by = w[1]
    BY <1>3, <1>4, NamesFacts
  <2>2. ASSUME p \in DOMAIN cache[w[1]] PROVE <<w[1], p>> \in doubled
    BY <2>2 DEF RacesNoted, p
  <2>3. ASSUME \E v \in Workers(w[1]) : work[v].pc = "listing" /\ Wanted(v) = p PROVE <<w[1], p>> \in doubled
    <3>1. PICK v \in Workers(w[1]) : work[v].pc = "listing" /\ Wanted(v) = p
      BY <2>3
    <3>2. v # w
      BY <3>1
    <3> QED
      BY <3>1, <3>2 DEF RacesNoted, p
  <2>4. Found(g)
    BY DEF FoldersKnown
  <2>5. phase[w[1]] # "swept"
    BY <1>3
  <2>6. <<w[1], p>> \in doubled
    BY <2>1, <2>2, <2>3, <2>4, <2>5 DEF Found
  <2> QED
    BY <2>1, <2>6
<1>5. SUFFICES ASSUME NEW f \in DOMAIN (folders'), NEW g \in DOMAIN (folders'), f # g, (folders')[f] = (folders')[g]
               PROVE  <<(folders')[f].by, NamesOf'[f]>> \in doubled'
  BY DEF FoldersOnce
<1>6. CASE f = n
  <2>1. g \in DOMAIN folders /\ folders[g] = NewFolder(w)
    BY <1>1, <1>2, <1>5, <1>6 DEF Grows
  <2> QED
    BY <1>1, <1>3, <1>4, <1>6, <2>1
<1>7. CASE g = n
  <2>1. f \in DOMAIN folders /\ folders[f] = NewFolder(w)
    BY <1>1, <1>2, <1>5, <1>7 DEF Grows
  <2>2. NamesOf'[f] = NamesOf[f] /\ (folders')[f] = folders[f]
    BY <1>1, <2>1 DEF Grows
  <2> QED
    BY <1>4, <2>1, <2>2
<1>8. CASE f # n /\ g # n
  <2>1. f \in DOMAIN folders /\ g \in DOMAIN folders
    BY <1>2, <1>8
  <2>2. /\ NamesOf'[f] = NamesOf[f] /\ (folders')[f] = folders[f] /\ (folders')[g] = folders[g]
    BY <1>1, <2>1 DEF Grows
  <2> QED
    BY <1>5, <2>1, <2>2 DEF FoldersOnce
<1> QED
  BY <1>6, <1>7, <1>8

\* ensureFolderExists goes on with the cache c: what it knows more is the path that the
\* worker wanted.
Enters(w, c) ==
    /\ Grows /\ UNCHANGED phase /\ Descended(w, c) /\ CacheFits(c)
    /\ \A d \in Queues : cache'[d] = IF d = w[1] THEN c ELSE cache[d]
    /\ DOMAIN cache[w[1]] \subseteq DOMAIN c
    /\ work[w].pc \in {"folders", "creating", "listing"}
    /\ \A p \in DOMAIN c : p \notin DOMAIN cache[w[1]] => work[w].pc \in {"creating", "listing"} /\ p = Wanted(w)
    /\ work[w].pc = "listing" => Wanted(w) \in DOMAIN c
    /\ \/ UNCHANGED folders
       \/ work[w].pc = "creating" /\ folders' = Append(folders, NewFolder(w)) /\ Wanted(w) \in DOMAIN c

LEMMA EntersFolders ==
  ASSUME FoldersInv, NEW w \in Agents, NEW c, Enters(w, c)
  PROVE  FoldersKept
<1> USE AgentFacts DEF FoldersInv
<1> DEFINE d == w[1]
           i == Item(w)
<1>1. /\ Grows /\ UNCHANGED phase /\ Descended(w, c) /\ CacheFits(c) /\ DOMAIN cache[d] \subseteq DOMAIN c
      /\ \A e \in Queues : cache'[e] = IF e = d THEN c ELSE cache[e]
  BY DEF Enters
<1>2. d \in Drops /\ d \in Queues /\ phase[d] = "running" /\ i \in Items /\ w \in Workers(d)
  <2>1. work[w].pc \in Early /\ work[w].pc \notin Off
    BY DEF Enters, Early, Off
  <2>2. d \in Drops /\ i \in Items
    BY <2>1, BusyFacts
  <2>3. work[w].pc # "off"
    BY <2>1 DEF Off
  <2> QED
    BY <2>2, <2>3 DEF WorkersFit
<1>3. /\ \A v \in Agents : v # w => work'[v] = work[v]
      /\ work'[w].item = i /\ work'[w].folder \in 0..Len(folders')
  BY <1>1 DEF Descended, Changes, Item
<1>4. /\ work'[w].pc \in {"hashing", "creating"} /\ doubled \subseteq doubled'
      /\ work'[w].pc = "hashing" => NamesOf'[work'[w].folder] = PathOf[i]
      /\ work'[w].pc = "creating" =>
            /\ work'[w].depth \in DOMAIN PathOf[i]
            /\ NamesOf'[work'[w].folder] = Path(i, work'[w].depth - 1)
            /\ Path(i, work'[w].depth) \notin DOMAIN c
            /\ Racing(w, Path(i, work'[w].depth)) => <<d, Path(i, work'[w].depth)>> \in doubled'
  BY <1>1 DEF Descended
<1>5. Tree'
  BY <1>1 DEF Grows, Tree
<1>6. CachesFit'
  <2> SUFFICES ASSUME NEW e \in Queues PROVE CacheFits(cache'[e])
    BY DEF CachesFit, CacheFits
  <2>1. CacheFits(cache[e])
    BY <1>1, CacheStays
  <2> QED
    BY <1>1, <2>1
<1>7. WantsFit'
  <2> SUFFICES ASSUME NEW v \in Agents
               PROVE  /\ work'[v].folder \in 0..Len(folders')
                      /\ work'[v].pc \in {"creating", "listing"} =>
                           /\ work'[v].depth \in DOMAIN PathOf[work'[v].item]
                           /\ NamesOf'[work'[v].folder] = Path(work'[v].item, work'[v].depth - 1)
                      /\ work'[v].pc \in {"hashing", "asking", "uploading"} =>
                           NamesOf'[work'[v].folder] = PathOf[work'[v].item]
    BY DEF WantsFit, Path
  <2>1. CASE v = w
    BY <1>3, <1>4, <2>1
  <2>2. CASE v # w
    <3>1. work'[v] = work[v]
      BY <1>3, <2>2
    <3>2. work[v].folder \in 0..Len(folders)
      BY DEF WantsFit
    <3>3. work[v].folder \in 0..Len(folders') /\ NamesOf'[work[v].folder] = NamesOf[work[v].folder]
      BY <1>1, <3>2 DEF Grows
    <3> QED
      BY <3>1, <3>3 DEF WantsFit
  <2> QED
    BY <2>1, <2>2
<1>8. work'[w].pc = "creating" => Wanted(w)' = Path(i, work'[w].depth)
  BY <1>3 DEF Wanted, Item, Path
<1>9. ASSUME NEW v \in Agents, v # w PROVE work'[v] = work[v] /\ Wanted(v)' = Wanted(v)
  <2>1. work'[v] = work[v]
    BY <1>3, <1>9
  <2> QED
    BY <2>1, WantedSame
<1>10. ASSUME NEW v \in Workers(d) \ {w}, work[v].pc \in {"creating", "listing"},
              work'[w].pc = "creating", Wanted(v) = Wanted(w)'
       PROVE  <<d, Wanted(v)>> \in doubled'
  <2>1. Racing(w, Path(i, work'[w].depth))
    BY <1>8, <1>10 DEF Racing, Wanted
  <2> QED
    BY <1>4, <1>8, <1>10, <2>1
<1>11. RacesNoted'
  <2> SUFFICES ASSUME NEW v \in Agents, work'[v].pc \in {"creating", "listing"}
               PROVE  /\ \A u \in Workers(v[1]) \ {v} :
                           work'[u].pc \in {"creating", "listing"} /\ Wanted(u)' = Wanted(v)' => <<v[1], Wanted(v)'>> \in doubled'
                      /\ work'[v].pc = "creating" /\ Wanted(v)' \in DOMAIN cache'[v[1]] => <<v[1], Wanted(v)'>> \in doubled'
    BY DEF RacesNoted, Workers
  <2>0. v[1] \in Queues /\ \A u \in Workers(v[1]) : u \in Agents /\ u[1] = v[1]
    OBVIOUS
  <2>1. CASE v = w
    <3>1. work'[w].pc = "creating"
      BY <1>4, <2>1
    <3>2. Wanted(w)' \notin DOMAIN cache'[d]
      BY <1>1, <1>2, <1>4, <1>8, <3>1
    <3>3. ASSUME NEW u \in Workers(d) \ {w}, work'[u].pc \in {"creating", "listing"}, Wanted(u)' = Wanted(w)'
          PROVE  <<d, Wanted(w)'>> \in doubled'
      <4>1. work'[u] = work[u] /\ Wanted(u)' = Wanted(u)
        BY <1>9, <2>0, <2>1, <3>3
      <4> QED
        BY <1>10, <3>1, <3>3, <4>1
    <3> QED
      BY <2>1, <3>2, <3>3
  <2>2. CASE v # w
    <3>1. work'[v] = work[v] /\ Wanted(v)' = Wanted(v)
      BY <1>9, <2>2
    <3>2. ASSUME NEW u \in Workers(v[1]) \ {v}, work'[u].pc \in {"creating", "listing"}, Wanted(u)' = Wanted(v)'
          PROVE  <<v[1], Wanted(v)>> \in doubled'
      <4>1. CASE u = w
        <5>1. v \in Workers(d) \ {w} /\ work'[w].pc = "creating" /\ v[1] = d
          BY <1>4, <2>0, <2>2, <3>2, <4>1
        <5> QED
          BY <1>10, <3>1, <3>2, <4>1, <5>1
      <4>2. CASE u # w
        <5>1. work'[u] = work[u] /\ Wanted(u)' = Wanted(u)
          BY <1>9, <2>0, <4>2
        <5>2. <<v[1], Wanted(v)>> \in doubled
          BY <3>1, <3>2, <5>1 DEF RacesNoted
        <5> QED
          BY <1>4, <5>2
      <4> QED
        BY <4>1, <4>2
    <3>3. ASSUME work[v].pc = "creating", Wanted(v) \in DOMAIN cache'[v[1]]
          PROVE  <<v[1], Wanted(v)>> \in doubled'
      <4>1. CASE Wanted(v) \in DOMAIN cache[v[1]]
        BY <1>4, <3>3, <4>1 DEF RacesNoted
      <4>2. CASE Wanted(v) \notin DOMAIN cache[v[1]]
        <5>1. v[1] = d /\ Wanted(v) \in DOMAIN c
          BY <1>1, <2>0, <3>3, <4>2
        <5>2. work[w].pc \in {"creating", "listing"} /\ Wanted(v) = Wanted(w)
          BY <4>2, <5>1 DEF Enters
        <5>3. w \in Workers(v[1]) \ {v}
          BY <1>2, <2>2, <5>1
        <5>4. <<v[1], Wanted(v)>> \in doubled
          BY <3>3, <5>2, <5>3 DEF RacesNoted
        <5> QED
          BY <1>4, <5>4
      <4> QED
        BY <4>1, <4>2
    <3> QED
      BY <3>1, <3>2, <3>3
  <2> QED
    BY <2>1, <2>2
<1>12. ASSUME NEW f \in DOMAIN folders PROVE Found(f)' /\ phase'[(folders')[f].by] # "new"
  <2>0. PICK e, p : e = folders[f].by /\ p = NamesOf[f]
    OBVIOUS
  <2>1. e \in Drops /\ e \in Queues /\ phase[e] # "new"
    BY <2>0, NamesFacts DEF FoldersKnown, FolderRecs
  <2>2. (folders')[f] = folders[f] /\ NamesOf'[f] = p
    <3>1. f \in 0..Len(folders)
      BY NamesFacts
    <3> QED
      BY <1>1, <2>0, <3>1 DEF Grows
  <2>3. \/ p \in DOMAIN cache[e] \/ <<e, p>> \in doubled
        \/ \E v \in Workers(e) : work[v].pc = "listing" /\ Wanted(v) = p /\ work[v].folder = folders[f].parent
        \/ phase[e] = "swept"
    BY <2>0 DEF Found, FoldersKnown
  <2>4. ASSUME \/ p \in DOMAIN cache'[e] \/ <<e, p>> \in doubled'
               \/ \E v \in Workers(e) : work'[v].pc = "listing" /\ Wanted(v)' = p /\ work'[v].folder = folders[f].parent
               \/ phase'[e] = "swept"
        PROVE  Found(f)'
    BY <2>0, <2>2, <2>4 DEF Found, Workers
  <2>5. ASSUME p \in DOMAIN cache[e]
        PROVE  Found(f)'
    BY <1>1, <2>1, <2>4, <2>5
  <2>6. ASSUME <<e, p>> \in doubled \/ phase[e] = "swept"
        PROVE  Found(f)'
    BY <1>1, <1>4, <2>4, <2>6
  <2>7. ASSUME \E v \in Workers(e) : work[v].pc = "listing" /\ Wanted(v) = p /\ work[v].folder = folders[f].parent
        PROVE  Found(f)'
    <3>1. PICK v \in Workers(e) : work[v].pc = "listing" /\ Wanted(v) = p /\ work[v].folder = folders[f].parent
      BY <2>7
    <3>2. CASE v = w
      <4>1. e = d /\ p \in DOMAIN c
        BY <2>1, <3>1, <3>2 DEF Enters
      <4> QED
        BY <1>1, <2>1, <2>4, <4>1
    <3>3. CASE v # w
      <4>1. work'[v] = work[v] /\ Wanted(v)' = Wanted(v)
        BY <1>9, <2>1, <3>3
      <4> QED
        BY <2>4, <3>1, <4>1
    <3> QED
      BY <3>2, <3>3
  <2>8. Found(f)'
    BY <2>3, <2>5, <2>6, <2>7
  <2> QED
    BY <1>1, <2>0, <2>1, <2>2, <2>8
<1>13. FoldersKnown' /\ FoldersOnce'
  <2>1. CASE UNCHANGED folders
    <3>1. FoldersKnown'
      BY <1>12, <2>1 DEF FoldersKnown
    <3>2. NamesOf' = NamesOf
      BY <2>1, FoldersStay
    <3>3. FoldersOnce'
      BY <1>4, <2>1, <3>2 DEF FoldersOnce
    <3> QED
      BY <3>1, <3>3
  <2>2. CASE work[w].pc = "creating" /\ folders' = Append(folders, NewFolder(w)) /\ Wanted(w) \in DOMAIN c
    <3>0. PICK n : n = Len(folders')
      OBVIOUS
    <3>1. n = Len(folders) + 1 /\ (folders')[n] = NewFolder(w) /\ NamesOf'[n] = Wanted(w)
      BY <2>2, <3>0, MakeFits
    <3>2. \A f \in DOMAIN (folders') : f = n \/ f \in DOMAIN folders
      BY <1>1, <3>0, <3>1, NamesFacts DEF Grows
    <3>3. Found(n)' /\ phase'[(folders')[n].by] # "new"
      <4>1. NewFolder(w).by = d
        BY DEF NewFolder
      <4>2. NamesOf'[n] \in DOMAIN cache'[(folders')[n].by]
        BY <1>1, <1>2, <2>2, <3>1, <4>1
      <4>3. Found(n)'
        BY <4>2 DEF Found
      <4>4. phase'[(folders')[n].by] # "new"
        BY <1>1, <1>2, <3>1, <4>1
      <4> QED
        BY <4>3, <4>4
    <3>4. FoldersKnown'
      <4> SUFFICES ASSUME NEW f \in DOMAIN (folders') PROVE Found(f)' /\ phase'[(folders')[f].by] # "new"
        BY DEF FoldersKnown
      <4>1. CASE f = n
        <5>1. Found(f)'
          BY <3>3, <4>1
        <5> QED
          BY <3>3, <4>1, <5>1
      <4>2. CASE f # n
        BY <1>12, <3>2, <4>2
      <4> QED
        BY <4>1, <4>2
    <3> QED
      BY <1>4, <2>2, <3>4, OnceMore
  <2> QED
    BY <2>1, <2>2 DEF Enters
<1> QED
  BY <1>5, <1>6, <1>7, <1>11, <1>13 DEF FoldersKept

-----------------------------------------------------------------------------
\* The steps as the workers and the folders see them: nobody moves; a worker goes on with its
\* file; it leaves it for the next one; or it looks for folders, or a drop or the page moves.
Aside == UNCHANGED <<folders, cache>> /\ doubled \subseteq doubled'
DialogLeaves(w) == dialog' = Nobody \/ (dialog' = dialog /\ dialog # w)

Stays == Aside /\ UNCHANGED <<todo, phase, work, dialog>>

Turns(w) ==
    /\ Aside /\ UNCHANGED <<todo, phase>>
    /\ Changes(w) /\ work'[w].folder = work[w].folder
    /\ \/ work[w].pc \in {"hashing", "asking"} /\ work'[w].pc \in {"asking", "uploading"}
       \/ work[w].pc = "uploading" /\ work'[w].pc = "saving" /\ InitUpload(w)
       \/ work[w].pc = "saving" /\ work'[w].pc = "savingChunks" /\ StoreMeta(w)
       \/ work[w].pc \in {"saving", "savingChunks", "sending"} /\ work'[w].pc \in {"sending", "completing"}
       \/ work[w].pc = "completing" /\ work'[w].pc = "cleaning" /\ CompleteUpload(w)
    /\ DialogLeaves(w) \/ (dialog' = w /\ work'[w].pc = "asking")

Leaves(w) ==
    /\ Aside /\ UNCHANGED phase
    /\ TakesNext(w) /\ work[w].pc \notin Off /\ DialogLeaves(w)
    /\ work[w].pc = "listing" => Namesakes(w) = {} \/ <<w[1], Wanted(w)>> \in doubled'

SeeksFolder(w) == EnsureFolderExists(w) \/ CreateFolder(w) \/ CreateFails(w) \/ FindFolder(w)
StartsOrEnds == (\E d \in Drops : OnUpload(d)) \/ (\E d \in Queues : Sweep(d)) \/ Reload \/ ResumePending

Places == Typed /\ WorkersFit

\* Who does not ask is not the one of the dialog.
LEMMA DialogFacts ==
  ASSUME Places, NEW w \in Agents, work[w].pc # "asking", UNCHANGED dialog
  PROVE  DialogLeaves(w)
<1>1. dialog \in Agents \cup {Nobody} /\ w # Nobody
  BY AgentFacts DEF Places, Typed
<1> QED
  BY <1>1 DEF Places, WorkersFit, DialogLeaves

LEMMA TurnFacts ==
  ASSUME Places, NEW w \in Agents, NEW s \in Steps, Goto(w, s)
  PROVE  Changes(w) /\ work'[w].folder = work[w].folder /\ work'[w].pc = s
  BY GotoFacts DEF Changes, Places

LEMMA LeaveFacts ==
  ASSUME Places, NEW w \in Agents, work[w].pc \notin Off \cup {"asking", "listing"}, Aside,
         NEW s, NextItem(w, s)
  PROVE  Leaves(w)
<1>1. TakesNext(w) /\ UNCHANGED <<phase, dialog>>
  BY NextItemTakes
<1>2. DialogLeaves(w)
  BY <1>1, DialogFacts
<1> QED
  BY <1>1, <1>2 DEF Leaves

LEMMA WorkerMoves ==
  ASSUME Places, NEW w \in Agents,
         \/ AskOverwrite(w) \/ Proceed(w) \/ InitUpload(w)
         \/ StoreMeta(w) \/ StoreChunks(w) \/ StoreFails(w) \/ AllSent(w) \/ CompleteUpload(w)
  PROVE  Turns(w)
<1> USE DEF queues, screen, server, history, tally, Aside
<1>1. CASE AskOverwrite(w)
  <2>1. Goto(w, "asking") /\ work[w].pc = "hashing" /\ dialog' = w /\ Aside /\ UNCHANGED <<todo, phase>>
    BY <1>1 DEF AskOverwrite, At
  <2>2. Changes(w) /\ work'[w].folder = work[w].folder /\ work'[w].pc = "asking"
    BY <2>1, TurnFacts DEF Steps
  <2> QED
    BY <2>1, <2>2 DEF Turns
<1>2. CASE Proceed(w)
  <2>1. Goto(w, "uploading") /\ work[w].pc = "hashing" /\ UNCHANGED dialog /\ Aside /\ UNCHANGED <<todo, phase>>
    BY <1>2 DEF Proceed, At
  <2>2. Changes(w) /\ work'[w].folder = work[w].folder /\ work'[w].pc = "uploading"
    BY <2>1, TurnFacts DEF Steps
  <2>3. DialogLeaves(w)
    BY <2>1, DialogFacts
  <2> QED
    BY <2>1, <2>2, <2>3 DEF Turns
<1>3. CASE InitUpload(w)
  <2>1. /\ Goto(w, "saving") /\ work[w].pc = "uploading"
        /\ UNCHANGED dialog /\ Aside /\ UNCHANGED <<todo, phase>>
    BY <1>3 DEF InitUpload, At
  <2>2. Changes(w) /\ work'[w].folder = work[w].folder /\ work'[w].pc = "saving"
    BY <2>1, TurnFacts DEF Steps
  <2>3. DialogLeaves(w)
    BY <2>1, DialogFacts
  <2> QED
    BY <1>3, <2>1, <2>2, <2>3 DEF Turns
<1>4. CASE StoreMeta(w)
  <2>1. /\ Goto(w, "savingChunks") /\ work[w].pc = "saving"
        /\ UNCHANGED dialog /\ Aside /\ UNCHANGED <<todo, phase>>
    BY <1>4 DEF StoreMeta, At
  <2>2. Changes(w) /\ work'[w].folder = work[w].folder /\ work'[w].pc = "savingChunks"
    BY <2>1, TurnFacts DEF Steps
  <2>3. DialogLeaves(w)
    BY <2>1, DialogFacts
  <2> QED
    BY <1>4, <2>1, <2>2, <2>3 DEF Turns
<1>5. CASE StoreChunks(w) \/ StoreFails(w)
  <2>1. /\ Goto(w, "sending") /\ work[w].pc \in {"saving", "savingChunks"}
        /\ UNCHANGED dialog /\ Aside /\ UNCHANGED <<todo, phase>>
    BY <1>5 DEF StoreChunks, StoreFails, StartSending, At
  <2>2. Changes(w) /\ work'[w].folder = work[w].folder /\ work'[w].pc = "sending"
    BY <2>1, TurnFacts DEF Steps
  <2>3. DialogLeaves(w)
    BY <2>1, DialogFacts
  <2> QED
    BY <2>1, <2>2, <2>3 DEF Turns
<1>6. CASE AllSent(w)
  <2>1. /\ Goto(w, "completing") /\ work[w].pc = "sending"
        /\ UNCHANGED dialog /\ Aside /\ UNCHANGED <<todo, phase>>
    BY <1>6 DEF AllSent, At
  <2>2. Changes(w) /\ work'[w].folder = work[w].folder /\ work'[w].pc = "completing"
    BY <2>1, TurnFacts DEF Steps
  <2>3. DialogLeaves(w)
    BY <2>1, DialogFacts
  <2> QED
    BY <2>1, <2>2, <2>3 DEF Turns
<1>7. CASE CompleteUpload(w)
  <2>1. /\ Goto(w, "cleaning") /\ work[w].pc = "completing"
        /\ UNCHANGED dialog /\ Aside /\ UNCHANGED <<todo, phase>>
    BY <1>7 DEF CompleteUpload, At
  <2>2. Changes(w) /\ work'[w].folder = work[w].folder /\ work'[w].pc = "cleaning"
    BY <2>1, TurnFacts DEF Steps
  <2>3. DialogLeaves(w)
    BY <2>1, DialogFacts
  <2> QED
    BY <1>7, <2>1, <2>2, <2>3 DEF Turns
<1> QED
  BY <1>1, <1>2, <1>3, <1>4, <1>5, <1>6, <1>7

LEMMA WorkerLeaves ==
  ASSUME Places, NEW w \in Agents,
         \/ NoFolder(w) \/ ListFails(w) \/ SkipExisting(w) \/ UploadFile(w) \/ UploadFails(w)
         \/ GiveUp(w) \/ CompleteRefused(w) \/ CompleteFails(w) \/ CleanupUpload(w)
  PROVE  Leaves(w)
<1> USE DEF queues, screen, server, history, tally, Aside, Off, At
<1>1. CASE NoFolder(w) \/ ListFails(w)
  <2>1. /\ work[w].pc = "listing" /\ NextItem(w, "error") /\ UNCHANGED folders /\ doubled \subseteq doubled'
        /\ Namesakes(w) = {} \/ <<w[1], Wanted(w)>> \in doubled'
    BY <1>1 DEF NoFolder, ListFails
  <2>2. TakesNext(w) /\ UNCHANGED <<phase, cache, dialog>>
    BY <2>1, NextItemTakes
  <2>3. DialogLeaves(w)
    BY <2>1, <2>2, DialogFacts
  <2> QED
    BY <2>1, <2>2, <2>3 DEF Leaves
<1>2. CASE SkipExisting(w) \/ UploadFile(w) \/ UploadFails(w) \/ GiveUp(w) \/ CompleteRefused(w)
           \/ CompleteFails(w) \/ CleanupUpload(w)
  <2>1. \E s : /\ NextItem(w, s) /\ work[w].pc \in {"hashing", "uploading", "sending", "completing", "cleaning"}
               /\ UNCHANGED <<folders, doubled>>
    <3>1. CASE SkipExisting(w)
      BY <3>1 DEF SkipExisting
    <3>2. CASE UploadFile(w)
      BY <3>2 DEF UploadFile
    <3>3. CASE UploadFails(w)
      BY <3>3 DEF UploadFails
    <3>4. CASE GiveUp(w)
      BY <3>4 DEF GiveUp
    <3>5. CASE CompleteRefused(w)
      BY <3>5 DEF CompleteRefused
    <3>6. CASE CompleteFails(w)
      BY <3>6 DEF CompleteFails
    <3>7. CASE CleanupUpload(w)
      BY <3>7 DEF CleanupUpload
    <3> QED
      BY <1>2, <3>1, <3>2, <3>3, <3>4, <3>5, <3>6, <3>7
  <2>2. PICK s : /\ NextItem(w, s) /\ work[w].pc \in {"hashing", "uploading", "sending", "completing", "cleaning"}
                 /\ UNCHANGED <<folders, doubled>>
    BY <2>1
  <2>3. Aside
    BY <2>2, NextItemTakes
  <2> QED
    BY <2>2, <2>3, LeaveFacts
<1> QED
  BY <1>1, <1>2

\* The answers of the dialog.
LEMMA Answers ==
  ASSUME Places, AnswerYes \/ AnswerNo
  PROVE  \E w \in Agents : /\ w = dialog /\ work[w].pc = "asking" /\ (Turns(w) \/ Leaves(w))
                           /\ SetRow(Item(w), "uploading") \/ SetRow(Item(w), "error")
<1> USE DEF queues, screen, server, history, tally, Aside
<1>1. dialog \in Agents /\ work[dialog].pc = "asking" /\ dialog' = Nobody
  BY DEF Places, Typed, WorkersFit, AnswerYes, AnswerNo
<1>2. PICK w \in Agents : w = dialog
  BY <1>1
<1>3. CASE AnswerYes
  <2>1. Goto(w, "uploading") /\ Aside /\ UNCHANGED <<todo, phase>>
    BY <1>2, <1>3 DEF AnswerYes
  <2>2. Changes(w) /\ work'[w].folder = work[w].folder /\ work'[w].pc = "uploading"
    BY <2>1, TurnFacts DEF Steps
  <2>3. Turns(w)
    BY <1>1, <1>2, <2>1, <2>2 DEF Turns, DialogLeaves
  <2> QED
    BY <1>1, <1>2, <1>3, <2>3 DEF AnswerYes
<1>4. CASE AnswerNo
  <2>1. TakesNext(w) /\ Aside /\ UNCHANGED phase
    BY <1>2, <1>4 DEF AnswerNo, TakesNext
  <2>2. Leaves(w)
    BY <1>1, <1>2, <2>1 DEF Leaves, DialogLeaves, Off
  <2> QED
    BY <1>1, <1>2, <1>4, <2>2 DEF AnswerNo
<1> QED
  BY <1>3, <1>4

\* Every step is one of these.
LEMMA Shapes ==
  ASSUME Places, Next
  PROVE  \/ Stays \/ StartsOrEnds
         \/ \E w \in Agents : SeeksFolder(w) \/ Turns(w) \/ Leaves(w)
<1> USE DEF queues, screen, server, history, tally, Aside
<1>1. ASSUME NEW i \in Large, NEW p \in Parts, SendPart(i, p) \/ PartFails(i, p) PROVE Stays
  BY <1>1 DEF SendPart, PartFails, Stays
<1>2. ASSUME NEW i \in Items, CancelUpload(i) PROVE Stays
  BY <1>2 DEF CancelUpload, Stays
<1>3. ASSUME RefreshFiles PROVE Stays
  BY <1>3 DEF RefreshFiles, Stays
<1> QED
  BY <1>1, <1>2, <1>3, WorkerMoves, WorkerLeaves, Answers DEF Next, SeeksFolder, StartsOrEnds

-----------------------------------------------------------------------------
\* The folders after every step.
LEMMA TurnsQuiet ==
  ASSUME FoldersInv, NEW w \in Agents, Turns(w)
  PROVE  Quiet
<1> USE DEF FoldersInv
<1>1. work[w].folder \in 0..Len(folders)
  BY DEF WantsFit
<1>2. work'[w].pc \in {"hashing", "asking", "uploading"} => NamesOf[work'[w].folder] = PathOf[work'[w].item]
  BY DEF Turns, Changes, WantsFit, Late
<1>3. work'[w].pc \notin {"creating", "listing"} /\ work[w].pc # "listing"
  BY DEF Turns, Late
<1>4. ASSUME NEW v \in Agents, work'[v] # work[v] PROVE v = w
  BY <1>4 DEF Turns, Changes
<1> QED
  BY <1>1, <1>2, <1>3, <1>4 DEF Turns, Changes, Aside, Quiet

LEMMA LeavesQuiet ==
  ASSUME FoldersInv, NEW w \in Agents, Leaves(w)
  PROVE  Quiet
<1> USE DEF FoldersInv
<1>1. /\ \A v \in Agents : v # w => work'[v] = work[v]
      /\ work'[w].folder = Root /\ work'[w].pc \in {"done", "sending", "folders"}
  BY TakesNextFacts DEF Leaves
<1>2. Root \in 0..Len(folders)
  BY NamesFacts DEF Root
<1> QED
  BY <1>1, <1>2 DEF Leaves, Aside, Quiet

LEMMA StartsQuiet ==
  ASSUME FoldersInv, StartsOrEnds, ~Reload
  PROVE  Quiet
<1> USE DEF FoldersInv, queues, screen, server, history, tally
<1>0. /\ phase \in [Queues -> {"new", "running", "swept"}] /\ work \in [Agents -> WorkRecs] /\ Root \in 0..Len(folders)
      /\ Drops \subseteq Queues /\ ResumeDrop \in Queues /\ ResumeDrop \notin Drops
  BY NamesFacts, AgentFacts DEF Typed, Root
<1>1. ASSUME NEW d \in Drops, OnUpload(d) PROVE Quiet
  <2>1. UNCHANGED <<folders, cache, doubled>> /\ phase[d] = "new" /\ phase' = [phase EXCEPT ![d] = "running"]
    BY <1>1 DEF OnUpload
  <2>2. ASSUME NEW w \in Agents, work'[w] # work[w]
        PROVE  work'[w].pc = "folders" /\ work'[w].folder = Root /\ work[w].pc # "listing"
    <3>1. work'[w] = IF w[1] = d /\ w[2] <= Len(todo[d])
                     THEN [Idle EXCEPT !.pc = "folders", !.item = todo[d][w[2]]] ELSE work[w]
      BY <1>1 DEF OnUpload
    <3>2. w[1] = d /\ work'[w] = [Idle EXCEPT !.pc = "folders", !.item = todo[d][w[2]]]
      BY <2>2, <3>1
    <3>3. work'[w].pc = "folders" /\ work'[w].folder = Root
      BY <3>2 DEF Idle
    <3>4. work[w].pc # "listing"
      BY <2>1, <3>2 DEF WorkersFit
    <3> QED
      BY <3>3, <3>4
  <2>3. (\A e \in Queues : phase[e] # "new" => phase'[e] # "new") /\ \A e \in Drops : phase[e] = "swept" => phase'[e] = "swept"
    BY <1>0, <2>1
  <2> QED
    BY <1>0, <2>1, <2>2, <2>3 DEF Quiet
<1>2. ASSUME NEW d \in Queues, Sweep(d) PROVE Quiet
  <2>1. /\ UNCHANGED <<folders, cache, doubled>> /\ phase' = [phase EXCEPT ![d] = "swept"]
        /\ \A w \in Workers(d) : work[w].pc \in {"off", "done"}
        /\ work' = [w \in Agents |-> IF w[1] = d THEN Idle ELSE work[w]]
    BY <1>2 DEF Sweep
  <2>2. ASSUME NEW w \in Agents, work'[w] # work[w]
        PROVE  work'[w].pc = "off" /\ work'[w].folder = Root /\ work[w].pc # "listing"
    <3>1. w[1] = d /\ work'[w] = Idle
      BY <2>1, <2>2
    <3>2. work[w].pc \in {"off", "done"}
      BY <2>1, <3>1, AgentFacts
    <3> QED
      BY <3>1, <3>2 DEF Idle
  <2>3. (\A e \in Queues : phase[e] # "new" => phase'[e] # "new") /\ \A e \in Drops : phase[e] = "swept" => phase'[e] = "swept"
    BY <1>0, <2>1
  <2> QED
    BY <1>0, <2>1, <2>2, <2>3 DEF Quiet
<1>3. ASSUME ResumePending PROVE Quiet
  <2>1. UNCHANGED <<folders, cache, doubled>> /\ phase[ResumeDrop] = "new"
    BY <1>3 DEF ResumePending
  <2>2. ASSUME NEW w \in Agents, work'[w] # work[w]
        PROVE  work'[w].pc = "sending" /\ work'[w].folder = Root /\ work[w].pc # "listing"
    <3>1. PICK x : work' = [work EXCEPT ![<<ResumeDrop, 1>>] = [Idle EXCEPT !.pc = "sending", !.item = x]]
      BY <1>3, <2>2 DEF ResumePending
    <3>2. w = <<ResumeDrop, 1>> /\ work'[w] = [Idle EXCEPT !.pc = "sending", !.item = x]
      BY <1>0, <2>2, <3>1
    <3>3. work[w].pc # "listing"
      BY <1>0, <3>2 DEF WorkersFit, Early
    <3> QED
      BY <3>2, <3>3 DEF Idle
  <2>3. (\A e \in Queues : phase[e] # "new" => phase'[e] # "new") /\ \A e \in Drops : phase[e] = "swept" => phase'[e] = "swept"
    <3>1. phase' = [phase EXCEPT ![ResumeDrop] = "swept"] \/ phase' = [phase EXCEPT ![ResumeDrop] = "running"]
      BY <1>3 DEF ResumePending
    <3> QED
      BY <1>0, <3>1
  <2> QED
    BY <1>0, <2>1, <2>2, <2>3 DEF Quiet
<1> QED
  BY <1>1, <1>2, <1>3 DEF StartsOrEnds

LEMMA ReloadFolders ==
  ASSUME FoldersInv, Reload
  PROVE  FoldersKept
<1> USE DEF FoldersInv, server
<1>1. /\ UNCHANGED <<folders, doubled>> /\ cache' = [d \in Queues |-> <<>>] /\ work' = [w \in Agents |-> Idle]
      /\ phase' = [d \in Queues |-> IF d = ResumeDrop THEN "new" ELSE IF phase[d] = "running" THEN "swept" ELSE phase[d]]
  BY DEF Reload
<1>2. Grows /\ NamesOf' = NamesOf
  BY <1>1, FoldersStay
<1>3. Tree' /\ FoldersOnce'
  BY <1>1, <1>2 DEF Tree, FoldersOnce
<1>4. CachesFit'
  BY <1>1 DEF CachesFit
<1>5. \A w \in Agents : work'[w].pc = "off" /\ work'[w].folder = Root
  BY <1>1 DEF Idle
<1>6. WantsFit' /\ RacesNoted'
  <2>1. Root \in 0..Len(folders)
    BY NamesFacts DEF Root
  <2> QED
    BY <1>1, <1>5, <2>1 DEF WantsFit, RacesNoted
<1>7. FoldersKnown'
  <2> SUFFICES ASSUME NEW f \in DOMAIN folders PROVE phase'[folders[f].by] # "new" /\ Found(f)'
    BY <1>1 DEF FoldersKnown
  <2>1. PICK d : d = folders[f].by
    OBVIOUS
  <2>2. d \in Drops /\ d \in Queues /\ d # ResumeDrop /\ phase[d] # "new" /\ phase[d] \in {"new", "running", "swept"}
    BY <2>1, NamesFacts, AgentFacts DEF FoldersKnown, FolderRecs, Typed
  <2>3. phase'[d] = "swept"
    BY <1>1, <2>2
  <2>4. Found(f)'
    BY <1>1, <2>1, <2>3 DEF Found
  <2> QED
    BY <2>1, <2>3, <2>4
<1> QED
  BY <1>3, <1>4, <1>6, <1>7 DEF FoldersKept

\* The request for a folder fails: the worker looks for what it has made, perhaps.
LEMMA FailsFolders ==
  ASSUME FoldersInv, NEW w \in Agents, CreateFails(w)
  PROVE  FoldersKept
<1> USE AgentFacts DEF FoldersInv
<1> DEFINE d == w[1]
<1>1. /\ work[w].pc = "creating" /\ Goto(w, "listing") /\ UNCHANGED <<phase, cache, doubled>>
      /\ folders' = folders \/ folders' = Append(folders, NewFolder(w))
  BY DEF CreateFails, At, queues, history
<1>2. /\ \A v \in Agents : v # w => work'[v] = work[v]
      /\ work'[w].pc = "listing" /\ work'[w].item = work[w].item
      /\ work'[w].depth = work[w].depth /\ work'[w].folder = work[w].folder
  BY <1>1, GotoFacts DEF Steps
<1>3. Grows
  BY <1>1, FoldersStay, MakeFits
<1>4. \A v \in Agents : Wanted(v)' = Wanted(v) /\ work'[v].item = work[v].item
                        /\ work'[v].depth = work[v].depth /\ work'[v].folder = work[v].folder
  BY <1>2, WantedSame
<1>5. \A v \in Agents : /\ work'[v].pc \in {"creating", "listing"} <=> work[v].pc \in {"creating", "listing"}
                        /\ work'[v].pc = "creating" => work[v].pc = "creating"
                        /\ work[v].pc = "listing" => work'[v].pc = "listing"
                        /\ work'[v].pc \in {"hashing", "asking", "uploading"} =>
                             work[v].pc \in {"hashing", "asking", "uploading"}
  BY <1>1, <1>2
<1>6. Tree'
  BY <1>3 DEF Grows, Tree
<1>7. CachesFit'
  <2> SUFFICES ASSUME NEW e \in Queues PROVE CacheFits(cache'[e])
    BY DEF CachesFit, CacheFits
  <2> QED
    BY <1>1, <1>3, CacheStays
<1>8. WantsFit'
  <2> SUFFICES ASSUME NEW v \in Agents
               PROVE  /\ work'[v].folder \in 0..Len(folders')
                      /\ work'[v].pc \in {"creating", "listing"} =>
                           /\ work'[v].depth \in DOMAIN PathOf[work'[v].item]
                           /\ NamesOf'[work'[v].folder] = Path(work'[v].item, work'[v].depth - 1)
                      /\ work'[v].pc \in {"hashing", "asking", "uploading"} =>
                           NamesOf'[work'[v].folder] = PathOf[work'[v].item]
    BY DEF WantsFit, Path
  <2>1. work[v].folder \in 0..Len(folders)
    BY DEF WantsFit
  <2>2. work[v].folder \in 0..Len(folders') /\ NamesOf'[work[v].folder] = NamesOf[work[v].folder]
    BY <1>3, <2>1 DEF Grows
  <2> QED
    BY <1>4, <1>5, <2>2 DEF WantsFit
<1>9. RacesNoted'
  <2> SUFFICES ASSUME NEW v \in Agents, work'[v].pc \in {"creating", "listing"}
               PROVE  /\ \A u \in Workers(v[1]) \ {v} :
                           work'[u].pc \in {"creating", "listing"} /\ Wanted(u)' = Wanted(v)' => <<v[1], Wanted(v)'>> \in doubled'
                      /\ work'[v].pc = "creating" /\ Wanted(v)' \in DOMAIN cache'[v[1]] => <<v[1], Wanted(v)'>> \in doubled'
    BY DEF RacesNoted, Workers
  <2>1. v[1] \in Queues /\ \A u \in Workers(v[1]) : u \in Agents
    OBVIOUS
  <2> QED
    BY <1>1, <1>4, <1>5, <2>1 DEF RacesNoted
<1>10. ASSUME NEW f \in DOMAIN folders PROVE Found(f)' /\ phase'[(folders')[f].by] # "new"
  <2>0. PICK e, p : e = folders[f].by /\ p = NamesOf[f]
    OBVIOUS
  <2>1. e \in Queues /\ phase[e] # "new"
    BY <2>0, NamesFacts DEF FoldersKnown, FolderRecs
  <2>2. (folders')[f] = folders[f] /\ NamesOf'[f] = p
    <3>1. f \in 0..Len(folders)
      BY NamesFacts
    <3> QED
      BY <1>3, <2>0, <3>1 DEF Grows
  <2>3. \/ p \in DOMAIN cache[e] \/ <<e, p>> \in doubled
        \/ \E v \in Workers(e) : work[v].pc = "listing" /\ Wanted(v) = p /\ work[v].folder = folders[f].parent
        \/ phase[e] = "swept"
    BY <2>0 DEF Found, FoldersKnown
  <2>4. ASSUME NEW v \in Workers(e), work[v].pc = "listing", Wanted(v) = p, work[v].folder = folders[f].parent
        PROVE  work'[v].pc = "listing" /\ Wanted(v)' = p /\ work'[v].folder = folders[f].parent
    BY <1>4, <1>5, <2>1, <2>4
  <2>5. \/ p \in DOMAIN cache'[e] \/ <<e, p>> \in doubled'
        \/ \E v \in Workers(e) : work'[v].pc = "listing" /\ Wanted(v)' = p /\ work'[v].folder = folders[f].parent
        \/ phase'[e] = "swept"
    BY <1>1, <2>3, <2>4
  <2>6. Found(f)'
    BY <2>0, <2>2, <2>5 DEF Found, Workers
  <2> QED
    BY <1>1, <2>0, <2>1, <2>2, <2>6
<1>11. FoldersKnown' /\ FoldersOnce'
  <2>1. CASE UNCHANGED folders
    <3>1. FoldersKnown'
      BY <1>10, <2>1 DEF FoldersKnown
    <3>2. NamesOf' = NamesOf
      BY <2>1, FoldersStay
    <3>3. FoldersOnce'
      BY <1>1, <2>1, <3>2 DEF FoldersOnce
    <3> QED
      BY <3>1, <3>3
  <2>2. CASE folders' = Append(folders, NewFolder(w))
    <3>0. PICK n : n = Len(folders')
      OBVIOUS
    <3>1. n = Len(folders) + 1 /\ (folders')[n] = NewFolder(w) /\ NamesOf'[n] = Wanted(w)
      BY <1>1, <2>2, <3>0, MakeFits
    <3>2. \A f \in DOMAIN (folders') : f = n \/ f \in DOMAIN folders
      BY <1>3, <3>0, <3>1, NamesFacts DEF Grows
    <3>3. Found(n)' /\ phase'[(folders')[n].by] # "new"
      <4>1. NewFolder(w).by = d /\ NewFolder(w).parent = work[w].folder /\ phase[d] = "running" /\ w \in Workers(d)
        BY <1>1, WantedFacts
      <4>2. w \in Workers((folders')[n].by) /\ work'[w].pc = "listing" /\ Wanted(w)' = NamesOf'[n]
            /\ work'[w].folder = (folders')[n].parent
        BY <1>2, <1>4, <3>1, <4>1
      <4>3. Found(n)'
        BY <4>2 DEF Found, Workers
      <4>4. phase'[(folders')[n].by] # "new"
        BY <1>1, <3>1, <4>1
      <4> QED
        BY <4>3, <4>4
    <3>4. FoldersKnown'
      <4> SUFFICES ASSUME NEW f \in DOMAIN (folders') PROVE Found(f)' /\ phase'[(folders')[f].by] # "new"
        BY DEF FoldersKnown
      <4>1. CASE f = n
        BY <3>3, <4>1
      <4>2. CASE f # n
        BY <1>10, <3>2, <4>2
      <4> QED
        BY <4>1, <4>2
    <3> QED
      BY <1>1, <2>2, <3>4, OnceMore
  <2> QED
    BY <1>1, <2>1, <2>2
<1> QED
  BY <1>6, <1>7, <1>8, <1>9, <1>11 DEF FoldersKept

\* A worker goes down the folders of its file.
LEMMA SeeksFolders ==
  ASSUME FoldersInv, NEW w \in Agents, EnsureFolderExists(w) \/ CreateFolder(w) \/ FindFolder(w)
  PROVE  \E c : Enters(w, c)
<1> USE DEF FoldersInv, queues, server
<1>0. DOMAIN cache = Queues /\ w[1] \in Queues
  BY AgentFacts DEF Typed
<1>1. CASE EnsureFolderExists(w)
  <2> DEFINE c == cache[w[1]]
  <2>1. Grows /\ UNCHANGED <<folders, cache, phase>> /\ Descended(w, c) /\ work[w].pc = "folders"
    BY <1>1, EnsureFits DEF EnsureFolderExists, At
  <2>2. CacheFits(c)
    BY <1>0, <2>1, CacheStays
  <2>3. \A d \in Queues : cache'[d] = IF d = w[1] THEN c ELSE cache[d]
    BY <2>1
  <2> HIDE DEF c
  <2>4. DOMAIN cache[w[1]] = DOMAIN c
    BY DEF c
  <2>5. Enters(w, c)
    BY <2>1, <2>2, <2>3, <2>4 DEF Enters
  <2> QED
    BY <2>5
<1>2. ASSUME NEW f, CacheFits(Cached(w, f)), cache' = [cache EXCEPT ![w[1]] = Cached(w, f)],
             Descended(w, Cached(w, f)), Grows, UNCHANGED phase, work[w].pc \in {"creating", "listing"},
             \/ UNCHANGED folders
             \/ work[w].pc = "creating" /\ folders' = Append(folders, NewFolder(w))
      PROVE  Enters(w, Cached(w, f))
  <2>1. \A d \in Queues : cache'[d] = IF d = w[1] THEN Cached(w, f) ELSE cache[d]
    BY <1>0, <1>2
  <2>2. DOMAIN Cached(w, f) = DOMAIN cache[w[1]] \cup {Wanted(w)}
    BY DEF Cached, With
  <2> QED
    BY <1>2, <2>1, <2>2 DEF Enters
<1>3. CASE CreateFolder(w)
  <2>1. /\ work[w].pc = "creating" /\ folders' = Append(folders, NewFolder(w)) /\ UNCHANGED phase
    BY <1>3 DEF CreateFolder, Enter, At
  <2>2. Grows
    BY <2>1, MakeFits
  <2>3. PICK f : /\ CacheFits(Cached(w, f)) /\ cache' = [cache EXCEPT ![w[1]] = Cached(w, f)]
                 /\ Descended(w, Cached(w, f))
    BY <1>3, CreateFits
  <2> QED
    BY <1>2, <2>1, <2>2, <2>3
<1>4. CASE FindFolder(w)
  <2>1. work[w].pc = "listing" /\ UNCHANGED phase
    BY <1>4 DEF FindFolder, Enter, At
  <2>2. Grows /\ UNCHANGED folders
    BY <1>4, FindFits
  <2>3. PICK f : /\ CacheFits(Cached(w, f)) /\ cache' = [cache EXCEPT ![w[1]] = Cached(w, f)]
                 /\ Descended(w, Cached(w, f))
    BY <1>4, FindFits
  <2> QED
    BY <1>2, <2>1, <2>2, <2>3
<1> QED
  BY <1>1, <1>3, <1>4

LEMMA FoldersStep ==
  ASSUME FoldersInv, Next
  PROVE  FoldersKept
<1> USE DEF FoldersInv
<1>1. Places
  BY DEF Places
<1>2. CASE Stays
  <2>1. Quiet
    BY <1>2 DEF Stays, Aside, Quiet
  <2> QED
    BY <2>1, QuietFolders
<1>3. CASE StartsOrEnds
  BY <1>3, StartsQuiet, QuietFolders, ReloadFolders
<1>4. ASSUME NEW w \in Agents, SeeksFolder(w) PROVE FoldersKept
  BY <1>4, SeeksFolders, EntersFolders, FailsFolders DEF SeeksFolder
<1>5. ASSUME NEW w \in Agents, Turns(w) \/ Leaves(w) PROVE FoldersKept
  BY <1>5, TurnsQuiet, LeavesQuiet, QuietFolders
<1> QED
  BY <1>1, <1>2, <1>3, <1>4, <1>5, Shapes

-----------------------------------------------------------------------------
\* Who works at what after every step.
LEMMA SeekMoves ==
  ASSUME FoldersInv, NEW w \in Agents, SeeksFolder(w)
  PROVE  /\ Changes(w) /\ UNCHANGED <<todo, phase, dialog>> /\ DOMAIN cache' = Queues /\ Grows
         /\ work[w].pc \in {"folders", "creating", "listing"} /\ work'[w].pc \in {"hashing", "creating", "listing"}
<1> USE DEF FoldersInv, queues, screen, server
<1>0. DOMAIN cache = Queues
  BY DEF Typed
<1>1. CASE CreateFails(w)
  <2>1. /\ work[w].pc = "creating" /\ Goto(w, "listing") /\ UNCHANGED <<todo, phase, dialog, cache>>
        /\ folders' = folders \/ folders' = Append(folders, NewFolder(w))
    BY <1>1 DEF CreateFails, At
  <2>2. Changes(w) /\ work'[w].pc = "listing"
    BY <2>1, GotoFacts DEF Steps, Changes
  <2>3. Grows
    BY <2>1, FoldersStay, MakeFits
  <2> QED
    BY <1>0, <2>1, <2>2, <2>3
<1>2. CASE EnsureFolderExists(w) \/ CreateFolder(w) \/ FindFolder(w)
  <2>1. PICK c : Enters(w, c)
    BY <1>2, SeeksFolders
  <2>2. Changes(w) /\ work'[w].pc \in {"hashing", "creating"}
    BY <2>1 DEF Enters, Descended
  <2>3. UNCHANGED <<todo, phase, dialog>> /\ DOMAIN cache' = Queues
    BY <1>0, <1>2 DEF EnsureFolderExists, CreateFolder, FindFolder, Enter
  <2> QED
    BY <2>1, <2>2, <2>3 DEF Enters
<1> QED
  BY <1>1, <1>2 DEF SeeksFolder

LEMMA StepGrows ==
  ASSUME FoldersInv, Next
  PROVE  Grows
<1>1. Places
  BY DEF Places, FoldersInv
<1>2. CASE Stays \/ \E w \in Agents : Turns(w) \/ Leaves(w)
  BY <1>2, FoldersStay DEF Stays, Turns, Leaves, Aside, FoldersInv
<1>3. CASE StartsOrEnds
  BY <1>3, FoldersStay DEF StartsOrEnds, OnUpload, Sweep, Reload, ResumePending, FoldersInv, server
<1> QED
  BY <1>1, <1>2, <1>3, SeekMoves, Shapes

\* OnUpload gives the first files of the drop to its workers, one each.
LEMMA UploadStarts ==
  ASSUME Places, NEW d \in Drops, OnUpload(d)
  PROVE  /\ phase[d] = "new" /\ UNCHANGED dialog /\ phase' = [phase EXCEPT ![d] = "running"]
         /\ work' \in [Agents -> WorkRecs] /\ todo' \in [Queues -> Seq(Items)]
         /\ \A w \in Agents : \/ work'[w] = work[w] /\ (w[1] = d => work[w].pc = "off")
                              \/ /\ w[1] = d /\ work[w].pc = "off" /\ w[2] \in DOMAIN todo[d]
                                 /\ work'[w].pc = "folders" /\ work'[w].item = todo[d][w[2]]
                                 /\ w = <<d, w[2]>> /\ w[2] \in 1..CONCURRENCY
         /\ \A e \in Queues : e # d => todo'[e] = todo[e]
         /\ \A n \in DOMAIN todo'[d] : n + CONCURRENCY \in DOMAIN todo[d] /\ todo'[d][n] = todo[d][n + CONCURRENCY]
<1>0. /\ todo \in [Queues -> Seq(Items)] /\ work \in [Agents -> WorkRecs] /\ d \in Queues /\ d # ResumeDrop
      /\ todo[d] \in Seq(Items) /\ CONCURRENCY \in Nat
  BY AgentFacts, BoundAssumption DEF Places, Typed
<1>1. /\ phase[d] = "new" /\ UNCHANGED dialog /\ phase' = [phase EXCEPT ![d] = "running"]
      /\ todo' = [todo EXCEPT ![d] = SubSeq(@, CONCURRENCY + 1, Len(@))]
      /\ work' = [w \in Agents |-> IF w[1] = d /\ w[2] <= Len(todo[d])
                                   THEN [Idle EXCEPT !.pc = "folders", !.item = todo[d][w[2]]] ELSE work[w]]
  BY DEF OnUpload
<1>2. /\ DOMAIN todo[d] = 1..Len(todo[d]) /\ Len(todo[d]) \in Nat
      /\ SubSeq(todo[d], CONCURRENCY + 1, Len(todo[d])) \in Seq(Items)
      /\ \A n \in DOMAIN SubSeq(todo[d], CONCURRENCY + 1, Len(todo[d])) :
            /\ n + CONCURRENCY \in DOMAIN todo[d]
            /\ SubSeq(todo[d], CONCURRENCY + 1, Len(todo[d]))[n] = todo[d][n + CONCURRENCY]
  BY <1>0
<1>3. /\ todo' \in [Queues -> Seq(Items)] /\ \A e \in Queues : e # d => todo'[e] = todo[e]
      /\ todo'[d] = SubSeq(todo[d], CONCURRENCY + 1, Len(todo[d]))
  BY <1>0, <1>1, <1>2
<1>4. ASSUME NEW w \in Agents
      PROVE  /\ w[1] = d => work[w].pc = "off"
             /\ work'[w] = work[w] \/ /\ w[1] = d /\ work'[w].pc = "folders" /\ work'[w].item = todo[d][w[2]]
                                      /\ w[2] \in DOMAIN todo[d] /\ work'[w] \in WorkRecs
                                      /\ w = <<d, w[2]>> /\ w[2] \in 1..CONCURRENCY
  <2>1. w[1] = d => work[w].pc = "off"
    BY <1>1 DEF Places, WorkersFit
  <2>2. CASE w[1] = d /\ w[2] <= Len(todo[d])
    <3>1. w \in Workers(d)
      BY <2>2, AgentFacts
    <3>2. w[2] \in 1..CONCURRENCY /\ w = <<d, w[2]>>
      BY <1>0, <3>1 DEF Workers
    <3>3. w[2] \in DOMAIN todo[d]
      BY <1>0, <1>2, <2>2, <3>2
    <3>4. todo[d][w[2]] \in Items
      BY <1>0, <3>3
    <3>5. work'[w] = [Idle EXCEPT !.pc = "folders", !.item = todo[d][w[2]]]
      BY <1>1, <2>2
    <3>6. work'[w] = [pc |-> "folders", item |-> todo[d][w[2]], depth |-> 0, folder |-> 0]
      BY <3>5 DEF Idle, Root
    <3>7. work'[w] \in WorkRecs /\ work'[w].pc = "folders" /\ work'[w].item = todo[d][w[2]]
      BY <3>4, <3>6 DEF WorkRecs, Steps
    <3> QED
      BY <2>1, <2>2, <3>2, <3>3, <3>7
  <2>3. CASE ~(w[1] = d /\ w[2] <= Len(todo[d]))
    BY <1>1, <2>1, <2>3
  <2> QED
    BY <2>2, <2>3
<1>5. work' \in [Agents -> WorkRecs]
  <2>1. work' = [w \in Agents |-> work'[w]]
    BY <1>1
  <2>2. \A w \in Agents : work'[w] \in WorkRecs
    BY <1>0, <1>4
  <2> QED
    BY <2>1, <2>2
<1> QED
  BY <1>1, <1>2, <1>3, <1>4, <1>5

\* ResumePending gives one of the files to its worker and queues the others.
LEMMA ResumeStarts ==
  ASSUME Places, ResumePending
  PROVE  /\ UNCHANGED dialog /\ \A d \in Drops : phase'[d] = phase[d]
         /\ phase' \in [Queues -> {"new", "running", "swept"}]
         /\ work' \in [Agents -> WorkRecs] /\ todo' \in [Queues -> Seq(Items)]
         /\ \A w \in Agents : \/ work'[w] = work[w]
                              \/ /\ w[1] = ResumeDrop /\ work'[w].pc = "sending" /\ work'[w].item \in Resumable
         /\ \A d \in Drops : todo'[d] = todo[d]
         /\ Waiting(ResumeDrop)' \subseteq Resumable \cup Waiting(ResumeDrop)
<1>0. /\ todo \in [Queues -> Seq(Items)] /\ work \in [Agents -> WorkRecs] /\ metas \subseteq Large /\ Large \subseteq Items
      /\ ResumeDrop \in Queues /\ ResumeDrop \notin Drops /\ Drops \subseteq Queues
      /\ phase \in [Queues -> {"new", "running", "swept"}]
  BY AgentFacts, ItemsAssumption DEF Places, Typed
<1>1. CASE Resumable = {}
  <2>1. phase' = [phase EXCEPT ![ResumeDrop] = "swept"] /\ UNCHANGED <<todo, work, dialog>>
    BY <1>1 DEF ResumePending
  <2>2. Waiting(ResumeDrop)' = Waiting(ResumeDrop)
    BY <2>1 DEF Waiting
  <2> QED
    BY <1>0, <2>1, <2>2
<1>2. CASE Resumable # {}
  <2>1. PICK order \in [1..Cardinality(Resumable) -> Resumable] :
          /\ phase' = [phase EXCEPT ![ResumeDrop] = "running"]
          /\ todo' = [todo EXCEPT ![ResumeDrop] = Tail(order)]
          /\ work' = [work EXCEPT ![<<ResumeDrop, 1>>] = [Idle EXCEPT !.pc = "sending", !.item = order[1]]]
    BY <1>2 DEF ResumePending
  <2>2. Cardinality(Resumable) \in Nat /\ Cardinality(Resumable) >= 1
    <3>1. Resumable \subseteq Items
      BY <1>0 DEF Resumable
    <3>2. IsFiniteSet(Resumable)
      BY <3>1, ItemsAssumption, FS_Subset
    <3> QED
      BY <1>2, <3>2, FS_CardinalityType, FS_EmptySet
  <2> DEFINE n == Cardinality(Resumable)
  <2> HIDE DEF n
  <2>3. PICK R : R = Resumable /\ R \subseteq Items
    BY <1>0 DEF Resumable
  <2>4. /\ order[1] \in R
        /\ Tail(order) \in Seq(Items)
        /\ \A m \in DOMAIN Tail(order) : Tail(order)[m] \in R
    <3>1. order \in [1..n -> R] /\ n \in Nat /\ n >= 1
      BY <2>1, <2>2, <2>3 DEF n
    <3>2. order \in Seq(R) /\ Len(order) = n /\ DOMAIN order = 1..n
      BY <3>1
    <3>3. order # <<>>
      BY <3>1, <3>2
    <3>4. 1 \in DOMAIN order
      BY <3>1, <3>2
    <3>5. order[1] \in R
      BY <3>1, <3>4
    <3>6. Tail(order) \in Seq(R)
      BY <3>2, <3>3
    <3>7. \A m \in DOMAIN Tail(order) : Tail(order)[m] \in R
      <4>1. PICK t : t = Tail(order)
        OBVIOUS
      <4>2. t \in Seq(R)
        BY <3>6, <4>1
      <4>3. \A m \in DOMAIN t : t[m] \in R
        BY ONLY <4>2
      <4> QED
        BY <4>1, <4>3
    <3>8. order \in Seq(Items)
      BY <2>3, <3>2
    <3>9. Tail(order) \in Seq(Items)
      BY <3>3, <3>8
    <3> QED
      BY <3>5, <3>7, <3>9
  <2>5. /\ todo' \in [Queues -> Seq(Items)] /\ (\A d \in Drops : todo'[d] = todo[d]) /\ todo'[ResumeDrop] = Tail(order)
    BY <1>0, <2>1, <2>4
  <2>6. /\ phase' \in [Queues -> {"new", "running", "swept"}] /\ \A d \in Drops : phase'[d] = phase[d]
    BY <1>0, <2>1
  <2>7. PICK r : r = [Idle EXCEPT !.pc = "sending", !.item = order[1]]
    OBVIOUS
  <2>8. r = [pc |-> "sending", item |-> order[1], depth |-> 0, folder |-> 0]
    BY <2>7 DEF Idle, Root
  <2>9. r \in WorkRecs /\ r.pc = "sending" /\ r.item \in Resumable
    BY <2>3, <2>4, <2>8 DEF WorkRecs, Steps
  <2>10. work' = [work EXCEPT ![<<ResumeDrop, 1>>] = r]
    BY <2>1, <2>7
  <2>11. work' \in [Agents -> WorkRecs]
         /\ \A w \in Agents : work'[w] = work[w] \/ (w = <<ResumeDrop, 1>> /\ work'[w] = r)
    BY <1>0, <2>9, <2>10
  <2>12. Waiting(ResumeDrop)' \subseteq Resumable
    BY <2>3, <2>4, <2>5 DEF Waiting
  <2>13. UNCHANGED dialog
    BY DEF ResumePending
  <2> QED
    BY <2>5, <2>6, <2>9, <2>11, <2>12, <2>13
<1> QED
  BY <1>1, <1>2

\* The types of what the queues and workers are made of, and where they are.
TypedQueues ==
    /\ todo \in [Queues -> Seq(Items)]
    /\ phase \in [Queues -> {"new", "running", "swept"}]
    /\ DOMAIN cache = Queues
    /\ work \in [Agents -> WorkRecs]
    /\ dialog \in Agents \cup {Nobody}

WorkerFits(w) ==
    /\ (work[w].item = Nobody) = (work[w].pc \in Off)
    /\ work[w].pc \in Early \cup {"saving", "savingChunks"} => w[1] \in Drops
    /\ work[w].pc # "off" /\ w[1] \in Drops => phase[w[1]] = "running"
    /\ work[w].pc \in Late => work[w].item \in Large

PlacesKept ==
    /\ TypedQueues' /\ \A w \in Agents : WorkerFits(w)'
    /\ dialog' # Nobody => work'[dialog'].pc = "asking"
    /\ Waiting(ResumeDrop)' \subseteq Large

LEMMA PlacesParts ==
  ASSUME Places
  PROVE  /\ TypedQueues /\ (\A w \in Agents : WorkerFits(w)) /\ (dialog # Nobody => work[dialog].pc = "asking")
         /\ Waiting(ResumeDrop) \subseteq Large
  BY DEF Places, Typed, WorkersFit, TypedQueues, WorkerFits

LEMMA TurnsPlaces ==
  ASSUME Places, NEW w \in Agents, Turns(w)
  PROVE  PlacesKept
<1> USE PlacesParts, AgentFacts
<1>1. /\ UNCHANGED <<todo, phase, cache>> /\ Changes(w) /\ work[w].pc \notin Off /\ work[w].pc # "off" /\ Item(w) \in Items
      /\ work'[w].pc \notin Off /\ work'[w].pc # "off"
      /\ work'[w].pc \in Early \cup {"saving", "savingChunks"} => work[w].pc \in Early \cup {"saving", "savingChunks"}
      /\ work'[w].pc \in Late => Item(w) \in Large
  <2>1. work[w].pc \notin Off
    BY DEF Turns, Late, Off
  <2>2. Item(w) \in Items /\ (work[w].pc \in Late => Item(w) \in Large)
    BY <2>1, BusyFacts DEF Places
  <2> QED
    BY <2>1, <2>2 DEF Turns, Aside, Late, Early, Off, InitUpload
<1>2. dialog' \in Agents \cup {Nobody} /\ (dialog' # Nobody => work'[dialog'].pc = "asking")
  BY <1>1 DEF Turns, DialogLeaves, TypedQueues, Changes
<1>3. TypedQueues'
  BY <1>1, <1>2 DEF TypedQueues, Changes
<1>4. ASSUME NEW v \in Agents PROVE WorkerFits(v)'
  <2>1. CASE v # w
    BY <1>1, <2>1 DEF WorkerFits, Changes
  <2>2. CASE v = w
    <3>1. work'[w].item = Item(w) /\ Item(w) # Nobody
      BY <1>1 DEF Changes, Item
    <3> QED
      BY <1>1, <2>2, <3>1 DEF WorkerFits
  <2> QED
    BY <2>1, <2>2
<1>5. Waiting(ResumeDrop)' \subseteq Large
  BY <1>1 DEF Waiting
<1> QED
  BY <1>2, <1>3, <1>4, <1>5 DEF PlacesKept

LEMMA SeeksPlaces ==
  ASSUME FoldersInv, NEW w \in Agents, SeeksFolder(w)
  PROVE  PlacesKept
<1> USE PlacesParts, AgentFacts
<1>0. Places
  BY DEF FoldersInv, Places
<1>1. /\ UNCHANGED <<todo, phase, dialog>> /\ DOMAIN cache' = Queues /\ Changes(w)
      /\ work[w].pc \in {"folders", "creating", "listing"} /\ work'[w].pc \in {"hashing", "creating", "listing"}
  BY SeekMoves
<1>2. Item(w) \in Items
  BY <1>0, <1>1, BusyFacts DEF Places, Off
<1>3. dialog' \in Agents \cup {Nobody} /\ (dialog' # Nobody => work'[dialog'].pc = "asking")
  BY <1>0, <1>1 DEF TypedQueues, Changes
<1>4. TypedQueues'
  BY <1>0, <1>1, <1>3 DEF TypedQueues, Changes
<1>5. ASSUME NEW v \in Agents PROVE WorkerFits(v)'
  <2>1. CASE v # w
    BY <1>0, <1>1, <2>1 DEF WorkerFits, Changes
  <2>2. CASE v = w
    <3>1. work'[w].item = Item(w) /\ Item(w) # Nobody
      BY <1>1, <1>2 DEF Changes, Item
    <3> QED
      BY <1>0, <1>1, <2>2, <3>1 DEF WorkerFits, Early, Off, Late
  <2> QED
    BY <2>1, <2>2
<1>6. Waiting(ResumeDrop)' \subseteq Large
  BY <1>0, <1>1 DEF Waiting
<1> QED
  BY <1>3, <1>4, <1>5, <1>6 DEF PlacesKept

LEMMA LeavesPlaces ==
  ASSUME Places, NEW w \in Agents, Leaves(w)
  PROVE  PlacesKept
<1> USE PlacesParts, AgentFacts
<1> DEFINE d == w[1]
<1>0. Typed
  BY DEF Places
<1>1. /\ UNCHANGED <<phase, cache>> /\ work[w].pc \notin Off /\ DialogLeaves(w)
  BY DEF Leaves, Aside
<1>2. /\ work' \in [Agents -> WorkRecs] /\ todo' \in [Queues -> Seq(Items)]
      /\ \A v \in Agents : v # w => work'[v] = work[v]
      /\ work'[w].folder = Root
      /\ \A e \in Queues : e # d => todo'[e] = todo[e]
      /\ \/ work'[w].pc = "done" /\ work'[w].item = Nobody /\ todo' = todo
         \/ /\ 1 \in DOMAIN todo[d] /\ work'[w].item = todo[d][1]
            /\ work'[w].pc = IF d = ResumeDrop THEN "sending" ELSE "folders"
            /\ \A n \in DOMAIN todo'[d] : n + 1 \in DOMAIN todo[d] /\ n + 1 # 1
                                           /\ todo'[d][n] = todo[d][n + 1]
  <2>1. TakesNext(w)
    BY DEF Leaves
  <2> QED
    BY <1>0, <2>1, TakesNextFacts
<1>3. dialog' \in Agents \cup {Nobody} /\ (dialog' # Nobody => work'[dialog'].pc = "asking")
  BY <1>1, <1>2 DEF DialogLeaves, TypedQueues
<1>4. TypedQueues'
  BY <1>1, <1>2, <1>3 DEF TypedQueues
<1>5. d \in Drops => phase[d] = "running"
  BY <1>1 DEF WorkerFits, Off
<1>6. d = ResumeDrop /\ 1 \in DOMAIN todo[d] => todo[d][1] \in Large
  BY DEF Waiting
<1>7. 1 \in DOMAIN todo[d] => todo[d][1] \in Items /\ todo[d][1] # Nobody
  <2>1. todo[d] \in Seq(Items)
    BY DEF TypedQueues
  <2> QED
    BY <2>1
<1>8. ASSUME NEW v \in Agents PROVE WorkerFits(v)'
  <2>1. CASE v # w
    BY <1>1, <1>2, <2>1 DEF WorkerFits
  <2>2. CASE v = w
    BY <1>1, <1>2, <1>5, <1>6, <1>7, <2>2 DEF WorkerFits, Early, Late, Off, Queues
  <2> QED
    BY <2>1, <2>2
<1>9. Waiting(ResumeDrop)' \subseteq Large
  BY <1>2 DEF Waiting
<1> QED
  BY <1>3, <1>4, <1>8, <1>9 DEF PlacesKept

LEMMA StartsPlaces ==
  ASSUME Places, NEW d \in Drops, OnUpload(d)
  PROVE  PlacesKept
<1> USE PlacesParts, AgentFacts
<1>1. /\ phase[d] = "new" /\ UNCHANGED dialog /\ phase' = [phase EXCEPT ![d] = "running"]
      /\ work' \in [Agents -> WorkRecs] /\ todo' \in [Queues -> Seq(Items)]
      /\ \A w \in Agents : \/ work'[w] = work[w] /\ (w[1] = d => work[w].pc = "off")
                           \/ /\ w[1] = d /\ work[w].pc = "off" /\ w[2] \in DOMAIN todo[d]
                              /\ work'[w].pc = "folders" /\ work'[w].item = todo[d][w[2]]
                              /\ w = <<d, w[2]>> /\ w[2] \in 1..CONCURRENCY
      /\ \A e \in Queues : e # d => todo'[e] = todo[e]
  BY UploadStarts
<1>2. TypedQueues'
  <2>1. UNCHANGED cache
    BY DEF OnUpload
  <2>2. phase' \in [Queues -> {"new", "running", "swept"}]
    BY <1>1 DEF TypedQueues
  <2>3. dialog' \in Agents \cup {Nobody} /\ DOMAIN cache' = Queues
    BY <1>1, <2>1 DEF TypedQueues
  <2> QED
    BY <1>1, <2>2, <2>3 DEF TypedQueues
<1>3. dialog' # Nobody => work'[dialog'].pc = "asking"
  BY <1>1 DEF TypedQueues
<1>4. phase'[d] = "running" /\ \A e \in Drops : e # d => phase'[e] = phase[e]
  BY <1>1 DEF TypedQueues
<1>5. ASSUME NEW w \in Agents PROVE WorkerFits(w)'
  <2>1. CASE w[1] = d /\ work[w].pc = "off" /\ w[2] \in DOMAIN todo[d]
             /\ work'[w].pc = "folders" /\ work'[w].item = todo[d][w[2]]
    <3>1. todo[d] \in Seq(Items)
      BY DEF TypedQueues
    <3>2. work'[w].item \in Items
      BY <2>1, <3>1
    <3> QED
      BY <1>4, <2>1, <3>2 DEF WorkerFits, Off, Late
  <2>2. CASE work'[w] = work[w] /\ (w[1] = d => work[w].pc = "off")
    BY <1>4, <2>2 DEF WorkerFits
  <2> QED
    BY <1>1, <2>1, <2>2
<1>6. Waiting(ResumeDrop)' \subseteq Large
  BY <1>1 DEF Waiting
<1> QED
  BY <1>2, <1>3, <1>5, <1>6 DEF PlacesKept

LEMMA IdleFacts == Idle \in WorkRecs /\ Idle.pc = "off" /\ Idle.item = Nobody
  BY DEF Idle, WorkRecs, Steps, Root

LEMMA SweepPlaces ==
  ASSUME Places, NEW d \in Queues, Sweep(d)
  PROVE  PlacesKept
<1> USE PlacesParts, AgentFacts
<1>1. /\ UNCHANGED <<todo, cache, dialog>> /\ phase' = [phase EXCEPT ![d] = "swept"]
      /\ \A w \in Workers(d) : work[w].pc \in {"off", "done"}
      /\ work' = [w \in Agents |-> IF w[1] = d THEN Idle ELSE work[w]]
  BY DEF Sweep
<1>2. \A w \in Agents : IF w[1] = d THEN work'[w] = Idle /\ work[w].pc \in Off ELSE work'[w] = work[w]
  BY <1>1 DEF Off
<1>3. work' \in [Agents -> WorkRecs]
  BY <1>1, IdleFacts DEF TypedQueues
<1>4. TypedQueues'
  BY <1>1, <1>3 DEF TypedQueues
<1>5. dialog' # Nobody => work'[dialog'].pc = "asking"
  BY <1>1, <1>2 DEF TypedQueues, Off
<1>6. ASSUME NEW w \in Agents PROVE WorkerFits(w)'
  <2>1. CASE w[1] = d
    BY <1>2, <2>1, IdleFacts DEF WorkerFits, Off, Early, Late
  <2>2. CASE w[1] # d
    <3>1. w[1] \in Queues /\ phase'[w[1]] = phase[w[1]]
      BY <1>1, <2>2 DEF TypedQueues
    <3> QED
      BY <1>2, <2>2, <3>1 DEF WorkerFits
  <2> QED
    BY <2>1, <2>2
<1>7. Waiting(ResumeDrop)' \subseteq Large
  BY <1>1 DEF Waiting
<1> QED
  BY <1>4, <1>5, <1>6, <1>7 DEF PlacesKept

LEMMA ReloadPlaces ==
  ASSUME Places, Reload
  PROVE  PlacesKept
<1> USE PlacesParts, AgentFacts
<1>1. /\ todo' = [d \in Queues |-> IF phase[d] = "running" THEN <<>> ELSE todo[d]]
      /\ phase' = [d \in Queues |-> IF d = ResumeDrop THEN "new" ELSE IF phase[d] = "running" THEN "swept" ELSE phase[d]]
      /\ cache' = [d \in Queues |-> <<>>] /\ work' = [w \in Agents |-> Idle] /\ dialog' = Nobody
  BY DEF Reload
<1>2. \A d \in Queues : todo'[d] = <<>> \/ todo'[d] = todo[d]
  BY <1>1
<1>3. todo' \in [Queues -> Seq(Items)] /\ phase' \in [Queues -> {"new", "running", "swept"}]
  BY <1>1 DEF TypedQueues
<1>4. TypedQueues'
  BY <1>1, <1>3, IdleFacts DEF TypedQueues
<1>5. ASSUME NEW w \in Agents PROVE WorkerFits(w)'
  BY <1>1, IdleFacts DEF WorkerFits, Off, Early, Late
<1>6. Waiting(ResumeDrop)' \subseteq Large
  BY <1>2 DEF Waiting
<1> QED
  BY <1>1, <1>4, <1>5, <1>6 DEF PlacesKept

LEMMA ResumePlaces ==
  ASSUME Places, ResumePending
  PROVE  PlacesKept
<1> USE PlacesParts, AgentFacts
<1>1. /\ UNCHANGED <<dialog, cache>> /\ \A d \in Drops : phase'[d] = phase[d]
      /\ phase' \in [Queues -> {"new", "running", "swept"}]
      /\ work' \in [Agents -> WorkRecs] /\ todo' \in [Queues -> Seq(Items)]
      /\ \A w \in Agents : \/ work'[w] = work[w]
                           \/ /\ w[1] = ResumeDrop /\ work'[w].pc = "sending" /\ work'[w].item \in Resumable
      /\ Waiting(ResumeDrop)' \subseteq Resumable \cup Waiting(ResumeDrop)
  <2>1. UNCHANGED cache
    BY DEF ResumePending
  <2> QED
    BY <2>1, ResumeStarts
<1>2. Resumable \subseteq Large /\ Large \subseteq Items
  BY ItemsAssumption DEF Resumable, Places, Typed
<1>3. TypedQueues'
  BY <1>1 DEF TypedQueues
<1>4. dialog' # Nobody => work'[dialog'].pc = "asking"
  <2>1. dialog # Nobody => dialog \in Agents /\ dialog[1] \in Drops
    BY DEF TypedQueues, WorkerFits, Early
  <2> QED
    BY <1>1, <2>1
<1>5. ASSUME NEW w \in Agents PROVE WorkerFits(w)'
  <2>1. CASE work'[w] = work[w]
    BY <1>1, <2>1 DEF WorkerFits
  <2>2. CASE w[1] = ResumeDrop /\ work'[w].pc = "sending" /\ work'[w].item \in Resumable
    BY <1>2, <2>2 DEF WorkerFits, Early, Off
  <2> QED
    BY <1>1, <2>1, <2>2
<1>6. Waiting(ResumeDrop)' \subseteq Large
  BY <1>1, <1>2
<1> QED
  BY <1>1, <1>3, <1>4, <1>5, <1>6 DEF PlacesKept

LEMMA PlacesStep ==
  ASSUME FoldersInv, Next
  PROVE  PlacesKept
<1>0. Places
  BY DEF FoldersInv, Places
<1>1. CASE Stays
  <2>1. UNCHANGED <<todo, phase, cache, work, dialog>>
    BY <1>1 DEF Stays, Aside
  <2>2. /\ TypedQueues /\ (\A w \in Agents : WorkerFits(w)) /\ (dialog # Nobody => work[dialog].pc = "asking")
        /\ Waiting(ResumeDrop) \subseteq Large
    BY <1>0, PlacesParts
  <2> QED
    BY <2>1, <2>2 DEF PlacesKept, TypedQueues, WorkerFits, Waiting
<1>2. CASE StartsOrEnds
  BY <1>0, <1>2, StartsPlaces, SweepPlaces, ReloadPlaces, ResumePlaces DEF StartsOrEnds
<1> QED
  BY <1>0, <1>1, <1>2, TurnsPlaces, SeeksPlaces, LeavesPlaces, Shapes

-----------------------------------------------------------------------------
\* The sessions after every step: a file gets its session when it is uploaded.
Begins(w) ==
    /\ work[w].pc = "uploading" /\ Item(w) \in Large
    /\ InitUpload(w) \/ (UploadFails(w) /\ Known(Item(w)))

LEMMA SessionSteps ==
  ASSUME Places, Next
  PROVE  SessionsStep \/ \E w \in Agents : Begins(w)
<1> USE DEF server, SessionsStep
<1>1. ASSUME NEW w \in Agents, UploadFails(w) PROVE SessionsStep \/ Begins(w)
  <2>1. CASE Item(w) \notin Large \/ PreCheck(Item(w))
    BY <1>1, <2>1 DEF UploadFails
  <2>2. CASE ~(Item(w) \notin Large \/ PreCheck(Item(w)))
    <3>1. session' = session \/ session' = [session EXCEPT ![Item(w)].state = "pending"]
      BY <1>1, <2>2 DEF UploadFails
    <3> QED
      BY <1>1, <2>2, <3>1 DEF Begins, Known, UploadFails, At
  <2> QED
    BY <2>1, <2>2
<1>2. ASSUME NEW w \in Agents, InitUpload(w) PROVE Begins(w)
  BY <1>2 DEF InitUpload, Begins, At
<1>3. ASSUME NEW w \in Agents, CompleteUpload(w) \/ CompleteFails(w) PROVE SessionsStep
  <2>1. Item(w) \in Large
    BY <1>3, BusyFacts DEF CompleteUpload, CompleteFails, At, Late, Off, Places
  <2>2. Completed(Item(w)) \/ UNCHANGED session
    BY <1>3 DEF CompleteUpload, CompleteFails
  <2>3. Ended(Item(w)) \/ UNCHANGED session
    BY <2>2 DEF Completed, Ended
  <2> QED
    BY <2>1, <2>3
<1>4. ASSUME NEW w \in Agents,
             \/ EnsureFolderExists(w) \/ CreateFolder(w) \/ CreateFails(w) \/ FindFolder(w) \/ NoFolder(w)
             \/ ListFails(w) \/ SkipExisting(w) \/ AskOverwrite(w) \/ Proceed(w)
      PROVE  UNCHANGED session
  BY <1>4 DEF EnsureFolderExists, CreateFolder, CreateFails, FindFolder, NoFolder, ListFails, SkipExisting,
              AskOverwrite, Proceed, Enter
<1>5. ASSUME NEW w \in Agents,
             \/ UploadFile(w) \/ StoreMeta(w) \/ StoreChunks(w) \/ StoreFails(w) \/ AllSent(w) \/ GiveUp(w)
             \/ CompleteRefused(w) \/ CleanupUpload(w)
      PROVE  UNCHANGED session
  BY <1>5 DEF UploadFile, StoreMeta, StoreChunks, StoreFails, StartSending, AllSent, GiveUp, CompleteRefused, CleanupUpload
<1>6. ASSUME NEW i \in Large, NEW p \in Parts, SendPart(i, p) \/ PartFails(i, p) PROVE SessionsStep
  <2>1. UNCHANGED session \/ Grew(i, p)
    BY <1>6 DEF SendPart, PartFails, Grew
  <2> QED
    BY <2>1
<1>7. ASSUME NEW i \in Items, CancelUpload(i) PROVE SessionsStep
  <2> DEFINE s == rows[i].session
  <2>1. i \in DOMAIN rows /\ (UNCHANGED session \/ (s # Nobody /\ Cut(s)))
    BY <1>7 DEF CancelUpload, Cut
  <2>2. s \in Large \cup {Nobody}
    BY <2>1 DEF Places, Typed, RowRecs
  <2> QED
    BY <2>1, <2>2
<1>8. ASSUME AnswerYes \/ AnswerNo \/ RefreshFiles \/ Reload \/ ResumePending PROVE UNCHANGED session
  BY <1>8 DEF AnswerYes, AnswerNo, RefreshFiles, Reload, ResumePending
<1>9. ASSUME NEW d, OnUpload(d) \/ Sweep(d) PROVE UNCHANGED session
  BY <1>9 DEF OnUpload, Sweep
<1>10. CASE UNCHANGED session
  BY <1>10
<1> QED
  BY <1>1, <1>2, <1>3, <1>4, <1>5, <1>6, <1>7, <1>8, <1>9, <1>10 DEF Next

LEMMA BeginsFacts ==
  ASSUME Places, NEW w \in Agents, Begins(w)
  PROVE  /\ session' \in [Large -> SessionRecs]
         /\ session'[Item(w)].state = "pending"
         /\ InitUpload(w) => session'[Item(w)].folder = work[w].folder
         /\ UploadFails(w) => session'[Item(w)].folder = session[Item(w)].folder
         /\ \A j \in Large : j # Item(w) => session'[j] = session[j]
         /\ \A j \in Large : session'[j].state = "completed" => session'[j].parts = Parts
<1>1. Typed /\ work[w].folder \in Nat /\ Item(w) \in Large /\ session[Item(w)].folder \in Nat
  BY DEF Places, Typed, WorkRecs, SessionRecs, Begins
<1>2. CASE InitUpload(w)
  <2>1. Begun(Item(w), work[w].folder)
    BY <1>2 DEF InitUpload, Begun
  <2>2. ~UploadFails(w)
    <3>1. work'[w].pc = "saving"
      BY <1>1, <1>2, GotoFacts DEF InitUpload, Steps
    <3>2. UploadFails(w) => TakesNext(w)
      BY NextItemTakes DEF UploadFails
    <3>3. UploadFails(w) => work'[w].pc # "saving"
      BY <1>1, <3>2, TakesNextFacts
    <3> QED
      BY <3>1, <3>3
  <2> QED
    BY <1>1, <2>1, <2>2, FirstFacts
<1>3. CASE UploadFails(w) /\ ~InitUpload(w)
  <2>1. Known(Item(w))
    BY <1>3 DEF Begins
  <2>2. /\ session' \in [Large -> SessionRecs]
        /\ session'[Item(w)].state = "pending" /\ session'[Item(w)].folder = session[Item(w)].folder
        /\ \A j \in Large : j # Item(w) => session'[j] = session[j]
    BY <1>1, <2>1, StateFacts DEF Known
  <2>3. \A j \in Large : session[j].state = "completed" => session[j].parts = Parts
    BY <1>1 DEF Typed
  <2> QED
    BY <1>1, <1>3, <2>2, <2>3
<1> QED
  BY <1>2, <1>3 DEF Begins

\* The steps that write the IndexedDB.
LEMMA DatabaseSteps ==
  ASSUME Next
  PROVE  \/ UNCHANGED <<metas, chunks>>
         \/ \E w \in Agents : StoreMeta(w) \/ StoreChunks(w) \/ CleanupUpload(w)
         \/ \E i \in Items : CancelUpload(i)
<1> USE DEF indexedDB
<1>1. ASSUME NEW w \in Agents,
             \/ EnsureFolderExists(w) \/ CreateFolder(w) \/ CreateFails(w) \/ FindFolder(w) \/ NoFolder(w)
             \/ ListFails(w) \/ SkipExisting(w) \/ AskOverwrite(w) \/ Proceed(w)
      PROVE  UNCHANGED <<metas, chunks>>
  BY <1>1 DEF EnsureFolderExists, CreateFolder, CreateFails, FindFolder, NoFolder, ListFails, SkipExisting,
              AskOverwrite, Proceed, Enter
<1>2. ASSUME NEW w \in Agents,
             \/ UploadFile(w) \/ AllSent(w) \/ GiveUp(w) \/ CompleteRefused(w) \/ StoreFails(w)
             \/ UploadFails(w) \/ InitUpload(w) \/ CompleteUpload(w) \/ CompleteFails(w)
      PROVE  UNCHANGED <<metas, chunks>>
  BY <1>2 DEF UploadFile, AllSent, GiveUp, CompleteRefused, UploadFails, InitUpload, CompleteUpload, CompleteFails,
              StoreFails, StartSending
<1>3. ASSUME NEW i, NEW p, SendPart(i, p) \/ PartFails(i, p) PROVE UNCHANGED <<metas, chunks>>
  BY <1>3 DEF SendPart, PartFails
<1>4. ASSUME AnswerYes \/ AnswerNo \/ RefreshFiles \/ ResumePending \/ Reload PROVE UNCHANGED <<metas, chunks>>
  BY <1>4 DEF AnswerYes, AnswerNo, RefreshFiles, ResumePending, Reload
<1>5. ASSUME NEW d, OnUpload(d) \/ Sweep(d) PROVE UNCHANGED <<metas, chunks>>
  BY <1>5 DEF OnUpload, Sweep
<1> QED
  BY <1>1, <1>2, <1>3, <1>4, <1>5 DEF Next

\* Sessions, metadata, data and the counters keep their types.
TypedServer ==
    /\ session \in [Large -> SessionRecs]
    /\ metas \subseteq Large /\ chunks \subseteq Large
    /\ {faults, reloads, cancels} \subseteq Nat
    /\ \A i \in Large : session[i].state = "completed" => session[i].parts = Parts

LEMMA ServerTypes ==
  ASSUME Places, Next
  PROVE  TypedServer'
<1>0. /\ metas \subseteq Large /\ chunks \subseteq Large /\ faults \in Nat /\ reloads \in Nat /\ cancels \in Nat
  BY DEF Places, Typed
<1>1. /\ session' \in [Large -> SessionRecs]
      /\ \A i \in Large : session'[i].state = "completed" => session'[i].parts = Parts
  BY SessionSteps, SessionsStepFacts, BeginsFacts DEF Places
<1>2. {faults', reloads', cancels'} \subseteq Nat
  <2>1. UNCHANGED <<faults, reloads, cancels>> \/ Fault
        \/ (cancels > 0 /\ cancels' = cancels - 1 /\ UNCHANGED <<faults, reloads>>)
        \/ (reloads > 0 /\ reloads' = reloads - 1 /\ UNCHANGED <<faults, cancels>>)
    <3> USE DEF tally
    <3>1. ASSUME NEW w \in Agents,
                 \/ EnsureFolderExists(w) \/ CreateFolder(w) \/ CreateFails(w) \/ FindFolder(w) \/ NoFolder(w)
                 \/ ListFails(w) \/ SkipExisting(w) \/ AskOverwrite(w) \/ Proceed(w)
          PROVE  UNCHANGED <<faults, reloads, cancels>> \/ Fault
      BY <3>1 DEF EnsureFolderExists, CreateFolder, CreateFails, FindFolder, NoFolder, ListFails, SkipExisting,
                  AskOverwrite, Proceed, Enter
    <3>2. ASSUME NEW w \in Agents,
                 \/ UploadFile(w) \/ StoreMeta(w) \/ StoreChunks(w) \/ StoreFails(w) \/ AllSent(w) \/ GiveUp(w)
                 \/ CompleteRefused(w) \/ CleanupUpload(w)
          PROVE  UNCHANGED <<faults, reloads, cancels>> \/ Fault
      BY <3>2 DEF UploadFile, StoreMeta, StoreChunks, StoreFails, StartSending, AllSent, GiveUp, CompleteRefused, CleanupUpload
    <3>3. ASSUME NEW w \in Agents, UploadFails(w) \/ InitUpload(w) \/ CompleteUpload(w) \/ CompleteFails(w)
          PROVE  UNCHANGED <<faults, reloads, cancels>> \/ Fault
      BY <3>3 DEF UploadFails, InitUpload, CompleteUpload, CompleteFails
    <3>4. ASSUME NEW i, NEW p, SendPart(i, p) \/ PartFails(i, p) PROVE UNCHANGED <<faults, reloads, cancels>> \/ Fault
      BY <3>4 DEF SendPart, PartFails
    <3>5. ASSUME NEW i, CancelUpload(i) PROVE cancels > 0 /\ cancels' = cancels - 1 /\ UNCHANGED <<faults, reloads>>
      BY <3>5 DEF CancelUpload
    <3>6. ASSUME Reload PROVE reloads > 0 /\ reloads' = reloads - 1 /\ UNCHANGED <<faults, cancels>>
      BY <3>6 DEF Reload
    <3>7. ASSUME AnswerYes \/ AnswerNo \/ RefreshFiles \/ ResumePending PROVE UNCHANGED <<faults, reloads, cancels>>
      BY <3>7 DEF AnswerYes, AnswerNo, RefreshFiles, ResumePending
    <3>8. ASSUME NEW d, OnUpload(d) \/ Sweep(d) PROVE UNCHANGED <<faults, reloads, cancels>>
      BY <3>8 DEF OnUpload, Sweep
    <3> QED
      BY <3>1, <3>2, <3>3, <3>4, <3>5, <3>6, <3>7, <3>8 DEF Next
  <2> QED
    BY <1>0, <2>1 DEF Fault
<1>3. metas' \subseteq Large /\ chunks' \subseteq Large
  <2>1. CASE UNCHANGED <<metas, chunks>>
    BY <1>0, <2>1
  <2>2. ASSUME NEW w \in Agents, StoreMeta(w) \/ StoreChunks(w) \/ CleanupUpload(w)
        PROVE  metas' \subseteq Large /\ chunks' \subseteq Large
    <3>1. Item(w) \in Large
      BY <2>2, BusyFacts DEF StoreMeta, StoreChunks, CleanupUpload, At, Late, Off, Places
    <3> QED
      BY <1>0, <2>2, <3>1 DEF StoreMeta, StoreChunks, CleanupUpload, StartSending
  <2>3. ASSUME NEW i, CancelUpload(i) PROVE metas' \subseteq metas /\ UNCHANGED chunks
    BY <2>3 DEF CancelUpload
  <2> QED
    BY <1>0, <2>1, <2>2, <2>3, DatabaseSteps
<1> QED
  BY <1>1, <1>2, <1>3 DEF TypedServer

-----------------------------------------------------------------------------
\* What is stored after every step.
StoreInv == FoldersInv /\ SessionsAimed /\ StoredFits
StoresItem(i, f) == Store(i, f) /\ f \in 0..Len(folders) /\ NamesOf[f] = PathOf[i]

LEMMA StoreSteps ==
  ASSUME StoreInv, Next
  PROVE  \/ UNCHANGED stored
         \/ \E i \in Items, f \in 0..Len(folders) : StoresItem(i, f)
<1> USE DEF StoreInv, FoldersInv, server
<1>1. ASSUME NEW w \in Agents, UploadFile(w) \/ UploadFails(w)
      PROVE  UNCHANGED stored \/ (Item(w) \in Items /\ StoresItem(Item(w), work[w].folder))
  <2>1. work[w].pc = "uploading" /\ (UNCHANGED stored \/ Store(Item(w), work[w].folder))
    BY <1>1 DEF UploadFile, UploadFails, At
  <2>2. work[w].folder \in 0..Len(folders) /\ NamesOf[work[w].folder] = PathOf[Item(w)]
    BY <2>1 DEF WantsFit, Item
  <2>3. Item(w) \in Items
    BY <2>1, BusyFacts DEF Off
  <2> QED
    BY <2>1, <2>2, <2>3 DEF StoresItem
<1>2. ASSUME NEW w \in Agents, CompleteUpload(w) \/ CompleteFails(w)
      PROVE  UNCHANGED stored \/ (Item(w) \in Items /\ StoresItem(Item(w), session[Item(w)].folder))
  <2>1. work[w].pc = "completing" /\ (UNCHANGED stored \/ Store(Item(w), session[Item(w)].folder))
    BY <1>2 DEF CompleteUpload, CompleteFails, Completed, At
  <2>2. Aimed(Item(w))
    BY <2>1 DEF SessionsAimed, Item
  <2>3. Item(w) \in Items
    BY <2>1, BusyFacts DEF Off
  <2> QED
    BY <2>1, <2>2, <2>3 DEF StoresItem, Aimed
<1>3. ASSUME NEW w \in Agents,
             \/ EnsureFolderExists(w) \/ CreateFolder(w) \/ CreateFails(w) \/ FindFolder(w) \/ NoFolder(w)
             \/ ListFails(w) \/ SkipExisting(w) \/ AskOverwrite(w) \/ Proceed(w)
      PROVE  UNCHANGED stored
  BY <1>3 DEF EnsureFolderExists, CreateFolder, CreateFails, FindFolder, NoFolder, ListFails, SkipExisting,
              AskOverwrite, Proceed, Enter
<1>4. ASSUME NEW w \in Agents,
             \/ InitUpload(w) \/ StoreMeta(w) \/ StoreChunks(w) \/ StoreFails(w) \/ AllSent(w) \/ GiveUp(w)
             \/ CompleteRefused(w) \/ CleanupUpload(w)
      PROVE  UNCHANGED stored
  BY <1>4 DEF InitUpload, StoreMeta, StoreChunks, StoreFails, StartSending, AllSent, GiveUp, CompleteRefused, CleanupUpload
<1>5. ASSUME NEW i, NEW p, SendPart(i, p) \/ PartFails(i, p) \/ CancelUpload(i) PROVE UNCHANGED stored
  BY <1>5 DEF SendPart, PartFails, CancelUpload
<1>6. ASSUME AnswerYes \/ AnswerNo \/ RefreshFiles \/ ResumePending \/ Reload PROVE UNCHANGED stored
  BY <1>6 DEF AnswerYes, AnswerNo, RefreshFiles, ResumePending, Reload
<1>7. ASSUME NEW d, OnUpload(d) \/ Sweep(d) PROVE UNCHANGED stored
  BY <1>7 DEF OnUpload, Sweep
<1> QED
  BY <1>1, <1>2, <1>3, <1>4, <1>5, <1>6, <1>7 DEF Next, StoresItem

\* The first half of StructureKept.
Placed(p) ==
    /\ p = <<p[1], p[2]>> /\ p[1] \in 0..Len(folders)
    /\ \A i \in Items : stored[p] = ContentOf[i] /\ NameOf[i] = p[2] => NamesOf[p[1]] = PathOf[i]

LEMMA StoredParts ==
  ASSUME StoredFits
  PROVE  \A p \in DOMAIN stored : Placed(p)
  BY DEF StoredFits, StructureKept, Placed

\* The files of the server stay where they are, or one is added where it belongs.
LEMMA StoredStep ==
  ASSUME StoreInv, Grows, Next
  PROVE  /\ DOMAIN stored \subseteq DOMAIN stored'
         /\ \A p \in DOMAIN stored' : Placed(p)'
         /\ \A i \in Items, f \in 0..Len(folders) : StoresItem(i, f) => Arrived(i)'
<1>1. \A p \in DOMAIN stored : Placed(p)
  BY StoredParts DEF StoreInv
<1>2. ASSUME UNCHANGED stored PROVE DOMAIN stored \subseteq DOMAIN stored' /\ \A p \in DOMAIN stored' : Placed(p)'
  <2>1. ASSUME NEW p \in DOMAIN stored PROVE Placed(p)'
    <3>1. p[1] \in 0..Len(folders') /\ NamesOf'[p[1]] = NamesOf[p[1]]
      BY <1>1, <2>1 DEF Placed, Grows
    <3> QED
      BY <1>1, <1>2, <2>1, <3>1 DEF Placed
  <2> QED
    BY <1>2, <2>1
<1>3. ASSUME NEW i \in Items, NEW f \in 0..Len(folders), StoresItem(i, f)
      PROVE  /\ DOMAIN stored \subseteq DOMAIN stored' /\ (\A p \in DOMAIN stored' : Placed(p)') /\ Arrived(i)'
  <2> DEFINE q == <<f, NameOf[i]>>
  <2>1. stored' = [p \in DOMAIN stored \cup {q} |-> IF p = q THEN ContentOf[i] ELSE stored[p]]
    BY <1>3 DEF StoresItem, Store, With
  <2>2. q[1] = f /\ q[2] = NameOf[i] /\ q = <<q[1], q[2]>>
    OBVIOUS
  <2> HIDE DEF q
  <2>3. DOMAIN stored' = DOMAIN stored \cup {q} /\ stored'[q] = ContentOf[i]
        /\ \A p \in DOMAIN stored : p # q => stored'[p] = stored[p]
    BY <2>1
  <2>4. f \in 0..Len(folders') /\ NamesOf'[f] = PathOf[i]
    BY <1>3 DEF StoresItem, Grows
  <2>5. Arrived(i)'
    BY <2>2, <2>3, <2>4 DEF Arrived
  <2>6. ASSUME NEW p \in DOMAIN stored' PROVE Placed(p)'
    <3>1. CASE p = q
      <4>1. \A j \in Items : stored'[p] = ContentOf[j] /\ NameOf[j] = p[2] => PathOf[j] = PathOf[i]
        BY <2>2, <2>3, <3>1, ContentAssumption
      <4> QED
        BY <2>2, <2>4, <3>1, <4>1 DEF Placed
    <3>2. CASE p # q
      <4>1. p \in DOMAIN stored /\ stored'[p] = stored[p]
        BY <2>3, <3>2
      <4>2. p[1] \in 0..Len(folders') /\ NamesOf'[p[1]] = NamesOf[p[1]]
        BY <1>1, <4>1 DEF Placed, Grows
      <4> QED
        BY <1>1, <4>1, <4>2 DEF Placed
    <3> QED
      BY <3>1, <3>2
  <2> QED
    BY <2>3, <2>5, <2>6
<1>4. DOMAIN stored \subseteq DOMAIN stored' /\ \A p \in DOMAIN stored' : Placed(p)'
  BY <1>2, <1>3, StoreSteps
<1> QED
  BY <1>3, <1>4

LEMMA ArrivedStays ==
  ASSUME StoreInv, Grows, DOMAIN stored \subseteq DOMAIN stored', NEW i, Arrived(i)
  PROVE  Arrived(i)'
<1>1. PICK p \in DOMAIN stored : p[2] = NameOf[i] /\ NamesOf[p[1]] = PathOf[i]
  BY DEF Arrived
<1>2. p[1] \in 0..Len(folders)
  BY StoredParts DEF StoreInv, Placed
<1>3. NamesOf'[p[1]] = NamesOf[p[1]]
  BY <1>2 DEF Grows
<1> QED
  BY <1>1, <1>3 DEF Arrived

LEMMA AimedStays ==
  ASSUME Grows, NEW i, Aimed(i), session'[i].folder = session[i].folder
  PROVE  Aimed(i)'
  BY DEF Aimed, Grows

\* Files in the root as last read are there.
LEMMA ListingStep ==
  ASSUME StoreInv, Next, DOMAIN stored \subseteq DOMAIN stored'
  PROVE  \A n \in DOMAIN listing' : <<Root, n>> \in DOMAIN stored'
<1> USE DEF screen
<1>0. \A n \in DOMAIN listing : <<Root, n>> \in DOMAIN stored
  BY DEF StoreInv, StoredFits
<1>1. ASSUME NEW w \in Agents,
             \/ EnsureFolderExists(w) \/ CreateFolder(w) \/ CreateFails(w) \/ FindFolder(w) \/ NoFolder(w)
             \/ ListFails(w) \/ SkipExisting(w) \/ AskOverwrite(w) \/ Proceed(w)
      PROVE  UNCHANGED listing
  BY <1>1 DEF EnsureFolderExists, CreateFolder, CreateFails, FindFolder, NoFolder, ListFails, SkipExisting,
              AskOverwrite, Proceed, Enter, NextItem
<1>2. ASSUME NEW w \in Agents,
             \/ UploadFile(w) \/ AllSent(w) \/ GiveUp(w) \/ CompleteRefused(w) \/ StoreFails(w)
             \/ InitUpload(w) \/ StoreMeta(w) \/ StoreChunks(w) \/ CompleteUpload(w) \/ CleanupUpload(w)
      PROVE  UNCHANGED listing
  BY <1>2 DEF UploadFile, AllSent, GiveUp, CompleteRefused, InitUpload, CompleteUpload, CleanupUpload,
              StoreFails, StoreMeta, StoreChunks, StartSending, NextItem
<1>3. ASSUME NEW w \in Agents, UploadFails(w) \/ CompleteFails(w) PROVE UNCHANGED listing
  BY <1>3, NextItemTakes DEF UploadFails, CompleteFails
<1>4. ASSUME NEW i, NEW p, SendPart(i, p) \/ PartFails(i, p) \/ CancelUpload(i) PROVE UNCHANGED listing
  BY <1>4 DEF SendPart, PartFails, CancelUpload
<1>5. ASSUME AnswerYes \/ AnswerNo \/ ResumePending PROVE UNCHANGED listing
  BY <1>5 DEF AnswerYes, AnswerNo, ResumePending
<1>6. ASSUME NEW d, OnUpload(d) \/ Sweep(d) PROVE UNCHANGED listing
  BY <1>6 DEF OnUpload, Sweep
<1>7. ASSUME Reload PROVE DOMAIN listing' = {}
  BY <1>7 DEF Reload
<1>8. ASSUME RefreshFiles PROVE \A n \in DOMAIN listing' : <<Root, n>> \in DOMAIN stored'
  <2>1. UNCHANGED stored /\ DOMAIN listing' = {p[2] : p \in InRoot}
    BY <1>8 DEF RefreshFiles, server
  <2>2. ASSUME NEW p \in InRoot PROVE <<Root, p[2]>> \in DOMAIN stored
    <3>1. p \in DOMAIN stored /\ p[1] = Root /\ p = <<p[1], p[2]>>
      BY StoredParts DEF InRoot, StoreInv, Placed
    <3> QED
      BY <3>1
  <2> QED
    BY <2>1, <2>2
<1> QED
  BY <1>0, <1>1, <1>2, <1>3, <1>4, <1>5, <1>6, <1>7, <1>8 DEF Next

-----------------------------------------------------------------------------
\* The rows after every step: a session in a row is that of a file of its name, and what
\* is new to be completed has arrived.
RowFits(j, r) ==
    /\ r \in RowRecs
    /\ r.session # Nobody => r.session = j \/ (NameOf[j] = NameOf[r.session] /\ PathOf[j] = <<>>)

RowsKept ==
    /\ rows' = [j \in DOMAIN rows' |-> rows'[j]]
    /\ DOMAIN rows' \subseteq Items
    /\ \A j \in DOMAIN rows' : /\ RowFits(j, rows'[j])
                               /\ rows'[j].status = "completed" =>
                                    (j \in DOMAIN rows /\ rows[j].status = "completed") \/ Arrived(j)'

RowsInv == StoreInv /\ RowsNamed

LEMMA RowParts ==
  ASSUME RowsInv
  PROVE  /\ rows = [j \in DOMAIN rows |-> rows[j]] /\ DOMAIN rows \subseteq Items
         /\ \A j \in DOMAIN rows : RowFits(j, rows[j])
  BY DEF RowsInv, StoreInv, FoldersInv, Typed, RowsNamed, RowFits

LEMMA RowsSame ==
  ASSUME RowsInv, UNCHANGED rows
  PROVE  RowsKept
  BY RowParts DEF RowsKept

LEMMA RowSet ==
  ASSUME RowsInv, NEW i, NEW s \in Statuses, SetRow(i, s), s = "completed" => Arrived(i)'
  PROVE  RowsKept
<1>1. /\ rows' = [j \in DOMAIN rows' |-> rows'[j]]
      /\ DOMAIN rows' = DOMAIN rows /\ \A j \in DOMAIN rows' : rows'[j] \in RowRecs
      /\ \A j \in DOMAIN rows : rows'[j].session = rows[j].session
      /\ \A j \in DOMAIN rows : rows'[j].status = IF j = i THEN s ELSE rows[j].status
  BY SetRowFacts DEF RowsInv, StoreInv, FoldersInv
<1>2. \A j \in DOMAIN rows' : RowFits(j, rows'[j])
  BY <1>1, RowParts DEF RowFits
<1> QED
  BY <1>1, <1>2, RowParts DEF RowsKept

LEMMA RowsFewer ==
  ASSUME RowsInv, NEW S, S \subseteq DOMAIN rows, rows' = [j \in S |-> rows[j]]
  PROVE  RowsKept
  BY RowParts DEF RowsKept

LEMMA RowsStep ==
  ASSUME RowsInv, Next, Grows
  PROVE  RowsKept
<1> USE DEF screen
<1>0. RowsInv /\ StoreInv /\ FoldersInv /\ Places /\ Typed
  BY DEF RowsInv, StoreInv, FoldersInv, Places
<1>1. DOMAIN stored \subseteq DOMAIN stored' /\ \A i \in Items, f \in 0..Len(folders) : StoresItem(i, f) => Arrived(i)'
  BY <1>0, StoredStep
<1>2. ASSUME NEW w \in Agents, SeeksFolder(w) PROVE RowsKept
  <2>1. CASE CreateFails(w)
    BY <1>0, <2>1, RowsSame DEF CreateFails
  <2>2. CASE EnsureFolderExists(w) \/ CreateFolder(w) \/ FindFolder(w)
    <3>1. PICK c : Descended(w, c)
      BY <1>0, <2>2, SeeksFolders DEF Enters
    <3>2. CASE SetRow(Item(w), "hashing")
      BY <1>0, <3>2, RowSet DEF Statuses
    <3>3. CASE UNCHANGED rows
      BY <1>0, <3>3, RowsSame
    <3> QED
      BY <3>1, <3>2, <3>3 DEF Descended
  <2> QED
    BY <1>2, <2>1, <2>2 DEF SeeksFolder
<1>3. ASSUME NEW w \in Agents, NoFolder(w) \/ ListFails(w) \/ UploadFails(w) \/ GiveUp(w) \/ CompleteRefused(w) \/ CompleteFails(w)
      PROVE  RowsKept
  <2>1. NextItem(w, "error")
    BY <1>3 DEF NoFolder, ListFails, UploadFails, GiveUp, CompleteRefused, CompleteFails
  <2>2. SetRow(Item(w), "error")
    BY <2>1, NextItemTakes
  <2> QED
    BY <1>0, <2>2, RowSet DEF Statuses
<1>4. ASSUME NEW w \in Agents, AskOverwrite(w) \/ Proceed(w) \/ CompleteUpload(w) PROVE RowsKept
  <2>1. SetRow(Item(w), "processing") \/ SetRow(Item(w), "uploading")
    BY <1>4 DEF AskOverwrite, Proceed, CompleteUpload
  <2> QED
    BY <1>0, <2>1, RowSet DEF Statuses
<1>5. ASSUME NEW w \in Agents, StoreMeta(w) \/ StoreChunks(w) \/ StoreFails(w) \/ AllSent(w) PROVE RowsKept
  <2>1. UNCHANGED rows
    BY <1>5 DEF StoreMeta, StoreChunks, StoreFails, StartSending, AllSent
  <2> QED
    BY <1>0, <2>1, RowsSame
<1>6. ASSUME NEW w \in Agents, SkipExisting(w) \/ UploadFile(w) \/ CleanupUpload(w) PROVE RowsKept
  <2>1. NextItem(w, "completed") /\ work[w].pc \in {"hashing", "uploading", "cleaning"}
    BY <1>6 DEF SkipExisting, UploadFile, CleanupUpload, At
  <2>2. PICK i \in Items : i = Item(w)
    BY <1>0, <2>1, BusyFacts DEF Off, Places
  <2>3. Arrived(i)'
    <3>1. CASE SkipExisting(w)
      <4>1. <<Root, NameOf[i]>> \in DOMAIN stored /\ work[w].folder = Root /\ work[w].pc = "hashing"
        BY <1>0, <2>2, <3>1 DEF SkipExisting, Existing, StoreInv, StoredFits, At
      <4>2. NamesOf[Root] = PathOf[i]
        BY <1>0, <2>2, <4>1 DEF FoldersInv, WantsFit, Item
      <4>3. Arrived(i)
        BY <4>1, <4>2 DEF Arrived
      <4> QED
        BY <1>0, <1>1, <4>3, ArrivedStays
    <3>2. CASE UploadFile(w)
      <4>1. Store(i, work[w].folder) /\ work[w].pc = "uploading"
        BY <2>2, <3>2 DEF UploadFile, At
      <4>2. work[w].folder \in 0..Len(folders) /\ NamesOf[work[w].folder] = PathOf[i]
        BY <1>0, <2>2, <4>1 DEF FoldersInv, WantsFit, Item
      <4>3. PICK f \in 0..Len(folders) : f = work[w].folder
        BY <4>2
      <4>4. StoresItem(i, f)
        BY <4>1, <4>2, <4>3 DEF StoresItem
      <4> QED
        BY <1>1, <4>4
    <3>3. CASE CleanupUpload(w)
      <4>1. Arrived(i)
        BY <1>0, <2>2, <3>3 DEF CleanupUpload, At, StoreInv, SessionsAimed, Item
      <4> QED
        BY <1>0, <1>1, <4>1, ArrivedStays
    <3> QED
      BY <1>6, <3>1, <3>2, <3>3
  <2>4. SetRow(i, "completed")
    BY <2>1, <2>2, NextItemTakes
  <2> QED
    BY <1>0, <2>3, <2>4, RowSet DEF Statuses
<1>7. ASSUME NEW w \in Agents, InitUpload(w) PROVE RowsKept
  <2> DEFINE i == Item(w)
             r(j) == IF PathOf[j] = <<>> /\ NameOf[j] = NameOf[i] /\ rows[j].status = "hashing"
                     THEN [rows[j] EXCEPT !.session = i] ELSE rows[j]
  <2>1. rows' = [j \in DOMAIN rows |-> r(j)] /\ i \in Large
    BY <1>7 DEF InitUpload
  <2>2. ASSUME NEW j \in DOMAIN rows
        PROVE  RowFits(j, r(j)) /\ (r(j).status = "completed" => rows[j].status = "completed")
    <3>1. rows[j] \in RowRecs /\ RowFits(j, rows[j])
      BY <1>0, RowParts DEF RowFits
    <3>2. CASE PathOf[j] = <<>> /\ NameOf[j] = NameOf[i] /\ rows[j].status = "hashing"
      <4>1. r(j) = [rows[j] EXCEPT !.session = i]
        BY <3>2
      <4> HIDE DEF r, i
      <4>2. r(j) \in RowRecs /\ r(j).session = i /\ r(j).status = "hashing"
        BY <2>1, <3>1, <3>2, <4>1 DEF RowRecs
      <4> QED
        BY <3>2, <4>2 DEF RowFits
    <3>3. CASE ~(PathOf[j] = <<>> /\ NameOf[j] = NameOf[i] /\ rows[j].status = "hashing")
      <4>1. r(j) = rows[j]
        BY <3>3
      <4> QED
        BY <3>1, <4>1
    <3> QED
      BY <3>2, <3>3
  <2> HIDE DEF r
  <2> QED
    BY <1>0, <2>1, <2>2, RowParts DEF RowsKept
<1>8. ASSUME NEW i \in Large, NEW p \in Parts, SendPart(i, p) \/ PartFails(i, p) PROVE RowsKept
  <2>1. SetRow(i, "uploading") \/ UNCHANGED rows
    BY <1>8 DEF SendPart, PartFails
  <2> QED
    BY <1>0, <2>1, RowSet, RowsSame DEF Statuses
<1>9. ASSUME NEW i \in Items, CancelUpload(i) PROVE RowsKept
  <2>1. rows' = [j \in DOMAIN rows \ {i} |-> rows[j]] /\ DOMAIN rows \ {i} \subseteq DOMAIN rows
    BY <1>9 DEF CancelUpload
  <2> QED
    BY <1>0, <2>1, RowsFewer
<1>10. ASSUME NEW d \in Queues, Sweep(d) PROVE RowsKept
  <2> DEFINE S == {j \in DOMAIN rows : rows[j].status \in {"uploading", "error"}}
  <2>1. rows' = [j \in S |-> rows[j]] /\ S \subseteq DOMAIN rows
    BY <1>10 DEF Sweep
  <2> HIDE DEF S
  <2> QED
    BY <1>0, <2>1, RowsFewer
<1>11. ASSUME NEW d \in Drops, OnUpload(d) PROVE RowsKept
  <2> DEFINE S == DOMAIN rows \cup {todo[d][n] : n \in DOMAIN todo[d]}
             q == [status |-> "queued", session |-> Nobody]
  <2>1. rows' = [j \in S |-> IF j \in DOMAIN rows THEN rows[j] ELSE q]
    BY <1>11 DEF OnUpload
  <2>2. S \subseteq Items
    <3>1. todo[d] \in Seq(Items)
      BY <1>0, AgentFacts DEF Typed
    <3> QED
      BY <1>0, <3>1, RowParts
  <2>3. q \in RowRecs /\ q.session = Nobody /\ q.status # "completed"
    BY DEF RowRecs, Statuses
  <2> HIDE DEF S, q
  <2> QED
    BY <1>0, <2>1, <2>2, <2>3, RowParts DEF RowsKept, RowFits
<1>12. ASSUME ResumePending PROVE RowsKept
  <2>1. CASE UNCHANGED rows
    BY <1>0, <2>1, RowsSame
  <2>2. CASE rows' = [i \in DOMAIN rows \cup Resumable |->
                        IF i \in Resumable THEN [status |-> "uploading", session |-> i] ELSE rows[i]]
    <3> DEFINE q(i) == [status |-> "uploading", session |-> i]
    <3>1. Resumable \subseteq Large /\ Large \subseteq Items
      BY <1>0, ItemsAssumption DEF Resumable, Typed
    <3>2. \A i \in Resumable : q(i) \in RowRecs /\ q(i).session = i /\ q(i).status # "completed"
      BY <3>1 DEF RowRecs, Statuses
    <3>3. rows' = [i \in DOMAIN rows \cup Resumable |-> IF i \in Resumable THEN q(i) ELSE rows[i]]
      BY <2>2
    <3> HIDE DEF q
    <3> QED
      BY <1>0, <3>1, <3>2, <3>3, RowParts DEF RowsKept, RowFits
  <2> QED
    BY <1>12, <2>1, <2>2 DEF ResumePending
<1>13. ASSUME Reload PROVE RowsKept
  <2>1. rows' = <<>>
    BY <1>13 DEF Reload
  <2>2. DOMAIN rows' = {} /\ rows' = [j \in DOMAIN rows' |-> rows'[j]]
    BY <2>1
  <2> QED
    BY <2>2 DEF RowsKept
<1>14. ASSUME AnswerYes \/ AnswerNo PROVE RowsKept
  <2>1. PICK w \in Agents : SetRow(Item(w), "uploading") \/ SetRow(Item(w), "error")
    BY <1>0, <1>14, Answers
  <2> QED
    BY <1>0, <2>1, RowSet DEF Statuses
<1>15. ASSUME RefreshFiles PROVE RowsKept
  BY <1>0, <1>15, RowsSame DEF RefreshFiles
<1> QED
  BY <1>2, <1>3, <1>4, <1>5, <1>6, <1>7, <1>8, <1>9, <1>10, <1>11, <1>12, <1>13, <1>14, <1>15 DEF Next, SeeksFolder

-----------------------------------------------------------------------------
\* Sessions and files after every step.
LEMMA StoredFitsStep ==
  ASSUME RowsInv, Next, Grows
  PROVE  StoredFits'
<1>0. StoreInv
  BY DEF RowsInv
<1>1. DOMAIN stored \subseteq DOMAIN stored' /\ \A p \in DOMAIN stored' : Placed(p)'
  BY <1>0, StoredStep
<1>2. \A n \in DOMAIN listing' : <<Root, n>> \in DOMAIN stored'
  BY <1>0, <1>1, ListingStep
<1>3. RowsKept
  BY RowsStep
<1>4. ASSUME NEW i \in DOMAIN rows', rows'[i].status = "completed" PROVE Arrived(i)'
  <2>1. CASE i \in DOMAIN rows /\ rows[i].status = "completed"
    <3>1. Arrived(i)
      BY <1>0, <2>1 DEF StoreInv, StoredFits, StructureKept, Arrived
    <3> QED
      BY <1>0, <1>1, <3>1, ArrivedStays
  <2> QED
    BY <1>3, <1>4, <2>1 DEF RowsKept
<1>5. StructureKept'
  BY <1>1, <1>4 DEF StructureKept, Placed, Arrived
<1> QED
  BY <1>1, <1>2, <1>5 DEF StoredFits, Placed

LEMMA AimedStep ==
  ASSUME StoreInv, Next, Grows
  PROVE  /\ \A i \in Large : Aimed(i) => Aimed(i)'
         /\ \A w \in Agents : \A i \in Large : InitUpload(w) /\ i = Item(w) => Aimed(i)'
<1>0. Places
  BY DEF StoreInv, FoldersInv, Places
<1>1. ASSUME NEW w \in Agents, Begins(w), InitUpload(w), NEW i \in Large, i = Item(w) PROVE Aimed(i)'
  <2>1. session'[i].folder = work[w].folder
    BY <1>0, <1>1, BeginsFacts
  <2>2. work[w].folder \in 0..Len(folders) /\ NamesOf[work[w].folder] = PathOf[i]
    BY <1>1 DEF Begins, StoreInv, FoldersInv, WantsFit, Item
  <2> QED
    BY <2>1, <2>2 DEF Grows, Aimed
<1>2. ASSUME NEW w \in Agents, InitUpload(w) PROVE Begins(w)
  BY <1>2 DEF InitUpload, Begins, At
<1>3. ASSUME NEW i \in Large, Aimed(i) PROVE Aimed(i)'
  <2>1. CASE SessionsStep
    <3>1. session'[i].folder = session[i].folder
      BY <1>0, <2>1, SessionsStepFacts DEF Places
    <3> QED
      BY <1>3, <3>1, AimedStays
  <2>2. ASSUME NEW w \in Agents, Begins(w) PROVE Aimed(i)'
    <3>1. CASE i = Item(w) /\ InitUpload(w)
      BY <1>1, <2>2, <3>1
    <3>2. CASE ~(i = Item(w) /\ InitUpload(w))
      <4>1. session'[i].folder = session[i].folder
        BY <1>0, <2>2, <3>2, BeginsFacts DEF Begins
      <4> QED
        BY <1>3, <4>1, AimedStays
    <3> QED
      BY <3>1, <3>2
  <2> QED
    BY <1>0, <2>1, <2>2, SessionSteps
<1> QED
  BY <1>1, <1>2, <1>3

\* The files that are to be resumed are those of before, or had metadata.
LEMMA WaitingStep ==
  ASSUME FoldersInv, Next
  PROVE  Waiting(ResumeDrop)' \subseteq Waiting(ResumeDrop) \cup Resumable
<1>0. Places /\ Typed /\ ResumeDrop \in Queues /\ ResumeDrop \notin Drops
  BY AgentFacts DEF FoldersInv, Places
<1>1. ASSUME UNCHANGED todo PROVE Waiting(ResumeDrop)' \subseteq Waiting(ResumeDrop)
  BY <1>1 DEF Waiting
<1>2. ASSUME NEW w \in Agents, Leaves(w) PROVE Waiting(ResumeDrop)' \subseteq Waiting(ResumeDrop)
  <2> DEFINE d == w[1]
  <2>1. TakesNext(w)
    BY <1>2 DEF Leaves
  <2>2. /\ work' \in [Agents -> WorkRecs] /\ todo' \in [Queues -> Seq(Items)]
        /\ \A v \in Agents : v # w => work'[v] = work[v]
        /\ work'[w].folder = Root
        /\ \A e \in Queues : e # d => todo'[e] = todo[e]
        /\ \/ work'[w].pc = "done" /\ work'[w].item = Nobody /\ todo' = todo
           \/ /\ 1 \in DOMAIN todo[d] /\ work'[w].item = todo[d][1]
              /\ work'[w].pc = IF d = ResumeDrop THEN "sending" ELSE "folders"
              /\ \A n \in DOMAIN todo'[d] : n + 1 \in DOMAIN todo[d] /\ n + 1 # 1
                                             /\ todo'[d][n] = todo[d][n + 1]
    BY <1>0, <2>1, TakesNextFacts
  <2> QED
    BY <1>0, <2>2 DEF Waiting
<1>3. ASSUME NEW d \in Drops, OnUpload(d) PROVE Waiting(ResumeDrop)' \subseteq Waiting(ResumeDrop)
  <2>1. todo' = [todo EXCEPT ![d] = SubSeq(@, CONCURRENCY + 1, Len(@))]
    BY <1>3 DEF OnUpload
  <2>2. todo'[ResumeDrop] = todo[ResumeDrop]
    BY <1>0, <2>1 DEF Typed
  <2> QED
    BY <2>2 DEF Waiting
<1>4. ASSUME Reload PROVE Waiting(ResumeDrop)' \subseteq Waiting(ResumeDrop)
  <2>1. todo'[ResumeDrop] = <<>> \/ todo'[ResumeDrop] = todo[ResumeDrop]
    BY <1>0, <1>4 DEF Reload
  <2> QED
    BY <2>1 DEF Waiting
<1>5. ASSUME NEW w \in Agents, SeeksFolder(w) PROVE UNCHANGED todo
  BY <1>5, SeekMoves
<1>6. ASSUME NEW d \in Queues, Sweep(d) PROVE UNCHANGED todo
  BY <1>6 DEF Sweep
<1>7. ASSUME ResumePending PROVE Waiting(ResumeDrop)' \subseteq Resumable \cup Waiting(ResumeDrop)
  BY <1>0, <1>7, ResumeStarts
<1> QED
  BY <1>0, <1>1, <1>2, <1>3, <1>4, <1>5, <1>6, <1>7, Shapes DEF Stays, Turns, StartsOrEnds

LEMMA SessionsAimedStep ==
  ASSUME StoreInv, Next, Grows
  PROVE  SessionsAimed'
<1>0. Places /\ Typed /\ FoldersInv
  BY DEF StoreInv, FoldersInv, Places
<1>1. /\ \A i \in Large : Aimed(i) => Aimed(i)'
      /\ \A w \in Agents : \A i \in Large : InitUpload(w) /\ i = Item(w) => Aimed(i)'
  BY AimedStep
<1>2. /\ \A i \in metas \cup Waiting(ResumeDrop) : Aimed(i) /\ i \in Large
      /\ \A w \in Agents : /\ work[w].pc \in {"saving", "savingChunks", "sending", "completing"} => Aimed(work[w].item)
                           /\ work[w].pc = "cleaning" => Arrived(work[w].item)
                           /\ work[w].pc \in Late => work[w].item \in Large
      /\ metas \subseteq Large
  BY <1>0 DEF StoreInv, SessionsAimed, Places, WorkersFit, Typed
<1>3. ASSUME NEW i \in metas' PROVE Aimed(i)'
  <2>1. CASE i \in metas
    BY <1>1, <1>2, <2>1
  <2>2. CASE i \notin metas
    <3>1. PICK w \in Agents : StoreMeta(w) /\ i = Item(w)
      BY <1>3, <2>2, DatabaseSteps DEF StoreMeta, StoreChunks, StartSending, CleanupUpload, CancelUpload
    <3>2. Aimed(i) /\ i \in Large
      BY <1>2, <3>1 DEF StoreMeta, At, Item, Late
    <3> QED
      BY <1>1, <3>2
  <2> QED
    BY <2>1, <2>2
<1>4. ASSUME NEW i \in Waiting(ResumeDrop)' PROVE Aimed(i)'
  <2>1. i \in Waiting(ResumeDrop) \cup metas
    BY <1>0, <1>4, WaitingStep DEF Resumable
  <2> QED
    BY <1>1, <1>2, <2>1
<1> DEFINE Fit(w) == /\ work'[w].pc \in {"saving", "savingChunks", "sending", "completing"} => \A i : i = work'[w].item => Aimed(i)'
                     /\ work'[w].pc = "cleaning" => \A i : i = work'[w].item => Arrived(i)'
<1>5. DOMAIN stored \subseteq DOMAIN stored' /\ \A i \in Items, f \in 0..Len(folders) : StoresItem(i, f) => Arrived(i)'
  BY StoredStep
<1>6. ASSUME NEW w \in Agents, work'[w] = work[w] PROVE Fit(w)
  <2>1. ASSUME NEW i, Arrived(i) PROVE Arrived(i)'
    BY <1>5, <2>1, ArrivedStays
  <2> QED
    BY <1>1, <1>2, <1>6, <2>1 DEF Late
<1>7. ASSUME NEW w \in Agents, Turns(w) PROVE Fit(w)
  <2>1. PICK i : i = Item(w)
    OBVIOUS
  <2>2. work'[w].item = i /\ work[w].item = i
    BY <1>7, <2>1 DEF Turns, Changes, Item
  <2>3. CASE work'[w].pc = "saving" /\ InitUpload(w)
    <3>1. i \in Large
      BY <2>1, <2>3 DEF InitUpload
    <3> QED
      BY <1>1, <2>1, <2>2, <2>3, <3>1
  <2>4. CASE work'[w].pc \in {"savingChunks", "sending", "completing"}
    <3>1. work[w].pc \in {"saving", "savingChunks", "sending"}
      BY <1>7, <2>4 DEF Turns
    <3>2. Aimed(i) /\ i \in Large
      BY <1>2, <2>2, <3>1 DEF Late
    <3> QED
      BY <1>1, <2>2, <2>4, <3>2
  <2>5. CASE work'[w].pc = "cleaning" /\ CompleteUpload(w)
    <3>1. work[w].pc = "completing" /\ Store(i, session[i].folder)
      BY <2>1, <2>5 DEF CompleteUpload, Completed, At
    <3>2. Aimed(i) /\ i \in Large /\ i \in Items
      BY <1>2, <2>2, <3>1, ItemsAssumption DEF Late
    <3>3. PICK f \in 0..Len(folders) : f = session[i].folder
      BY <3>2 DEF Aimed
    <3>4. StoresItem(i, f)
      BY <3>1, <3>2, <3>3 DEF StoresItem, Aimed
    <3>5. Arrived(i)'
      BY <1>5, <3>2, <3>4
    <3> QED
      BY <2>2, <2>5, <3>5
  <2>6. CASE work'[w].pc \in {"asking", "uploading"}
    BY <2>6
  <2> QED
    BY <1>7, <2>3, <2>4, <2>5, <2>6 DEF Turns
<1>8. ASSUME NEW w \in Agents, Leaves(w) PROVE Fit(w)
  <2>1. TakesNext(w)
    BY <1>8 DEF Leaves
  <2>2. work'[w].pc \in {"done", "folders"} \/ (work'[w].pc = "sending" /\ w[1] = ResumeDrop
           /\ 1 \in DOMAIN todo[w[1]] /\ work'[w].item = todo[w[1]][1])
    BY <1>0, <2>1, TakesNextFacts
  <2>3. work'[w].pc = "sending" => work'[w].item \in Waiting(ResumeDrop)
    BY <2>2 DEF Waiting
  <2> QED
    BY <1>1, <1>2, <2>2, <2>3
<1>9. \A w \in Agents : Fit(w)
  <2>1. CASE Stays
    BY <1>6, <2>1 DEF Stays
  <2>2. ASSUME NEW w \in Agents, Turns(w) \/ Leaves(w) \/ SeeksFolder(w), NEW v \in Agents PROVE Fit(v)
    <3>1. CASE v # w
      <4>1. work'[v] = work[v]
        BY <1>0, <2>2, <3>1, TakesNextFacts, SeekMoves DEF Turns, Changes, Leaves
      <4> QED
        BY <1>6, <4>1
    <3>2. CASE v = w
      <4>1. SeeksFolder(w) => work'[w].pc \in {"hashing", "creating", "listing"}
        BY <1>0, SeekMoves
      <4>2. SeeksFolder(w) => Fit(w)
        BY <4>1
      <4> HIDE DEF Fit
      <4> QED
        BY <1>7, <1>8, <2>2, <3>2, <4>2
    <3> QED
      BY <3>1, <3>2
  <2>3. ASSUME NEW d \in Drops, OnUpload(d), NEW w \in Agents PROVE Fit(w)
    <3>1. work'[w] = work[w] \/ work'[w].pc = "folders"
      BY <1>0, <2>3, UploadStarts
    <3>2. work'[w].pc = "folders" => Fit(w)
      OBVIOUS
    <3> HIDE DEF Fit
    <3> QED
      BY <1>6, <3>1, <3>2
  <2>4. ASSUME NEW d \in Queues, Sweep(d), NEW w \in Agents PROVE Fit(w)
    <3>1. work'[w] = work[w] \/ work'[w].pc = "off"
      BY <2>4, IdleFacts DEF Sweep
    <3>2. work'[w].pc = "off" => Fit(w)
      OBVIOUS
    <3> HIDE DEF Fit
    <3> QED
      BY <1>6, <3>1, <3>2
  <2>5. ASSUME Reload, NEW w \in Agents PROVE Fit(w)
    <3>1. work'[w].pc = "off"
      BY <2>5, IdleFacts DEF Reload
    <3> QED
      BY <3>1
  <2>6. ASSUME ResumePending, NEW w \in Agents PROVE Fit(w)
    <3>1. work'[w] = work[w] \/ (work'[w].pc = "sending" /\ work'[w].item \in metas)
      BY <1>0, <2>6, ResumeStarts DEF Resumable
    <3>2. work'[w].pc = "sending" /\ work'[w].item \in metas => Fit(w)
      BY <1>1, <1>2
    <3> HIDE DEF Fit
    <3> QED
      BY <1>6, <3>1, <3>2
  <2> HIDE DEF Fit
  <2> QED
    BY <1>0, <2>1, <2>2, <2>3, <2>4, <2>5, <2>6, Shapes DEF StartsOrEnds
<1>10. ASSUME NEW w \in Agents
       PROVE  /\ work'[w].pc \in {"saving", "savingChunks", "sending", "completing"} => Aimed(work[w].item)'
              /\ work'[w].pc = "cleaning" => Arrived(work[w].item)'
  <2>1. PICK i : i = work'[w].item
    OBVIOUS
  <2> QED
    BY <1>9, <2>1 DEF Aimed, Arrived
<1> QED
  BY <1>3, <1>4, <1>10 DEF SessionsAimed

-----------------------------------------------------------------------------
\* Who is early with a file after a step was early with it before, or took it from the queue
\* of its drop; then it waits there no more, and nobody else took it.
Kept(w) == work[w].pc \in Early /\ work'[w].item = work[w].item
Took(w, n) ==
    /\ w[1] \in Drops /\ n \in DOMAIN todo[w[1]] /\ work'[w].item = todo[w[1]][n]
    /\ \A m \in DOMAIN todo'[w[1]] : \E k \in DOMAIN todo[w[1]] \ {n} : todo'[w[1]][m] = todo[w[1]][k]
    /\ \A v \in Agents \ {w} : work'[v].pc \in Early =>
          Kept(v) \/ (v[1] = w[1] /\ \E k \in DOMAIN todo[w[1]] \ {n} : work'[v].item = todo[w[1]][k])

\* The queues of the drops lose files at their heads only.
Shortened(d) ==
    \E s \in Nat : \A m \in DOMAIN todo'[d] : m + s \in DOMAIN todo[d] /\ todo'[d][m] = todo[d][m + s]

LEMMA EarlySteps ==
  ASSUME FoldersInv, Next
  PROVE  /\ \A w \in Agents : work'[w].pc \in Early => Kept(w) \/ \E n \in Nat : Took(w, n)
         /\ \A d \in Drops : Shortened(d)
<1>0. /\ Places /\ Typed /\ Drops \subseteq Queues /\ ResumeDrop \notin Drops
      /\ \A w \in Agents : w[1] \in Queues /\ (w[1] # ResumeDrop => w[1] \in Drops)
      /\ todo \in [Queues -> Seq(Items)]
  BY AgentFacts DEF FoldersInv, Places, Typed, Queues
<1>1. ASSUME NEW w \in Agents, work'[w] = work[w], work'[w].pc \in Early PROVE Kept(w)
  BY <1>1 DEF Kept
<1>2. ASSUME NEW d \in Drops, todo'[d] = todo[d] PROVE Shortened(d)
  <2>1. todo[d] \in Seq(Items)
    BY <1>0
  <2>2. DOMAIN todo[d] \subseteq Nat
    BY <2>1
  <2>3. \A m \in DOMAIN todo'[d] : m + 0 \in DOMAIN todo[d] /\ todo'[d][m] = todo[d][m + 0]
    BY <1>2, <2>2
  <2> QED
    BY <2>3 DEF Shortened
<1>3. CASE Stays
  BY <1>1, <1>2, <1>3 DEF Stays
<1>4. ASSUME NEW w \in Agents, SeeksFolder(w) \/ Turns(w)
      PROVE  /\ \A v \in Agents : work'[v].pc \in Early => Kept(v)
             /\ \A d \in Drops : Shortened(d)
  <2>1. Changes(w) /\ UNCHANGED todo
    BY <1>4, SeekMoves DEF Turns
  <2>2. work'[w].pc \in Early => work[w].pc \in Early
    BY <1>4, SeekMoves DEF Turns, Early
  <2>3. work'[w].pc \in Early => Kept(w)
    BY <2>1, <2>2 DEF Kept, Changes
  <2> QED
    BY <1>1, <1>2, <2>1, <2>3 DEF Changes
<1>5. ASSUME NEW w \in Agents, Leaves(w)
      PROVE  /\ \A v \in Agents : work'[v].pc \in Early => Kept(v) \/ \E n \in Nat : Took(v, n)
             /\ \A d \in Drops : Shortened(d)
  <2> DEFINE d == w[1]
  <2>1. TakesNext(w)
    BY <1>5 DEF Leaves
  <2>2. /\ work' \in [Agents -> WorkRecs] /\ todo' \in [Queues -> Seq(Items)]
        /\ \A v \in Agents : v # w => work'[v] = work[v]
        /\ work'[w].folder = Root
        /\ \A e \in Queues : e # d => todo'[e] = todo[e]
        /\ \/ work'[w].pc = "done" /\ work'[w].item = Nobody /\ todo' = todo
           \/ /\ 1 \in DOMAIN todo[d] /\ work'[w].item = todo[d][1]
              /\ work'[w].pc = IF d = ResumeDrop THEN "sending" ELSE "folders"
              /\ \A n \in DOMAIN todo'[d] : n + 1 \in DOMAIN todo[d] /\ n + 1 # 1
                                             /\ todo'[d][n] = todo[d][n + 1]
    BY <1>0, <2>1, TakesNextFacts
  <2>3. \A v \in Agents \ {w} : work'[v].pc \in Early => Kept(v)
    BY <1>1, <2>2
  <2>4. work'[w].pc \in Early => Took(w, 1)
    <3> SUFFICES ASSUME work'[w].pc \in Early PROVE Took(w, 1)
      OBVIOUS
    <3>1. work'[w].pc = "folders" /\ d # ResumeDrop
      BY <2>2 DEF Early
    <3>2. d \in Drops
      BY <1>0, <3>1
    <3>3. /\ 1 \in DOMAIN todo[d] /\ work'[w].item = todo[d][1]
          /\ \A n \in DOMAIN todo'[d] : n + 1 \in DOMAIN todo[d] /\ n + 1 # 1
                                         /\ todo'[d][n] = todo[d][n + 1]
      BY <2>2, <3>1
    <3> QED
      BY <2>3, <3>2, <3>3 DEF Took
  <2>5. ASSUME NEW e \in Drops PROVE Shortened(e)
    <3>1. CASE e # d
      BY <1>0, <1>2, <2>2, <3>1
    <3>2. CASE e = d /\ todo' = todo
      BY <1>2, <3>2
    <3>3. CASE e = d /\ \A n \in DOMAIN todo'[d] : n + 1 \in DOMAIN todo[d] /\ todo'[d][n] = todo[d][n + 1]
      BY <3>3 DEF Shortened
    <3> QED
      BY <2>2, <3>1, <3>2, <3>3
  <2>6. 1 \in Nat
    OBVIOUS
  <2> QED
    BY <2>3, <2>4, <2>5, <2>6
<1>6. ASSUME NEW d \in Drops, OnUpload(d)
      PROVE  /\ \A w \in Agents : work'[w].pc \in Early => Kept(w) \/ \E n \in Nat : Took(w, n)
             /\ \A e \in Drops : Shortened(e)
  <2>1. /\ phase[d] = "new" /\ UNCHANGED dialog /\ phase' = [phase EXCEPT ![d] = "running"]
        /\ work' \in [Agents -> WorkRecs] /\ todo' \in [Queues -> Seq(Items)]
        /\ \A w \in Agents : \/ work'[w] = work[w] /\ (w[1] = d => work[w].pc = "off")
                             \/ /\ w[1] = d /\ work[w].pc = "off" /\ w[2] \in DOMAIN todo[d]
                                /\ work'[w].pc = "folders" /\ work'[w].item = todo[d][w[2]]
                                /\ w = <<d, w[2]>> /\ w[2] \in 1..CONCURRENCY
        /\ \A e \in Queues : e # d => todo'[e] = todo[e]
        /\ \A n \in DOMAIN todo'[d] : n + CONCURRENCY \in DOMAIN todo[d] /\ todo'[d][n] = todo[d][n + CONCURRENCY]
    BY <1>0, <1>6, UploadStarts
  <2>2. CONCURRENCY \in Nat
    BY BoundAssumption
  <2>3. ASSUME NEW e \in Drops PROVE Shortened(e)
    <3>1. CASE e # d
      BY <1>0, <1>2, <2>1, <3>1
    <3>2. CASE e = d
      BY <2>1, <2>2, <3>2 DEF Shortened
    <3> QED
      BY <3>1, <3>2
  <2>4. \A n \in DOMAIN todo'[d] : n \in Nat /\ n > 0
    <3>1. todo'[d] \in Seq(Items)
      BY <1>0, <2>1
    <3> QED
      BY <3>1
  <2>5. ASSUME NEW w \in Agents, work'[w].pc \in Early, work'[w] # work[w]
        PROVE  Took(w, w[2]) /\ w[2] \in Nat
    <3>1. /\ w[1] = d /\ w[2] \in DOMAIN todo[d] /\ work'[w].item = todo[d][w[2]]
          /\ w = <<d, w[2]>> /\ w[2] \in 1..CONCURRENCY
      BY <2>1, <2>5
    <3>2. ASSUME NEW m \in DOMAIN todo'[d]
          PROVE  \E k \in DOMAIN todo[d] \ {w[2]} : todo'[d][m] = todo[d][k]
      <4>1. m + CONCURRENCY \in DOMAIN todo[d] /\ todo'[d][m] = todo[d][m + CONCURRENCY]
        BY <2>1
      <4>2. m + CONCURRENCY # w[2]
        BY <2>2, <2>4, <3>1
      <4> QED
        BY <4>1, <4>2
    <3>3. ASSUME NEW v \in Agents \ {w}, work'[v].pc \in Early
          PROVE  Kept(v) \/ (v[1] = d /\ \E k \in DOMAIN todo[d] \ {w[2]} : work'[v].item = todo[d][k])
      <4>1. CASE work'[v] = work[v]
        BY <1>1, <3>3, <4>1
      <4>2. CASE /\ v[1] = d /\ v[2] \in DOMAIN todo[d] /\ work'[v].item = todo[d][v[2]] /\ v = <<d, v[2]>>
        <5>1. v[2] # w[2]
          BY <3>1, <4>2
        <5> QED
          BY <4>2, <5>1
      <4> QED
        BY <2>1, <4>1, <4>2
    <3> QED
      BY <2>2, <3>1, <3>2, <3>3 DEF Took
  <2> QED
    BY <1>1, <2>3, <2>5
<1>7. ASSUME NEW d \in Queues, Sweep(d)
      PROVE  /\ \A w \in Agents : work'[w].pc \in Early => Kept(w)
             /\ \A e \in Drops : Shortened(e)
  <2>1. UNCHANGED todo /\ \A w \in Agents : work'[w] = work[w] \/ work'[w] = Idle
    BY <1>7 DEF Sweep
  <2> QED
    BY <1>1, <1>2, <2>1, IdleFacts DEF Early
<1>8. ASSUME Reload
      PROVE  /\ \A w \in Agents : work'[w].pc \notin Early
             /\ \A e \in Drops : Shortened(e)
  <2>1. \A w \in Agents : work'[w].pc = "off"
    BY <1>8, IdleFacts DEF Reload
  <2>2. ASSUME NEW e \in Drops PROVE todo'[e] = <<>> \/ todo'[e] = todo[e]
    BY <1>0, <1>8 DEF Reload
  <2>3. ASSUME NEW e \in Drops, todo'[e] = <<>> PROVE Shortened(e)
    <3>1. DOMAIN todo'[e] = {}
      BY <2>3
    <3> QED
      BY <3>1 DEF Shortened
  <2> QED
    BY <1>2, <2>1, <2>2, <2>3 DEF Early
<1>9. ASSUME ResumePending
      PROVE  /\ \A w \in Agents : work'[w].pc \in Early => Kept(w)
             /\ \A e \in Drops : Shortened(e)
  <2>1. /\ \A w \in Agents : work'[w] = work[w] \/ work'[w].pc = "sending"
        /\ \A d \in Drops : todo'[d] = todo[d]
    BY <1>0, <1>9, ResumeStarts
  <2> QED
    BY <1>1, <1>2, <2>1 DEF Early
<1> QED
  BY <1>0, <1>3, <1>4, <1>5, <1>6, <1>7, <1>8, <1>9, Shapes DEF StartsOrEnds

\* Who begins a session is not early with its file any more.
LEMMA BegunIsLate ==
  ASSUME Places, Once, NEW w \in Agents, Begins(w)
  PROVE  ~(work'[w].pc \in Early /\ work'[w].item = Item(w))
<1>0. Typed /\ Item(w) \in Large /\ w[1] \in Drops /\ work[w].pc = "uploading"
  BY BusyFacts DEF Places, Begins, Early, Off
<1>1. CASE InitUpload(w)
  <2>1. work'[w].pc = "saving"
    BY <1>0, <1>1, GotoFacts DEF InitUpload, Steps
  <2> QED
    BY <2>1 DEF Early
<1>2. CASE UploadFails(w)
  <2>1. TakesNext(w)
    BY <1>2, NextItemTakes DEF UploadFails
  <2>2. work'[w].pc = "done" \/ (1 \in DOMAIN todo[w[1]] /\ work'[w].item = todo[w[1]][1])
    BY <1>0, <2>1, TakesNextFacts
  <2>3. Item(w) \notin Waiting(w[1])
    BY <1>0 DEF Once, Early, Item
  <2> QED
    BY <2>2, <2>3 DEF Waiting, Early
<1> QED
  BY <1>1, <1>2 DEF Begins

\* Sessions begin with their first worker and never go.
LEMMA NoneStep ==
  ASSUME Places, Next, NEW i \in Large
  PROVE  /\ session[i].state # "none" => session'[i].state # "none"
         /\ session[i].state = "none" => session'[i].state = "none" \/ \E w \in Agents : Begins(w) /\ i = Item(w)
         /\ session'[i].state = "pending" => session[i].state = "pending" \/ \E w \in Agents : Begins(w) /\ i = Item(w)
<1>1. CASE SessionsStep
  BY <1>1, SessionsStepFacts DEF Places
<1>2. ASSUME NEW w \in Agents, Begins(w) PROVE session'[i] = session[i] \/ (i = Item(w) /\ session'[i].state = "pending")
  BY <1>2, BeginsFacts
<1> QED
  BY <1>1, <1>2, SessionSteps

LEMMA OnceStep ==
  ASSUME FoldersInv, Once, Next
  PROVE  Once'
<1>0. Places /\ Typed /\ Drops \subseteq Queues /\ todo \in [Queues -> Seq(Items)] /\ \A w \in Agents : w[1] \in Queues
  BY AgentFacts DEF FoldersInv, Places, Typed
<1>1. /\ \A d, e \in Drops : \A m \in DOMAIN todo[d], n \in DOMAIN todo[e] :
            todo[d][m] = todo[e][n] /\ todo[d][m] \in Large => d = e /\ m = n
      /\ \A w \in Agents : work[w].pc \in Early /\ work[w].item \in Large =>
            /\ session[work[w].item].state = "none"
            /\ \A d \in Drops : work[w].item \notin Waiting(d)
            /\ \A v \in Agents \ {w} : work[v].pc \in Early => work[v].item # work[w].item
      /\ \A d \in Drops : \A i \in Waiting(d) \cap Large : session[i].state = "none"
      /\ \A i \in metas \cup chunks \cup Waiting(ResumeDrop) : session[i].state # "none"
      /\ \A w \in Agents : work[w].pc \in Late => session[work[w].item].state # "none"
  BY DEF Once
<1>2. /\ \A w \in Agents : work'[w].pc \in Early => Kept(w) \/ \E n \in Nat : Took(w, n)
      /\ \A d \in Drops : Shortened(d)
  BY EarlySteps
<1>3. \A d \in Drops : \A n \in DOMAIN todo[d] : todo[d][n] \in Waiting(d)
  BY DEF Waiting
<1>4. ASSUME NEW d \in Drops, NEW e \in Drops, NEW m \in DOMAIN todo'[d], NEW n \in DOMAIN todo'[e],
             todo'[d][m] = todo'[e][n], todo'[d][m] \in Large
      PROVE  d = e /\ m = n
  <2>1. PICK s \in Nat : \A k \in DOMAIN todo'[d] : k + s \in DOMAIN todo[d] /\ todo'[d][k] = todo[d][k + s]
    BY <1>2 DEF Shortened
  <2>2. PICK t \in Nat : \A k \in DOMAIN todo'[e] : k + t \in DOMAIN todo[e] /\ todo'[e][k] = todo[e][k + t]
    BY <1>2 DEF Shortened
  <2>3. d = e /\ m + s = n + t
    BY <1>1, <1>4, <2>1, <2>2
  <2>4. m + t \in DOMAIN todo[d] /\ todo'[d][m] = todo[d][m + t] /\ m + s \in DOMAIN todo[d] /\ todo'[d][m] = todo[d][m + s]
    BY <2>1, <2>2, <2>3
  <2>5. m + t = m + s
    <3>1. PICK x, y : x = m + t /\ y = m + s
      OBVIOUS
    <3>2. x \in DOMAIN todo[d] /\ y \in DOMAIN todo[d] /\ todo[d][x] = todo[d][y] /\ todo[d][x] \in Large
      BY <1>4, <2>4, <3>1
    <3>3. x = y
      BY <1>1, <3>2
    <3> QED
      BY <3>1, <3>3
  <2>6. m \in Nat /\ n \in Nat
    <3>1. TypedQueues'
      BY PlacesStep DEF PlacesKept
    <3>2. todo' \in [Queues -> Seq(Items)]
      BY <3>1 DEF TypedQueues
    <3>3. todo'[d] \in Seq(Items) /\ todo'[e] \in Seq(Items)
      BY <1>0, <3>2
    <3> QED
      BY <3>3
  <2> QED
    BY <2>3, <2>5, <2>6
<1>5. \A d \in Drops : Waiting(d)' \subseteq Waiting(d)
  BY <1>2, <1>3 DEF Shortened, Waiting
<1>6. ASSUME NEW i \in Large, session[i].state = "none", NEW d \in Drops, i \in Waiting(d)
      PROVE  session'[i].state = "none"
  <2>1. ASSUME NEW w \in Agents, Begins(w), i = Item(w) PROVE FALSE
    BY <1>1, <1>6, <2>1 DEF Begins, Early, Item
  <2> QED
    BY <1>0, <1>6, <2>1, NoneStep
<1>7. ASSUME NEW w \in Agents, work'[w].pc \in Early, work'[w].item \in Large
      PROVE  /\ session'[work'[w].item].state = "none"
             /\ \A d \in Drops : work'[w].item \notin Waiting(d)'
             /\ \A v \in Agents \ {w} : work'[v].pc \in Early => work'[v].item # work'[w].item
  <2>0. PICK i \in Large : i = work'[w].item
    BY <1>7
  <2>1. CASE Kept(w)
    <3>1. /\ work[w].pc \in Early /\ work[w].item = i /\ session[i].state = "none"
          /\ \A d \in Drops : i \notin Waiting(d)
          /\ \A v \in Agents \ {w} : work[v].pc \in Early => work[v].item # i
      BY <1>1, <2>0, <2>1 DEF Kept
    <3>2. session'[i].state = "none"
      <4>1. ASSUME NEW v \in Agents, Begins(v), i = Item(v) PROVE FALSE
        <5>1. v = w
          BY <3>1, <4>1 DEF Begins, Early, Item
        <5> QED
          BY <1>0, <1>7, <2>0, <4>1, <5>1, BegunIsLate
      <4> QED
        BY <1>0, <3>1, <4>1, NoneStep
    <3>3. \A d \in Drops : i \notin Waiting(d)'
      BY <1>5, <3>1
    <3>4. ASSUME NEW v \in Agents \ {w}, work'[v].pc \in Early, work'[v].item = i PROVE FALSE
      <4>1. CASE Kept(v)
        BY <3>1, <3>4, <4>1 DEF Kept
      <4>2. ASSUME NEW n \in Nat, Took(v, n) PROVE FALSE
        <5>1. v[1] \in Drops /\ i \in Waiting(v[1])
          BY <1>3, <3>4, <4>2 DEF Took
        <5> QED
          BY <3>1, <5>1
      <4> QED
        BY <1>2, <3>4, <4>1, <4>2
    <3> QED
      BY <2>0, <3>2, <3>3, <3>4
  <2>2. ASSUME NEW n \in Nat, Took(w, n)
        PROVE  /\ session'[work'[w].item].state = "none"
               /\ \A d \in Drops : work'[w].item \notin Waiting(d)'
               /\ \A v \in Agents \ {w} : work'[v].pc \in Early => work'[v].item # work'[w].item
    <3>1. PICK d \in Drops : d = w[1]
      BY <2>2 DEF Took
    <3>2. /\ n \in DOMAIN todo[d] /\ i = todo[d][n] /\ i \in Waiting(d)
          /\ \A m \in DOMAIN todo'[d] : \E k \in DOMAIN todo[d] \ {n} : todo'[d][m] = todo[d][k]
          /\ \A v \in Agents \ {w} : work'[v].pc \in Early =>
                Kept(v) \/ (v[1] = d /\ \E k \in DOMAIN todo[d] \ {n} : work'[v].item = todo[d][k])
      BY <1>3, <2>0, <2>2, <3>1 DEF Took
    <3>3. session[i].state = "none"
      BY <1>1, <3>2
    <3>4. session'[i].state = "none"
      BY <1>6, <3>2, <3>3
    <3>5. ASSUME NEW k \in DOMAIN todo[d] \ {n} PROVE todo[d][k] # i
      BY <1>1, <3>2
    <3>6. ASSUME NEW e \in Drops PROVE i \notin Waiting(e)'
      <4>1. CASE e = d
        BY <3>2, <3>5, <4>1 DEF Waiting
      <4>2. CASE e # d
        <5>1. i \notin Waiting(e)
          BY <1>1, <3>2, <4>2 DEF Waiting
        <5> QED
          BY <1>5, <5>1
      <4> QED
        BY <4>1, <4>2
    <3>7. ASSUME NEW v \in Agents \ {w}, work'[v].pc \in Early PROVE work'[v].item # i
      <4>1. CASE Kept(v)
        <5>1. work[v].item \in Large => work[v].item \notin Waiting(d)
          BY <1>1, <4>1 DEF Kept
        <5> QED
          BY <3>2, <4>1, <5>1 DEF Kept
      <4> QED
        BY <3>2, <3>5, <3>7, <4>1
    <3> QED
      BY <2>0, <3>4, <3>6, <3>7
  <2> QED
    BY <1>2, <1>7, <2>1, <2>2
<1>8. ASSUME NEW d \in Drops, NEW i \in Waiting(d)', i \in Large PROVE session'[i].state = "none"
  BY <1>1, <1>5, <1>6, <1>8
<1>9. metas \subseteq Large /\ chunks \subseteq Large /\ Waiting(ResumeDrop) \subseteq Large
  BY <1>0 DEF Typed, Places, WorkersFit
<1>10. ASSUME NEW i, i \in metas \cup chunks \cup Waiting(ResumeDrop) PROVE session'[i].state # "none"
  <2>1. i \in Large /\ session[i].state # "none"
    BY <1>1, <1>9, <1>10
  <2> QED
    BY <1>0, <2>1, NoneStep
<1>11. ASSUME NEW w \in Agents, work[w].pc \in Late PROVE session'[work[w].item].state # "none"
  <2>1. work[w].item \in Large /\ session[work[w].item].state # "none"
    BY <1>0, <1>1, <1>11 DEF Places, WorkersFit
  <2>2. PICK i \in Large : i = work[w].item
    BY <2>1
  <2> QED
    BY <1>0, <2>1, <2>2, NoneStep
<1>12. ASSUME NEW i, i \in metas' \cup chunks' \cup Waiting(ResumeDrop)' PROVE session'[i].state # "none"
  <2>1. CASE i \in metas \cup chunks \cup Waiting(ResumeDrop)
    BY <1>10, <2>1
  <2>2. CASE i \notin metas \cup chunks \cup Waiting(ResumeDrop)
    <3>1. i \in metas' \cup chunks'
      BY <1>12, <2>2, WaitingStep DEF Resumable
    <3>2. PICK w \in Agents : (StoreMeta(w) \/ StoreChunks(w)) /\ i = Item(w)
      BY <2>2, <3>1, DatabaseSteps DEF StoreMeta, StoreChunks, StartSending, CleanupUpload, CancelUpload
    <3>3. work[w].pc \in Late /\ work[w].item = i
      BY <3>2 DEF StoreMeta, StoreChunks, At, Item, Late
    <3> QED
      BY <1>11, <3>3
  <2> QED
    BY <2>1, <2>2
<1>13. ASSUME NEW w \in Agents, work'[w].pc \in Late PROVE session'[work'[w].item].state # "none"
  <2>1. CASE work'[w].item = work[w].item /\ work[w].pc \in Late
    BY <1>11, <2>1
  <2>2. CASE work'[w].item \in metas \cup chunks \cup Waiting(ResumeDrop)
    BY <1>10, <2>2
  <2>3. ASSUME NEW v \in Agents, Turns(v), w = v, InitUpload(v) PROVE session'[work'[w].item].state # "none"
    <3>1. Begins(v)
      BY <2>3 DEF InitUpload, Begins, At
    <3>2. session'[Item(v)].state = "pending"
      BY <1>0, <3>1, BeginsFacts
    <3>3. work'[v].item = Item(v)
      BY <2>3 DEF Turns, Changes, Item
    <3> QED
      BY <2>3, <3>2, <3>3
  <2>4. CASE work'[w] = work[w]
    BY <1>13, <2>1, <2>4
  <2>5. ASSUME NEW v \in Agents, Turns(v) PROVE session'[work'[w].item].state # "none"
    <3>1. CASE w # v
      BY <2>4, <2>5, <3>1 DEF Turns, Changes
    <3>2. CASE w = v /\ ~InitUpload(v)
      <4>1. work[w].pc \in Late /\ work'[w].item = work[w].item
        BY <1>13, <2>5, <3>2 DEF Turns, Changes, Late
      <4> QED
        BY <2>1, <4>1
    <3> QED
      BY <2>3, <2>5, <3>1, <3>2
  <2>6. ASSUME NEW v \in Agents, Leaves(v) PROVE session'[work'[w].item].state # "none"
    <3>1. TakesNext(v)
      BY <2>6 DEF Leaves
    <3>2. /\ \A u \in Agents : u # v => work'[u] = work[u]
          /\ work'[v].pc \in {"done", "folders"} \/ (work'[v].pc = "sending" /\ v[1] = ResumeDrop
                /\ 1 \in DOMAIN todo[v[1]] /\ work'[v].item = todo[v[1]][1])
      BY <1>0, <3>1, TakesNextFacts
    <3>3. CASE w = v
      <4>1. work'[w].item \in Waiting(ResumeDrop)
        BY <1>13, <3>2, <3>3 DEF Late, Waiting
      <4> QED
        BY <2>2, <4>1
    <3> QED
      BY <2>4, <3>2, <3>3
  <2>7. ASSUME NEW v \in Agents, SeeksFolder(v) PROVE session'[work'[w].item].state # "none"
    <3>1. \A u \in Agents : u # v => work'[u] = work[u]
      BY <1>0, <2>7, SeekMoves DEF Changes
    <3>2. work'[v].pc \notin Late
      BY <1>0, <2>7, SeekMoves DEF Late
    <3> QED
      BY <1>13, <2>4, <3>1, <3>2
  <2>8. ASSUME NEW d \in Drops, OnUpload(d) PROVE work'[w] = work[w]
    BY <1>0, <1>13, <2>8, UploadStarts DEF Late
  <2>9. ASSUME NEW d \in Queues, Sweep(d) PROVE work'[w] = work[w]
    <3>1. work'[w] = work[w] \/ work'[w] = Idle
      BY <2>9 DEF Sweep
    <3> QED
      BY <1>13, <3>1, IdleFacts DEF Late
  <2>10. ASSUME Reload PROVE FALSE
    <3>1. work'[w] = Idle
      BY <2>10 DEF Reload
    <3> QED
      BY <1>13, <3>1, IdleFacts DEF Late
  <2>11. ASSUME ResumePending PROVE work'[w] = work[w] \/ work'[w].item \in metas
    BY <1>0, <2>11, ResumeStarts DEF Resumable
  <2>12. ASSUME Stays PROVE work'[w] = work[w]
    BY <2>12 DEF Stays
  <2> QED
    BY <1>0, <2>2, <2>4, <2>5, <2>6, <2>7, <2>8, <2>9, <2>10, <2>11, <2>12, Shapes DEF StartsOrEnds
<1>14. /\ \A d, e \in Drops : \A m \in DOMAIN todo'[d], n \in DOMAIN todo'[e] :
             todo'[d][m] = todo'[e][n] /\ todo'[d][m] \in Large => d = e /\ m = n
       /\ \A w \in Agents : work'[w].pc \in Early /\ work'[w].item \in Large =>
             /\ session'[work'[w].item].state = "none"
             /\ \A d \in Drops : work'[w].item \notin Waiting(d)'
             /\ \A v \in Agents \ {w} : work'[v].pc \in Early => work'[v].item # work'[w].item
       /\ \A d \in Drops : \A i \in Waiting(d)' \cap Large : session'[i].state = "none"
       /\ \A i \in metas' \cup chunks' \cup Waiting(ResumeDrop)' : session'[i].state # "none"
       /\ \A w \in Agents : work'[w].pc \in Late => session'[work'[w].item].state # "none"
  BY <1>4, <1>7, <1>8, <1>12, <1>13
<1> QED
  BY <1>14 DEF Once, Waiting

-----------------------------------------------------------------------------
\* A worker comes to the data by storing the metadata, and to the cleaning by completing.
LEMMA SavesOrCleans ==
  ASSUME FoldersInv, Next, NEW w \in Agents, work'[w].pc \in {"savingChunks", "cleaning"}
  PROVE  \/ work'[w] = work[w]
         \/ /\ work'[w].item = work[w].item
            /\ \/ work'[w].pc = "savingChunks" /\ StoreMeta(w)
               \/ work'[w].pc = "cleaning" /\ CompleteUpload(w)
<1>0. Places /\ Typed
  BY DEF FoldersInv, Places
<1>1. ASSUME NEW v \in Agents, Turns(v)
      PROVE  \/ work'[w] = work[w]
             \/ /\ work'[w].item = work[w].item
                /\ \/ work'[w].pc = "savingChunks" /\ StoreMeta(w)
                   \/ work'[w].pc = "cleaning" /\ CompleteUpload(w)
  BY <1>1 DEF Turns, Changes
<1>2. ASSUME NEW v \in Agents, Leaves(v) PROVE work'[w] = work[w]
  <2>1. TakesNext(v)
    BY <1>2 DEF Leaves
  <2>2. (\A u \in Agents : u # v => work'[u] = work[u]) /\ work'[v].pc \in {"done", "folders", "sending"}
    BY <1>0, <2>1, TakesNextFacts
  <2> QED
    BY <2>2
<1>3. ASSUME NEW v \in Agents, SeeksFolder(v) PROVE work'[w] = work[w]
  BY <1>3, SeekMoves DEF Changes
<1>4. ASSUME NEW d \in Drops, OnUpload(d) PROVE work'[w] = work[w]
  BY <1>0, <1>4, UploadStarts
<1>5. ASSUME NEW d \in Queues, Sweep(d) PROVE work'[w] = work[w]
  <2>1. work'[w] = work[w] \/ work'[w] = Idle
    BY <1>5 DEF Sweep
  <2> QED
    BY <2>1, IdleFacts
<1>6. ASSUME Reload PROVE FALSE
  <2>1. work'[w] = Idle
    BY <1>6 DEF Reload
  <2> QED
    BY <2>1, IdleFacts
<1>7. ASSUME ResumePending PROVE work'[w] = work[w]
  BY <1>0, <1>7, ResumeStarts
<1>8. ASSUME Stays PROVE work'[w] = work[w]
  BY <1>8 DEF Stays
<1> QED
  BY <1>0, <1>1, <1>2, <1>3, <1>4, <1>5, <1>6, <1>7, <1>8, Shapes DEF StartsOrEnds

\* A session that was known is not pending again.
LEMMA PendingBefore ==
  ASSUME Places, Once, Next, NEW i \in Large, session[i].state # "none", session'[i].state = "pending"
  PROVE  session[i].state = "pending"
<1>1. ASSUME NEW w \in Agents, Begins(w), i = Item(w) PROVE FALSE
  BY <1>1 DEF Begins, Once, Early, Item
<1> QED
  BY <1>1, NoneStep

\* Metadata goes with the session that it is of.
LEMMA MetasKept ==
  ASSUME RowsInv, DataKept, Next, NEW i \in metas, session[i].state = "pending", session'[i].state = "pending"
  PROVE  i \in metas'
<1>0. Places /\ Typed
  BY DEF RowsInv, StoreInv, FoldersInv, Places
<1>1. CASE UNCHANGED <<metas, chunks>>
  BY <1>1
<1>2. ASSUME NEW w \in Agents, StoreMeta(w) \/ StoreChunks(w) PROVE i \in metas'
  BY <1>2 DEF StoreMeta, StoreChunks, StartSending
<1>3. ASSUME NEW w \in Agents, CleanupUpload(w) PROVE i \in metas'
  <2>1. i # Item(w)
    BY <1>3 DEF CleanupUpload, At, DataKept, Item
  <2> QED
    BY <1>3, <2>1 DEF CleanupUpload
<1>4. ASSUME NEW j \in Items, CancelUpload(j) PROVE i \in metas'
  <2>1. PICK s : s = rows[j].session
    OBVIOUS
  <2>2. j \in DOMAIN rows /\ s \in Large \cup {Nobody}
    BY <1>0, <1>4, <2>1 DEF CancelUpload, Typed, RowRecs
  <2>3. CASE s # Nobody /\ session[s].state = "pending"
    <3>1. session' = [session EXCEPT ![s].state = "aborted"] /\ metas' = metas \ {s}
      BY <1>4, <2>1, <2>3 DEF CancelUpload
    <3>2. session'[s].state = "aborted"
      BY <1>0, <2>2, <2>3, <3>1, StateFacts
    <3> QED
      BY <3>1, <3>2
  <2>4. CASE ~(s # Nobody /\ session[s].state = "pending")
    BY <1>4, <2>1, <2>4 DEF CancelUpload
  <2> QED
    BY <2>3, <2>4
<1> QED
  BY <1>1, <1>2, <1>3, <1>4, DatabaseSteps

LEMMA DataKeptStep ==
  ASSUME RowsInv, Once, DataKept, Next
  PROVE  DataKept'
<1>0. FoldersInv /\ Places /\ Typed
  BY DEF RowsInv, StoreInv, FoldersInv, Places
<1>1. /\ \A i \in chunks : session[i].state # "none" /\ i \in Large
      /\ \A w \in Agents : work[w].pc \in Late => session[work[w].item].state # "none" /\ work[w].item \in Large
  BY <1>0 DEF Once, Typed, Places, WorkersFit
<1>2. /\ \A i \in chunks : session[i].state = "pending" => i \in metas
      /\ \A w \in Agents : work[w].pc = "savingChunks" /\ session[work[w].item].state = "pending" => work[w].item \in metas
      /\ \A w \in Agents : work[w].pc = "cleaning" => session[work[w].item].state # "pending"
  BY DEF DataKept, ResumableKept
<1>3. ASSUME NEW i \in Large, session[i].state # "none", session[i].state = "pending" => i \in metas, session'[i].state = "pending"
      PROVE  i \in metas'
  BY <1>0, <1>3, PendingBefore, MetasKept
<1>4. ASSUME NEW i \in chunks', session'[i].state = "pending" PROVE i \in metas'
  <2>1. CASE i \in chunks
    BY <1>1, <1>2, <1>3, <1>4, <2>1
  <2>2. CASE i \notin chunks
    <3>1. PICK w \in Agents : StoreChunks(w) /\ i = Item(w)
      BY <2>2, DatabaseSteps DEF StoreMeta, StoreChunks, CleanupUpload, CancelUpload
    <3>2. work[w].pc = "savingChunks" /\ work[w].item = i
      BY <3>1 DEF StoreChunks, At, Item
    <3>3. i \in Large /\ session[i].state # "none" /\ (session[i].state = "pending" => i \in metas)
      BY <1>1, <1>2, <3>2 DEF Late
    <3> QED
      BY <1>3, <1>4, <3>3
  <2> QED
    BY <2>1, <2>2
<1>5. ASSUME NEW w \in Agents, work'[w].pc = "savingChunks", session'[work'[w].item].state = "pending"
      PROVE  work'[w].item \in metas'
  <2>1. PICK i : i = work'[w].item
    OBVIOUS
  <2>2. CASE work'[w] = work[w]
    <3>1. work[w].pc = "savingChunks" /\ work[w].item = i
      BY <1>5, <2>1, <2>2
    <3>2. i \in Large /\ session[i].state # "none" /\ (session[i].state = "pending" => i \in metas)
      BY <1>1, <1>2, <3>1 DEF Late
    <3> QED
      BY <1>3, <1>5, <2>1, <3>2
  <2>3. CASE StoreMeta(w) /\ work'[w].item = work[w].item
    BY <2>3 DEF StoreMeta, Item
  <2> QED
    BY <1>0, <1>5, <2>2, <2>3, SavesOrCleans
<1>6. ASSUME NEW w \in Agents, work'[w].pc = "cleaning"
      PROVE  session'[work'[w].item].state # "pending"
  <2>1. PICK i : i = work'[w].item
    OBVIOUS
  <2>2. CASE work'[w] = work[w]
    <3>1. i \in Large /\ session[i].state # "none" /\ session[i].state # "pending"
      BY <1>1, <1>2, <1>6, <2>1, <2>2 DEF Late
    <3> QED
      BY <1>0, <2>1, <3>1, PendingBefore
  <2>3. CASE CompleteUpload(w) /\ work'[w].item = work[w].item
    <3>1. work[w].pc = "completing" /\ session' = [session EXCEPT ![i].state = "completed"]
      BY <2>1, <2>3 DEF CompleteUpload, Completed, At, Item
    <3>2. i \in Large
      BY <1>1, <2>1, <2>3, <3>1 DEF Late
    <3>3. session'[i].state = "completed"
      BY <1>0, <3>1, <3>2, StateFacts
    <3> QED
      BY <2>1, <3>3
  <2> QED
    BY <1>0, <1>6, <2>2, <2>3, SavesOrCleans
<1>7. /\ \A i \in chunks' : session'[i].state = "pending" => i \in metas'
      /\ \A w \in Agents : work'[w].pc = "savingChunks" /\ session'[work'[w].item].state = "pending" => work'[w].item \in metas'
      /\ \A w \in Agents : work'[w].pc = "cleaning" => session'[work'[w].item].state # "pending"
  BY <1>4, <1>5, <1>6
<1> QED
  BY <1>7 DEF DataKept, ResumableKept

\* The rows that the user has removed stay known.
LEMMA CancelledStays ==
  ASSUME Next
  PROVE  cancelled \subseteq cancelled'
<1> USE DEF history
<1>1. ASSUME NEW w \in Agents,
             \/ EnsureFolderExists(w) \/ CreateFolder(w) \/ CreateFails(w) \/ FindFolder(w) \/ NoFolder(w)
             \/ ListFails(w) \/ SkipExisting(w) \/ AskOverwrite(w) \/ Proceed(w)
      PROVE  UNCHANGED cancelled
  BY <1>1 DEF EnsureFolderExists, CreateFolder, CreateFails, FindFolder, NoFolder, ListFails, SkipExisting,
              AskOverwrite, Proceed, Enter
<1>2. ASSUME NEW w \in Agents,
             \/ UploadFile(w) \/ AllSent(w) \/ GiveUp(w) \/ CompleteRefused(w) \/ StoreMeta(w) \/ StoreChunks(w)
             \/ StoreFails(w) \/ UploadFails(w) \/ InitUpload(w) \/ CompleteUpload(w) \/ CompleteFails(w) \/ CleanupUpload(w)
      PROVE  UNCHANGED cancelled
  BY <1>2 DEF UploadFile, AllSent, GiveUp, CompleteRefused, UploadFails, InitUpload, CompleteUpload, CompleteFails,
              StoreMeta, StoreChunks, StoreFails, StartSending, CleanupUpload
<1>3. ASSUME NEW i, NEW p, SendPart(i, p) \/ PartFails(i, p) PROVE UNCHANGED cancelled
  BY <1>3 DEF SendPart, PartFails
<1>4. ASSUME AnswerYes \/ AnswerNo \/ RefreshFiles \/ ResumePending \/ Reload PROVE UNCHANGED cancelled
  BY <1>4 DEF AnswerYes, AnswerNo, RefreshFiles, ResumePending, Reload
<1>5. ASSUME NEW d, OnUpload(d) \/ Sweep(d) PROVE UNCHANGED cancelled
  BY <1>5 DEF OnUpload, Sweep
<1>6. ASSUME NEW i, CancelUpload(i) PROVE cancelled \subseteq cancelled'
  BY <1>6 DEF CancelUpload
<1> QED
  BY <1>1, <1>2, <1>3, <1>4, <1>5, <1>6 DEF Next

\* A session is aborted by the removal of a row that it was in.
LEMMA AbortStep ==
  ASSUME RowsInv, AbortConfined, Next
  PROVE  AbortConfined'
<1>0. Places /\ Typed
  BY DEF RowsInv, StoreInv, FoldersInv, Places
<1>1. cancelled \subseteq cancelled'
  BY CancelledStays
<1>2. ASSUME NEW i \in Large, session'[i].state = "aborted", session[i].state # "aborted"
      PROVE  \E j \in DOMAIN rows : rows[j].session = i /\ cancelled' = cancelled \cup {j}
  <2>1. ASSUME NEW w \in Agents, Begins(w) PROVE FALSE
    BY <1>0, <1>2, <2>1, BeginsFacts
  <2>2. ASSUME NEW k \in Large, NEW p \in Parts, Grew(k, p) PROVE FALSE
    BY <1>0, <1>2, <2>2, PartsFacts DEF Grew
  <2>3. ASSUME NEW k \in Large, Ended(k) PROVE FALSE
    BY <1>0, <1>2, <2>3, StateFacts DEF Ended
  <2>4. ASSUME NEW k \in Large, Cut(k) PROVE k = i
    BY <1>0, <1>2, <2>4, StateFacts DEF Cut
  <2>5. ~UNCHANGED session
    BY <1>2
  <2>6. Cut(i)
    BY <1>0, <2>1, <2>2, <2>3, <2>4, <2>5, SessionSteps DEF SessionsStep
  <2> QED
    BY <2>6 DEF Cut
<1>3. ASSUME NEW i \in Large, session'[i].state = "aborted"
      PROVE  \E j \in cancelled' : j = i \/ (NameOf[j] = NameOf[i] /\ PathOf[j] = <<>>)
  <2>1. CASE session[i].state = "aborted"
    BY <1>1, <2>1 DEF AbortConfined
  <2>2. CASE session[i].state # "aborted"
    <3>1. PICK j \in DOMAIN rows : rows[j].session = i /\ cancelled' = cancelled \cup {j}
      BY <1>2, <1>3, <2>2
    <3>2. i # Nobody
      BY ItemsAssumption, NullAssumption
    <3>3. i = j \/ (NameOf[j] = NameOf[i] /\ PathOf[j] = <<>>)
      BY <3>1, <3>2 DEF RowsInv, RowsNamed
    <3> QED
      BY <3>1, <3>3
  <2> QED
    BY <2>1, <2>2
<1> QED
  BY <1>3 DEF AbortConfined

-----------------------------------------------------------------------------
\* The invariant holds at first, and every step keeps it.
LEMMA RootNames ==
  ASSUME folders = <<>>
  PROVE  NamesOf[Root] = <<>> /\ Len(folders) = 0 /\ DOMAIN folders = {} /\ folders \in Seq(FolderRecs) /\ Tree
<1>1. Len(folders) = 0 /\ DOMAIN folders = {} /\ folders \in Seq(FolderRecs)
  OBVIOUS
<1>2. Tree
  BY <1>1 DEF Tree, Rooted
<1>3. DOMAIN folders = 1..Len(folders) /\ Len(folders) \in Nat
  BY <1>1
<1>4. IsNames(NamesOf, folders, Len(folders))
  BY <1>2, <1>3, NamesAre DEF Tree
<1>5. NamesOf[0] = <<>>
  BY <1>3, <1>4, NamesStep
<1> QED
  BY <1>1, <1>2, <1>5 DEF Root

LEMMA InitInv == Init => IInv
<1> SUFFICES ASSUME Init PROVE IInv
  OBVIOUS
<1> USE AgentFacts
<1>1. PICK s \in Selections :
         /\ todo = [d \in Queues |-> IF d = ResumeDrop THEN <<>> ELSE s.drops[d]]
         /\ phase = [d \in Queues |-> IF d = ResumeDrop THEN "swept" ELSE "new"]
         /\ stored = s.stored
         /\ faults = s.faults /\ reloads = s.reloads /\ cancels = s.cancels
  BY DEF Init
<1>2. /\ cache = [d \in Queues |-> <<>>]
      /\ work = [w \in Agents |-> Idle]
      /\ dialog = Nobody /\ rows = <<>>
      /\ listing = [n \in {p[2] : p \in DOMAIN stored} |-> stored[<<Root, n>>]]
      /\ folders = <<>>
      /\ session = [i \in Large |-> NoSession]
      /\ metas = {} /\ chunks = {}
      /\ cancelled = {}
  BY DEF Init
<1>3. /\ s.drops \in [Drops -> Seq(Items)]
      /\ \A d, e \in Drops : \A m \in DOMAIN s.drops[d], n \in DOMAIN s.drops[e] :
           s.drops[d][m] = s.drops[e][n] /\ s.drops[d][m] \in Large => d = e /\ m = n
      /\ \A p \in DOMAIN s.stored :
           /\ p = <<Root, p[2]>>
           /\ \A i \in Items : s.stored[p] = ContentOf[i] /\ NameOf[i] = p[2] => PathOf[i] = <<>>
      /\ {s.faults, s.reloads, s.cancels} \subseteq Nat
  BY SelectionsAssumption
<1>4. /\ NamesOf[Root] = <<>> /\ Len(folders) = 0 /\ DOMAIN folders = {} /\ folders \in Seq(FolderRecs) /\ Tree
  BY <1>2, RootNames
<1>5. \A w \in Agents : work[w] = Idle /\ work[w] \in WorkRecs /\ work[w].pc = "off" /\ work[w].item = Nobody /\ work[w].folder = Root
  BY <1>2, IdleFacts DEF Idle
<1>6. todo[ResumeDrop] = <<>> /\ Waiting(ResumeDrop) = {} /\ \A d \in Drops : todo[d] = s.drops[d]
  <2>1. todo[ResumeDrop] = <<>>
    BY <1>1
  <2>2. DOMAIN todo[ResumeDrop] = {}
    BY <2>1
  <2> QED
    BY <1>1, <2>1, <2>2 DEF Waiting
<1>7. todo \in [Queues -> Seq(Items)]
  <2>1. \A d \in Queues : (IF d = ResumeDrop THEN <<>> ELSE s.drops[d]) \in Seq(Items)
    BY <1>3
  <2> QED
    BY <1>1, <2>1
<1>8. \A i \in Large : session[i].state = "none" /\ session[i] \in SessionRecs
  <2>1. NoSession \in SessionRecs /\ NoSession.state = "none"
    BY DEF NoSession, SessionRecs, Root
  <2> QED
    BY <1>2, <2>1
<1>9. DOMAIN rows = {} /\ rows = [i \in DOMAIN rows |-> rows[i]]
  BY <1>2
<1>10. Typed
  <2>1. session \in [Large -> SessionRecs] /\ \A i \in Large : session[i].state # "completed"
    BY <1>2, <1>8
  <2>2. phase \in [Queues -> {"new", "running", "swept"}] /\ DOMAIN cache = Queues /\ work \in [Agents -> WorkRecs]
    BY <1>1, <1>2, IdleFacts
  <2>3. {faults, reloads, cancels} \subseteq Nat
    BY <1>1, <1>3
  <2> QED
    BY <1>2, <1>4, <1>7, <1>9, <2>1, <2>2, <2>3 DEF Typed
<1>11. WorkersFit
  BY <1>2, <1>5, <1>6 DEF WorkersFit, Off, Early, Late
<1>12. CachesFit /\ FoldersKnown /\ FoldersOnce
  <2>1. \A d \in Queues : DOMAIN cache[d] = {}
    BY <1>2
  <2> QED
    BY <1>4, <2>1 DEF CachesFit, FoldersKnown, FoldersOnce
<1>13. WantsFit /\ RacesNoted
  BY <1>4, <1>5 DEF WantsFit, RacesNoted, Root
<1>14. SessionsAimed
  BY <1>2, <1>5, <1>6 DEF SessionsAimed
<1>15. StoredFits
  <2>1. \A p \in DOMAIN stored : p = <<p[1], p[2]>> /\ p[1] = Root /\ p = <<Root, p[2]>>
    <3>1. ASSUME NEW p \in DOMAIN stored PROVE p[1] = Root /\ p = <<Root, p[2]>>
      BY <1>1, <1>3
    <3> QED
      BY <3>1
  <2>2. StructureKept
    BY <1>1, <1>3, <1>4, <1>9, <2>1 DEF StructureKept
  <2>3. \A n \in DOMAIN listing : <<Root, n>> \in DOMAIN stored
    BY <1>2, <2>1
  <2>4. \A p \in DOMAIN stored : p = <<p[1], p[2]>> /\ p[1] \in 0 .. Len(folders)
    BY <1>4, <2>1 DEF Root
  <2> QED
    BY <2>2, <2>3, <2>4 DEF StoredFits
<1>16. Once
  <2>1. \A d, e \in Drops : \A m \in DOMAIN todo[d], n \in DOMAIN todo[e] :
          todo[d][m] = todo[e][n] /\ todo[d][m] \in Large => d = e /\ m = n
    BY <1>3, <1>6
  <2> QED
    BY <1>2, <1>5, <1>6, <1>8, <2>1 DEF Once, Early, Late
<1>17. DataKept /\ RowsNamed /\ AbortConfined
  BY <1>2, <1>5, <1>8, <1>9 DEF DataKept, ResumableKept, RowsNamed, AbortConfined
<1> QED
  BY <1>4, <1>10, <1>11, <1>12, <1>13, <1>14, <1>15, <1>16, <1>17 DEF IInv

LEMMA StepInv ==
  ASSUME IInv, Next
  PROVE  IInv'
<1>1. FoldersInv /\ StoreInv /\ RowsInv /\ Places /\ Once /\ DataKept /\ AbortConfined
  BY DEF IInv, FoldersInv, StoreInv, RowsInv, Places
<1>2. Grows
  BY <1>1, StepGrows
<1>3. Tree' /\ CachesFit' /\ WantsFit' /\ RacesNoted' /\ FoldersKnown' /\ FoldersOnce'
  BY <1>1, FoldersStep DEF FoldersKept
<1>4. /\ TypedQueues' /\ (\A w \in Agents : WorkerFits(w)')
      /\ (dialog' # Nobody => work'[dialog'].pc = "asking") /\ Waiting(ResumeDrop)' \subseteq Large
  BY <1>1, PlacesStep DEF PlacesKept
<1>5. WorkersFit'
  BY <1>4 DEF WorkersFit, WorkerFits, Waiting
<1>6. TypedServer'
  BY <1>1, ServerTypes
<1>7. RowsKept
  BY <1>1, <1>2, RowsStep
<1>8. RowsNamed'
  BY <1>7 DEF RowsKept, RowFits, RowsNamed
<1>9. /\ rows' = [i \in DOMAIN rows' |-> rows'[i]]
      /\ DOMAIN rows' \subseteq Items /\ \A i \in DOMAIN rows' : rows'[i] \in RowRecs
      /\ folders' \in Seq(FolderRecs)
  BY <1>2, <1>7 DEF RowsKept, RowFits, Grows
<1>10. Typed'
  BY <1>4, <1>6, <1>9 DEF Typed, TypedQueues, TypedServer
<1>11. SessionsAimed'
  BY <1>1, <1>2, SessionsAimedStep
<1>12. StoredFits'
  BY <1>1, <1>2, StoredFitsStep
<1>13. Once'
  BY <1>1, OnceStep
<1>14. DataKept'
  BY <1>1, DataKeptStep
<1>15. AbortConfined'
  BY <1>1, AbortStep
<1> QED
  BY <1>3, <1>5, <1>8, <1>10, <1>11, <1>12, <1>13, <1>14, <1>15 DEF IInv

LEMMA StutterInv ==
  ASSUME IInv, UNCHANGED vars
  PROVE  IInv'
<1>1. /\ todo' = todo /\ phase' = phase /\ cache' = cache /\ work' = work /\ dialog' = dialog /\ rows' = rows
      /\ listing' = listing /\ folders' = folders /\ stored' = stored /\ session' = session /\ metas' = metas
      /\ chunks' = chunks /\ doubled' = doubled /\ cancelled' = cancelled
      /\ faults' = faults /\ reloads' = reloads /\ cancels' = cancels
  BY DEF vars, queues, screen, server, indexedDB, history, tally
<1>2. NamesOf' = NamesOf
  BY <1>1 DEF NamesOf
<1>3. Typed' /\ WorkersFit' /\ Tree' /\ Once' /\ DataKept' /\ RowsNamed' /\ AbortConfined'
  BY <1>1 DEF IInv, Typed, WorkersFit, Tree, Once, DataKept, ResumableKept, RowsNamed, AbortConfined, Waiting
<1>4. CachesFit' /\ WantsFit' /\ RacesNoted' /\ FoldersOnce'
  BY <1>1, <1>2 DEF IInv, CachesFit, WantsFit, RacesNoted, FoldersOnce, Wanted, Item
<1>5. SessionsAimed' /\ StoredFits'
  BY <1>1, <1>2 DEF IInv, SessionsAimed, StoredFits, StructureKept, Aimed, Arrived, Waiting
<1>6. FoldersKnown'
  BY <1>1, <1>2 DEF IInv, FoldersKnown, Found, Wanted, Item
<1> QED
  BY <1>3, <1>4, <1>5, <1>6 DEF IInv

LEMMA InvTypes ==
  ASSUME IInv
  PROVE  TypeOK
<1> USE DEF IInv, Typed
<1>1. \A d \in Queues : \A n \in DOMAIN todo[d] : todo[d][n] \in Items
  <2>1. \A d \in Queues : todo[d] \in Seq(Items)
    OBVIOUS
  <2> QED
    BY <2>1
<1>2. \A d \in Queues : phase[d] \in {"new", "running", "swept"}
  OBVIOUS
<1>3. \A d \in Queues : DOMAIN cache[d] \subseteq Paths /\ \A p \in DOMAIN cache[d] : cache[d][p] \in DOMAIN folders
  BY DEF CachesFit
<1>4. ASSUME NEW w \in Agents
      PROVE  /\ work[w].pc \in Steps
             /\ (work[w].item = Nobody) = (work[w].pc \in {"off", "done"})
             /\ work[w].folder \in DOMAIN folders \cup {Root}
  <2>1. work[w] \in WorkRecs
    OBVIOUS
  <2>2. work[w].folder \in 0 .. Len(folders) /\ DOMAIN folders = 1..Len(folders) /\ Len(folders) \in Nat
    BY NamesFacts DEF WantsFit
  <2>3. work[w].folder \in DOMAIN folders \cup {Root}
    BY <2>2 DEF Root
  <2> QED
    BY <2>1, <2>3 DEF WorkersFit, Off, WorkRecs
<1>5. dialog \in Agents \cup {Nobody} /\ (dialog # Nobody => work[dialog].pc = "asking")
  BY DEF WorkersFit
<1>6. /\ DOMAIN rows \subseteq Items
      /\ \A i \in DOMAIN rows : rows[i].status \in Statuses /\ rows[i].session \in Large \cup {Nobody}
  BY DEF RowRecs
<1>7. \A i \in Large : session[i].state \in {"none", "pending", "completed", "aborted"}
  BY DEF SessionRecs
<1> QED
  BY <1>1, <1>2, <1>3, <1>4, <1>5, <1>6, <1>7 DEF TypeOK

-----------------------------------------------------------------------------
\* Every state that the upload queue reaches is one of these: its workers are where their
\* drops and files put them, folders, caches and sessions agree on the paths, a large file
\* waits in one place only, and the data of a pending session has its metadata.
THEOREM UploadQueueInvariant == Spec => []IInv
<1>1. Init => IInv
  BY InitInv
<1>2. IInv /\ [Next]_vars => IInv'
  BY StepInv, StutterInv
<1> QED
  BY <1>1, <1>2, PTL DEF Spec

\* What is stored, or shown as completed, is in the folders it was dropped with, and a drop
\* makes a folder twice only where a race or a lost answer was noted (useFileUpload.ts:284).
THEOREM UploadDropsInOrder == Spec => []DropsInOrder
<1>1. IInv => DropsInOrder
  <2>1. IInv => TypeOK
    BY InvTypes
  <2>2. IInv => StructureKept /\ FoldersOnce
    BY DEF IInv, StoredFits
  <2> QED
    BY <2>1, <2>2 DEF DropsInOrder
<1> QED
  BY <1>1, UploadQueueInvariant, PTL

\* The data of a pending session keeps its metadata, and a session is aborted only for a row
\* that the user removed, of the file or of one of its name (useFileUpload.ts:218, 229).
THEOREM UploadSessionsKept == Spec => []SessionsKept
<1>1. IInv => SessionsKept
  BY DEF IInv, DataKept, SessionsKept
<1> QED
  BY <1>1, UploadQueueInvariant, PTL
=============================================================================
