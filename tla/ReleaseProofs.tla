----------------------------- MODULE ReleaseProofs -----------------------------
(***************************************************************************)
(* The manifest and the extraction, for any number of pages, folders and   *)
(* threads: the tool's invariant (ForgeInv) and the extraction's           *)
(* (ExtractInv) are inductive together.                                    *)
(***************************************************************************)
EXTENDS Release, FiniteSetTheorems, SequenceTheorems, TLAPS

-----------------------------------------------------------------------------
(* Arithmetic of the partition.                                            *)

(* A product grows with its factor.                                        *)
LEMMA Times2 ==
  ASSUME NEW a \in Nat, NEW b \in Nat, NEW c \in Nat, a <= b
  PROVE  a * c <= b * c
  <1>1. PICK d \in Nat : b = a + d  BY b - a \in Nat
  <1>2. b * c = a * c + d * c  BY <1>1
  <1>3. d * c \in Nat  OBVIOUS
  <1> QED  BY <1>2, <1>3

(* A quotient, rounded down.                                               *)
LEMMA Quotient ==
  ASSUME NEW x \in Nat, NEW c \in Nat \ {0}
  PROVE  /\ x \div c \in Nat
         /\ (x \div c) * c <= x
         /\ x < ((x \div c) + 1) * c
  OBVIOUS

(* Every entry is in the batch of exactly one thread, and no thread is too *)
(* many: numThreads and filesPerThread in Extract7z.                       *)
THEOREM Batches ==
  ASSUME NEW n \in Nat \ {0}
  PROVE  /\ Threads(n) \in Nat \ {0} /\ PerThread(n) \in Nat
         /\ \A i \in Nat : i < Threads(n) => i \in Worker
         /\ \A i \in Nat : First(n, i) \in Nat /\ Last(n, i) \in Nat
         /\ \A k \in 1 .. n : \E i \in Worker :
              i < Threads(n) /\ First(n, i) < k /\ k <= Last(n, i)
         /\ \A i, j \in Worker, k \in Nat :
              /\ i < Threads(n) /\ First(n, i) < k /\ k <= Last(n, i)
              /\ j < Threads(n) /\ First(n, j) < k /\ k <= Last(n, j)
              => i = j
  <1> DEFINE T == Threads(n)
             c == PerThread(n)
  <1>1. T \in Nat \ {0} /\ T <= n /\ Worker \subseteq Nat
        /\ \A i \in Nat : i < T => i \in Worker
    BY HwOK DEF Threads, Worker
  <1>2. c \in Nat /\ n <= T * c
    <2>1. n + T - 1 \in Nat  BY <1>1
    <2>2. c \in Nat /\ n + T - 1 < (c + 1) * T  BY <1>1, <2>1, Quotient DEF PerThread
    <2>3. (c + 1) * T = T * c + T  BY <1>1, <2>2
    <2> QED  BY <1>1, <2>2, <2>3
  <1>3. c # 0  BY <1>1, <1>2
  <1>4. \A i \in Nat : First(n, i) \in Nat /\ Last(n, i) \in Nat  BY <1>1, <1>2 DEF First, Last
  <1>5. ASSUME NEW k \in 1 .. n
        PROVE  \E i \in Worker : i < T /\ First(n, i) < k /\ k <= Last(n, i)
    <2> DEFINE i == (k - 1) \div c
    <2>1. k - 1 \in Nat /\ k - 1 < n  OBVIOUS
    <2>2. i \in Nat /\ i * c <= k - 1 /\ k - 1 < (i + 1) * c  BY <1>2, <1>3, <2>1, Quotient
    <2> HIDE DEF i, c, T
    <2>3. i < T
      <3>1. SUFFICES ASSUME T <= i PROVE FALSE  BY <1>1, <2>2
      <3>2. T * c <= i * c  BY <1>1, <1>2, <2>2, <3>1, Times2
      <3>3. T * c \in Nat /\ i * c \in Nat  BY <1>1, <1>2, <2>2
      <3> QED  BY <1>2, <2>1, <2>2, <3>2, <3>3
    <2>4. (i + 1) * c \in Nat /\ i * c \in Nat  BY <1>2, <2>2
    <2>5. First(n, i) < k  BY <2>1, <2>2, <2>4 DEF First, c
    <2>6. k <= Last(n, i)  BY <2>1, <2>2, <2>4 DEF Last, c
    <2> QED  BY <1>1, <2>2, <2>3, <2>5, <2>6
  <1>6. ASSUME NEW i \in Worker, NEW j \in Worker, NEW k \in Nat, i < j, j < T,
               k <= Last(n, i), First(n, j) < k
        PROVE  FALSE
    <2>1. i \in Nat /\ j \in Nat /\ i + 1 \in Nat /\ i + 1 <= j /\ i # T - 1  BY <1>1, <1>6
    <2> HIDE DEF c, T
    <2>2. (i + 1) * c <= j * c  BY <1>2, <2>1, Times2
    <2>3. (i + 1) * c \in Nat /\ j * c \in Nat  BY <1>2, <2>1
    <2>4. Last(n, i) = (i + 1) * c /\ First(n, j) = j * c  BY <2>1 DEF Last, First, c, T
    <2> QED  BY <1>6, <2>2, <2>3, <2>4
  <1>7. \A i, j \in Worker : i = j \/ i < j \/ j < i  BY <1>1
  <1> QED  BY <1>1, <1>2, <1>4, <1>5, <1>6, <1>7

-----------------------------------------------------------------------------
(* The order of packing and the places of files.                           *)

(* The files are packed one after the other, and none is forgotten.        *)
LEMMA Ordered ==
  ASSUME source \in Folder, NEW S \in SUBSET Page
  PROVE  /\ Cardinality(S) \in Nat
         /\ InOrder(S) \in [1 .. Cardinality(S) -> S]
         /\ \A p \in S : \E k \in 1 .. Cardinality(S) : InOrder(S)[k] = p
         /\ \A k \in 1 .. Cardinality(S) : Position(InOrder(S)[k], S) = k
  <1> DEFINE n == Cardinality(S)
             Upto(p) == {q \in S : Rank[source][q] <= Rank[source][p]}
             place == [p \in S |-> Position(p, S)]
  <1>1. IsFiniteSet(S) /\ n \in Nat  BY PagesOK, FS_Subset, FS_CardinalityType
  <1>2. \A p \in S : Rank[source][p] \in Nat  BY RankOK
  <1>3. ASSUME NEW p \in S
        PROVE  IsFiniteSet(Upto(p)) /\ Position(p, S) \in 1 .. n
    <2>1. Upto(p) \in SUBSET S /\ p \in Upto(p)  BY <1>2
    <2>2. IsFiniteSet(Upto(p)) /\ Cardinality(Upto(p)) <= n  BY <1>1, <2>1, FS_Subset
    <2>3. Cardinality(Upto(p)) \in Nat /\ Cardinality(Upto(p)) # 0
      BY <2>1, <2>2, FS_CardinalityType, FS_EmptySet
    <2> QED  BY <1>1, <2>2, <2>3 DEF Position
  <1>4. ASSUME NEW p \in S, NEW q \in S, Position(p, S) = Position(q, S),
               Rank[source][p] <= Rank[source][q]
        PROVE  p = q
    <2>1. Upto(p) \in SUBSET Upto(q)  BY <1>2, <1>4
    <2>2. Upto(p) = Upto(q)  BY <1>3, <1>4, <2>1, FS_Subset DEF Position
    <2>3. q \in Upto(p)  BY <1>2, <2>2
    <2>4. Rank[source][p] = Rank[source][q]  BY <1>2, <1>4, <2>3
    <2> QED  BY <2>4, RankOK
  <1>5. \A p, q \in S : Position(p, S) = Position(q, S) => p = q  BY <1>2, <1>4
  <1>6. place \in Injection(S, 1 .. n)  BY <1>3, <1>5 DEF Injection, IsInjective
  <1>7. IsFiniteSet(1 .. n) /\ Cardinality(1 .. n) = n  BY <1>1, FS_Interval
  <1>8. place \in Surjection(S, 1 .. n)  BY <1>6, <1>7, FS_Injection
  <1>9. \A k \in 1 .. n : \E p \in S : Position(p, S) = k  BY <1>8 DEF Surjection
  <1>10. \A k \in 1 .. n : InOrder(S)[k] \in S /\ Position(InOrder(S)[k], S) = k
    BY <1>9 DEF InOrder
  <1>11. InOrder(S) \in [1 .. n -> S]  BY <1>9 DEF InOrder
  <1>12. ASSUME NEW p \in S PROVE \E k \in 1 .. n : InOrder(S)[k] = p
    BY <1>3, <1>5, <1>10
  <1> QED  BY <1>1, <1>10, <1>11, <1>12

(* No file is packed twice.                                                *)
LEMMA OrderedOnce ==
  ASSUME source \in Folder, NEW S \in SUBSET Page,
         NEW j \in 1 .. Cardinality(S), NEW k \in 1 .. Cardinality(S),
         InOrder(S)[j] = InOrder(S)[k]
  PROVE  j = k
  <1>1. \A m \in 1 .. Cardinality(S) : Position(InOrder(S)[m], S) = m
    BY Ordered
  <1> QED  BY <1>1

Entry == [path : Page, content : Content \cup {Cut}]

(* A path has a name at least.                                             *)
LEMMA PathHasNames ==
  ASSUME NEW p \in Page
  PROVE  p \in Seq(STRING) /\ Len(p) \in Nat \ {0}
  BY PagesOK, EmptySeq

(* What is cut off is a path.                                              *)
LEMMA PrefixIsPath ==
  ASSUME NEW a \in Seq(Entry)
  PROVE  ExtractRootPrefix(a) \in Seq(STRING)
  <1>1. \A k \in DOMAIN a : a[k].path \in Seq(STRING) /\ Len(a[k].path) \in Nat \ {0}
    <2> SUFFICES ASSUME NEW k \in DOMAIN a
                 PROVE  a[k].path \in Seq(STRING) /\ Len(a[k].path) \in Nat \ {0}
      OBVIOUS
    <2>1. a[k] \in Entry  BY LenProperties
    <2>2. a[k].path \in Page  BY <2>1 DEF Entry
    <2> QED  BY <2>2, PathHasNames
  <1>2. \A q \in ExeParents(a) : q \in Seq(STRING)
    <2> SUFFICES ASSUME NEW k \in DOMAIN a PROVE Parent(a[k].path) \in Seq(STRING)
      BY DEF ExeParents
    <2> QED  BY <1>1 DEF Parent
  <1>3. CASE ExeParents(a) = {}  BY <1>3 DEF ExtractRootPrefix
  <1>4. CASE ExeParents(a) # {}
    <2> DEFINE p == CHOOSE q \in ExeParents(a) : TRUE
               C == {n \in 1 .. Len(p) : \A q \in ExeParents(a) : Agree(p, q, n)}
    <2>1. p \in Seq(STRING)
      <3>1. p \in ExeParents(a)  BY <1>4
      <3> QED  BY <1>2, <3>1
    <2>4. C \in SUBSET (1 .. Len(p))  OBVIOUS
    <2> HIDE DEF C, p
    <2>2. Len(p) \in Nat  BY <2>1, LenProperties
    <2>7. \A l \in Nat : IsFiniteSet(1 .. l) /\ Cardinality(1 .. l) = l  BY FS_Interval
    <2>3. IsFiniteSet(1 .. Len(p)) /\ Cardinality(1 .. Len(p)) = Len(p)  BY <2>7, <2>2
    <2>5. Cardinality(C) \in Nat /\ Cardinality(C) <= Len(p)
      BY <2>3, <2>4, FS_Subset, FS_CardinalityType
    <2>6. SubSeq(p, 1, Cardinality(C)) \in Seq(STRING)  BY <2>1, <2>2, <2>5
    <2> QED  BY <1>4, <2>6 DEF ExtractRootPrefix, C, p
  <1> QED  BY <1>3, <1>4

(* Every entry has a place.                                                *)
LEMMA TargetIsPlace ==
  ASSUME entries \in Seq(Entry), prefix \in Seq(STRING), NEW k \in 1 .. Count
  PROVE  Target(k) \in Place /\ entries[k].content \in Content \cup {Cut}
  <1> DEFINE p == entries[k].path
             i == FirstKept(p, prefix)
  <1>1. p \in Page /\ entries[k].content \in Content \cup {Cut}
    <2>1. entries[k] \in Entry  BY LenProperties DEF Count
    <2> QED  BY <2>1 DEF Entry
  <1>2. p \in Seq(STRING) /\ Len(p) \in Nat \ {0}  BY <1>1, PathHasNames
  <1>3. Len(prefix) \in Nat  OBVIOUS
  <1>4. i \in 1 .. Len(p)  BY <1>2, <1>3 DEF FirstKept, Agree
  <1>5. \A q \in Page : \A j \in 1 .. Len(q) : SubSeq(q, j, Len(q)) \in Place
    <2> TAKE q \in Page
    <2> TAKE j \in 1 .. Len(q)
    <2> DEFINE Tails(r) == {SubSeq(r, m, Len(r)) : m \in 1 .. Len(r)}
    <2>1. SubSeq(q, j, Len(q)) \in Tails(q)  OBVIOUS
    <2>2. Place = UNION {Tails(r) : r \in Page}  BY DEF Place
    <2> HIDE DEF Tails
    <2> QED  BY <2>1, <2>2
  <1>6. SubSeq(p, i, Len(p)) \in Place  BY <1>1, <1>4, <1>5
  <1> QED  BY <1>1, <1>6 DEF Target

-----------------------------------------------------------------------------
(* The tool.                                                               *)

(* What the worker found stands while it and the folders stand still.      *)
LEMMA WorkKept ==
  ASSUME LatestNewest, OnePlace, NoneLost, ReadRight,
         UNCHANGED <<tree, work, touched>>, Counted' => Counted
  PROVE  LatestNewest' /\ OnePlace' /\ NoneLost' /\ ReadRight'
  <1> USE DEF work
  <1>1. LatestNewest'  BY DEF LatestNewest, Sound, Newest
  <1>2. OnePlace'  BY DEF OnePlace
  <1>3. NoneLost'  BY DEF NoneLost
  <1>4. ReadRight'  BY DEF ReadRight, Sound
  <1> QED  BY <1>1, <1>2, <1>3, <1>4

(* So does the archive.                                                    *)
LEMMA PackKept ==
  ASSUME Packing, UNCHANGED pack, app' = "packing" => app = "packing"
  PROVE  Packing'
  BY DEF Packing, pack, Carries

(* Only a worker that is hashing has tasks in its threads.                 *)
LEMMA NothingToDo ==
  ASSUME ForgeTypeOK', NoWork, ~Counted'
  PROVE  LatestNewest' /\ OnePlace' /\ NoneLost' /\ ReadRight'
  BY DEF NoWork, LatestNewest, OnePlace, NoneLost, ReadRight

LEMMA GenerateKeeps ==
  ASSUME ForgeTypeOK, ForgeInv, OnGenerate
  PROVE  ForgeTypeOK' /\ ForgeInv'
  <1> USE DEF ForgeInv, OnGenerate, pack
  <1>1. ForgeTypeOK'
    <2>1. acts' \in 0 .. MaxActs  BY BoundsOK DEF Acts, ForgeTypeOK
    <2>2. results' \in Manifest  BY DEF NoWork, Manifest
    <2> QED  BY <2>1, <2>2 DEF ForgeTypeOK, NoWork
  <1>2. ~Counted'  BY DEF Counted
  <1>3. LatestNewest' /\ OnePlace' /\ NoneLost' /\ ReadRight'  BY <1>1, <1>2, NothingToDo
  <1>4. Stages'  BY DEF Stages, NoWork
  <1>5. Packing'  BY PackKept
  <1> QED  BY <1>1, <1>3, <1>4, <1>5

LEMMA ClosesKeeps ==
  ASSUME ForgeTypeOK, ForgeInv, Closes
  PROVE  ForgeTypeOK' /\ ForgeInv'
  <1> USE DEF ForgeInv, Closes
  <1>1. ForgeTypeOK'  BY BoundsOK, EmptySeq DEF ForgeTypeOK, NoWork, Acts, Manifest
  <1>2. ~Counted'  BY DEF Counted
  <1>3. LatestNewest' /\ OnePlace' /\ NoneLost' /\ ReadRight'  BY <1>1, <1>2, NothingToDo
  <1>4. Stages'  BY DEF Stages, NoWork
  <1>5. Packing'  BY DEF Packing, Carries
  <1> QED  BY <1>1, <1>3, <1>4, <1>5

(* Who copies a file puts its page among those that changed.               *)
LEMMA EditsKeeps ==
  ASSUME ForgeTypeOK, ForgeInv, Edits
  PROVE  ForgeTypeOK' /\ ForgeInv'
  <1> USE DEF ForgeInv, work, output, pack
  <1>1. PICK q \in Copied, c \in Content \cup {Absent} :
          /\ tree' = [tree EXCEPT ![q[1]][q[2]] = c] /\ touched' = touched \cup {q[2]}
    BY DEF Edits
  <1>2. q[1] \in Folder /\ q[2] \in Page  BY RankOK
  <1>3. ForgeTypeOK'
    <2>1. tree' \in [Folder -> Holding]
      <3>1. tree[q[1]] \in Holding  BY <1>2 DEF ForgeTypeOK
      <3>2. [tree[q[1]] EXCEPT ![q[2]] = c] \in Holding  BY <1>2, <3>1 DEF Holding
      <3> QED  BY <1>1, <1>2, <3>2 DEF ForgeTypeOK
    <2>2. acts' \in 0 .. MaxActs  BY BoundsOK DEF Edits, Acts, ForgeTypeOK
    <2> QED  BY <1>1, <1>2, <2>1, <2>2 DEF Edits, ForgeTypeOK
  <1>4. Sound' \subseteq Sound /\ q[2] \notin Sound'  BY <1>1 DEF Edits, Sound
  <1>5. \A f \in Folder, p \in Sound' : tree'[f][p] = tree[f][p]
    BY <1>1, <1>2, <1>4 DEF ForgeTypeOK, Holding, Sound
  <1>6. \A f \in Folder, p \in Sound' : Newest(f, p)' <=> Newest(f, p)  BY <1>5 DEF Newest
  <1>7. UNCHANGED <<app, stage, latest, todo, job, sized, results, omitted, report, dat, datMd5,
                    faulty, source, changed, packed, origin>>
    BY DEF Edits
  <1>8. LatestNewest'
    <2> SUFFICES ASSUME Counted', NEW p \in Sound'
                 PROVE  (IF latest[p] = None THEN \A f \in Folder : ~Newest(f, p)
                                             ELSE Newest(latest[p], p))'
      BY DEF LatestNewest
    <2>1. Counted /\ p \in Sound /\ latest'[p] = latest[p]  BY <1>4, <1>7 DEF Counted
    <2>2. latest[p] \in Folder \cup {None}  BY <2>1 DEF ForgeTypeOK, Sound
    <2>3. CASE latest[p] = None
      <3>1. \A f \in Folder : ~Newest(f, p)  BY <2>1, <2>3 DEF LatestNewest
      <3>2. \A f \in Folder : ~Newest(f, p)'  BY <1>6, <3>1
      <3> QED  BY <2>1, <2>3, <3>2
    <2>4. CASE latest[p] # None
      <3>1. Newest(latest[p], p)  BY <2>1, <2>4 DEF LatestNewest
      <3>2. tree'[latest[p]][p] = tree[latest[p]][p]  BY <1>5, <2>2, <2>4
      <3>3. Newest(latest[p], p)'  BY <1>5, <1>7, <3>1, <3>2 DEF Newest
      <3> QED  BY <2>1, <2>4, <3>3
    <2> QED  BY <2>3, <2>4
  <1>9. OnePlace' /\ NoneLost'  BY <1>7 DEF OnePlace, NoneLost, Counted
  <1>10. ReadRight'
    <2>1. \A p \in todo' : latest'[p] # None  BY <1>7 DEF ReadRight
    <2>2. ASSUME NEW t \in Thread, job'[t] # None
          PROVE  /\ latest'[job'[t]] # None
                 /\ job'[t] \in Sound' => sized'[t] = Size[tree'[latest'[job'[t]]][job'[t]]]
      <3>1. job[t] \in Page /\ latest[job[t]] \in Folder
        BY <1>7, <2>2 DEF ReadRight, ForgeTypeOK
      <3> QED  BY <1>4, <1>5, <1>7, <2>2, <3>1 DEF ReadRight
    <2>3. ASSUME NEW r \in results', r.page \in Sound'
          PROVE  /\ r.folder = latest'[r.page] /\ r.md5 = tree'[r.folder][r.page]
                 /\ r.size = Size[tree'[r.folder][r.page]]
      <3>1. r.folder \in Folder  BY <1>7, <2>3 DEF ForgeTypeOK, Manifest, Result
      <3> QED  BY <1>4, <1>5, <1>7, <2>3, <3>1 DEF ReadRight
    <2> QED  BY <2>1, <2>2, <2>3 DEF ReadRight
  <1>11. Stages' /\ Packing'  BY <1>7 DEF Stages, Packing, Carries
  <1> QED  BY <1>3, <1>8, <1>9, <1>10, <1>11

(* A page of the enumerated files; if all of its files were enumerated its *)
(* newest version is found.                                                *)
LEMMA EnumerateKeeps ==
  ASSUME ForgeTypeOK, ForgeInv, Enumerate
  PROVE  ForgeTypeOK' /\ ForgeInv'
  <1> USE DEF ForgeInv, output, pack
  <1>1. PICK seen \in SUBSET Listed :
          /\ latest' \in [Page -> Folder \cup {None}]
          /\ \A p \in Page : IF latest'[p] = None THEN \A g \in Folder : <<g, p>> \notin seen
                                                 ELSE NewestOf(latest'[p], p, seen)
          /\ omitted' = {q[2] : q \in Listed \ seen}
    <2>1. PICK seen \in SUBSET Listed :
            \E newest \in [{q[2] : q \in seen} -> Folder] :
              /\ \A p \in DOMAIN newest : NewestOf(newest[p], p, seen)
              /\ latest' = [p \in Page |-> IF p \in DOMAIN newest THEN newest[p] ELSE None]
              /\ omitted' = {q[2] : q \in Listed \ seen}
      BY DEF Enumerate, Before
    <2>2. PICK newest \in [{q[2] : q \in seen} -> Folder] :
            /\ \A p \in DOMAIN newest : NewestOf(newest[p], p, seen)
            /\ latest' = [p \in Page |-> IF p \in DOMAIN newest THEN newest[p] ELSE None]
            /\ omitted' = {q[2] : q \in Listed \ seen}
      BY <2>1
    <2>3. ASSUME NEW p \in Page, p \notin DOMAIN newest, NEW g \in Folder
          PROVE  <<g, p>> \notin seen
      <3>1. <<g, p>> \in seen => <<g, p>>[2] \in {q[2] : q \in seen}  OBVIOUS
      <3> QED  BY <2>3, <3>1
    <2> QED  BY <2>2, <2>3, VersionsOK
  <1>2. /\ todo' = {p \in Page : latest'[p] # None} /\ stage' = "hash" /\ stage = "scan"
        /\ UNCHANGED <<tree, app, job, sized, results, report, dat, datMd5, faulty, source,
                       changed, packed, origin, touched, acts>>
    BY DEF Enumerate
  <1>3. ForgeTypeOK'
    <2>1. omitted' \subseteq Page  BY <1>1 DEF Listed
    <2> QED  BY <1>1, <1>2, <2>1 DEF ForgeTypeOK
  <1>4. LatestNewest'
    <2> SUFFICES ASSUME NEW p \in Page, p \notin omitted'
                 PROVE  (IF latest[p] = None THEN \A f \in Folder : ~Newest(f, p)
                                             ELSE Newest(latest[p], p))'
      BY DEF LatestNewest, Sound
    <2>1. \A f \in Folder : tree[f][p] # Absent /\ Version[f] > 0 => <<f, p>> \in seen
      <3> SUFFICES ASSUME NEW f \in Folder, tree[f][p] # Absent, Version[f] > 0,
                          <<f, p>> \notin seen
                   PROVE  FALSE
        OBVIOUS
      <3>1. <<f, p>> \in Listed  BY DEF Listed
      <3>2. <<f, p>>[2] \in omitted'  BY <1>1, <3>1
      <3> QED  BY <3>2
    <2>2. \A f \in Folder : <<f, p>> \in seen => tree[f][p] # Absent /\ Version[f] > 0
      BY DEF Listed
    <2>3. /\ latest'[p] \in Folder \cup {None}
          /\ latest'[p] # None => NewestOf(latest'[p], p, seen)
      BY <1>1
    <2>4. \A f \in Folder : Version[f] \in Nat  BY VersionsOK
    <2>5. CASE latest'[p] = None
      <3>1. \A g \in Folder : <<g, p>> \notin seen  BY <1>1, <2>5
      <3> QED  BY <1>2, <2>1, <2>5, <3>1 DEF Newest
    <2>6. CASE latest'[p] # None
      <3>1. latest'[p] \in Folder  BY <2>3, <2>6
      <3>2. /\ <<latest'[p], p>> \in seen
            /\ \A g \in Folder : <<g, p>> \in seen => Version[g] <= Version[latest'[p]]
        BY <2>3, <2>6 DEF NewestOf
      <3>3. \A g \in Folder : tree[g][p] # Absent => Version[g] <= Version[latest'[p]]
        <4> SUFFICES ASSUME NEW g \in Folder, tree[g][p] # Absent
                     PROVE  Version[g] <= Version[latest'[p]]
          OBVIOUS
        <4>1. CASE Version[g] > 0  BY <2>1, <3>2, <4>1
        <4>2. CASE ~(Version[g] > 0)  BY <2>4, <3>1, <4>2
        <4> QED  BY <4>1, <4>2
      <3> QED  BY <1>2, <2>2, <2>6, <3>1, <3>2, <3>3 DEF Newest
    <2> QED  BY <2>5, <2>6
  <1>5. OnePlace'  BY <1>2 DEF OnePlace, Stages
  <1>6. NoneLost'  BY <1>2 DEF NoneLost
  <1>7. ReadRight'  BY <1>2 DEF ReadRight, Stages
  <1>8. Stages' /\ Packing'  BY <1>2 DEF Stages, Packing, Carries
  <1> QED  BY <1>3, <1>4, <1>5, <1>6, <1>7, <1>8

LEMMA TakesKeeps ==
  ASSUME ForgeTypeOK, ForgeInv, NEW t \in Thread, Takes(t)
  PROVE  ForgeTypeOK' /\ ForgeInv'
  <1> USE DEF ForgeInv, output, pack
  <1>1. PICK p \in todo :
          /\ todo' = todo \ {p}
          /\ \/ /\ job' = [job EXCEPT ![t] = p]
                /\ sized' = [sized EXCEPT ![t] = Size[tree[latest[p]][p]]]
                /\ tree[latest[p]][p] # Absent /\ omitted' = omitted
             \/ omitted' = omitted \cup {p} /\ job' = job /\ sized' = sized
    BY DEF Takes
  <1>2. /\ stage = "hash" /\ job[t] = None
        /\ UNCHANGED <<tree, app, stage, latest, results, report, dat, datMd5, faulty, source,
                       changed, packed, origin, touched, acts>>
    BY DEF Takes
  <1>3. p \in Page /\ p # None /\ latest[p] \in Folder
    BY SizesOK DEF ForgeTypeOK, ReadRight
  <1>4. ForgeTypeOK'
    <2>1. tree[latest[p]][p] # Absent => Size[tree[latest[p]][p]] \in Nat
      BY <1>3, SizesOK DEF ForgeTypeOK, Holding
    <2>2. sized' \in [Thread -> Nat] /\ job' \in [Thread -> Page \cup {None}]
      BY <1>1, <1>3, <2>1 DEF ForgeTypeOK
    <2>3. todo' \subseteq Page /\ omitted' \subseteq Page  BY <1>1, <1>3 DEF ForgeTypeOK
    <2> QED  BY <1>2, <2>2, <2>3 DEF ForgeTypeOK
  <1>5. Sound' \subseteq Sound /\ Counted' = Counted  BY <1>1, <1>2 DEF Sound, Counted
  <1>6. LatestNewest'  BY <1>2, <1>5 DEF LatestNewest, Newest
  <1>7. OnePlace'
    <2>1. \A u \in Thread : job'[u] = IF u = t /\ job' # job THEN p ELSE job[u]
      BY <1>1 DEF ForgeTypeOK
    <2>2. /\ \A u \in Thread : job[u] # p /\ (job[u] # None => job[u] \notin todo)
          /\ \A r \in results : r.page # p
      BY <1>3 DEF OnePlace
    <2>3. \A u \in Thread : job'[u] # None => job'[u] \notin todo'  BY <1>1, <2>1, <2>2
    <2>4. \A u, v \in Thread : job'[u] = job'[v] /\ job'[u] # None => u = v
      <3> SUFFICES ASSUME NEW u \in Thread, NEW v \in Thread, job'[u] = job'[v],
                          job'[u] # None
                   PROVE  u = v
        OBVIOUS
      <3>1. \A w, x \in Thread : job[w] = job[x] /\ job[w] # None => w = x  BY DEF OnePlace
      <3> QED  BY <2>1, <2>2, <3>1
    <2>5. \A r \in results' : /\ r.page \notin todo' /\ r.earlier = 0
                            /\ \A u \in Thread : job'[u] # r.page
      BY <1>1, <1>2, <2>1, <2>2 DEF OnePlace
    <2>6. \A r, o \in results' : r.page = o.page => r = o  BY <1>2 DEF OnePlace
    <2> QED  BY <2>3, <2>4, <2>5, <2>6 DEF OnePlace
  <1>8. NoneLost'
    <2> SUFFICES ASSUME NEW q \in Page \ omitted', latest'[q] # None
                 PROVE  \/ q \in todo' \/ (\E u \in Thread : job'[u] = q)
                        \/ \E r \in results' : r.page = q
      BY DEF NoneLost
    <2>1. q \in todo \/ (\E u \in Thread : job[u] = q) \/ \E r \in results : r.page = q
      BY <1>1, <1>2 DEF NoneLost, Counted
    <2>2. CASE q \in todo
      <3>1. CASE q # p  BY <1>1, <2>2, <3>1
      <3>2. CASE q = p
        <4>1. job'[t] = p  BY <1>1, <3>2 DEF ForgeTypeOK
        <4> QED  BY <3>2, <4>1
      <3> QED  BY <3>1, <3>2
    <2>3. CASE \E u \in Thread : job[u] = q
      <3>1. PICK u \in Thread : job[u] = q  BY <2>3
      <3>2. CASE u # t \/ job' = job  BY <1>1, <3>1, <3>2 DEF ForgeTypeOK
      <3>3. CASE u = t  BY <1>2, <3>1, <3>3, SizesOK
      <3> QED  BY <3>2, <3>3
    <2>4. CASE \E r \in results : r.page = q  BY <1>2, <2>4
    <2> QED  BY <2>1, <2>2, <2>3, <2>4
  <1>9. ReadRight'
    <2>1. \A u \in Thread : /\ job'[u] = IF u = t /\ job' # job THEN p ELSE job[u]
                            /\ u # t => sized'[u] = sized[u]
      BY <1>1 DEF ForgeTypeOK
    <2>2. job' # job => sized'[t] = Size[tree[latest[p]][p]]  BY <1>1 DEF ForgeTypeOK
    <2>3. job' = job => sized' = sized \/ p = None  BY <1>1, <1>2, <1>3 DEF ForgeTypeOK
    <2>4. \A q \in todo' : latest'[q] # None  BY <1>1, <1>2 DEF ReadRight
    <2>5. ASSUME NEW u \in Thread, job'[u] # None
          PROVE  /\ latest'[job'[u]] # None
                 /\ job'[u] \in Sound' => sized'[u] = Size[tree'[latest'[job'[u]]][job'[u]]]
      <3>1. CASE u = t /\ job' # job  BY <1>2, <1>3, <2>1, <2>2, <3>1, VersionsOK
      <3>2. CASE ~(u = t /\ job' # job)
        <4>1. job'[u] = job[u]  BY <2>1, <3>2
        <4>2. sized'[u] = sized[u]  BY <1>3, <2>1, <2>3, <3>2
        <4> QED  BY <1>2, <1>5, <2>5, <4>1, <4>2 DEF ReadRight
      <3> QED  BY <3>1, <3>2
    <2>6. \A r \in results' : r.page \in Sound' =>
            /\ r.folder = latest'[r.page] /\ r.md5 = tree'[r.folder][r.page]
            /\ r.size = Size[tree'[r.folder][r.page]]
      BY <1>2, <1>5 DEF ReadRight
    <2> QED  BY <2>4, <2>5, <2>6 DEF ReadRight
  <1>10. Stages' /\ Packing'  BY <1>1, <1>2 DEF Stages, Packing, Carries
  <1> QED  BY <1>4, <1>6, <1>7, <1>8, <1>9, <1>10

(* A page that was hashed comes to the results once.                       *)
LEMMA HashesKeeps ==
  ASSUME ForgeTypeOK, ForgeInv, NEW t \in Thread, Hashes(t)
  PROVE  ForgeTypeOK' /\ ForgeInv'
  <1> USE DEF ForgeInv, output, pack
  <1> DEFINE p == job[t]
             f == latest[p]
             e == [page |-> p, folder |-> f, size |-> sized[t], md5 |-> tree[f][p], earlier |-> 0]
  <1>1. /\ stage = "hash" /\ p # None
        /\ UNCHANGED <<tree, app, stage, latest, todo, sized, report, dat, datMd5, faulty, source,
                       changed, packed, origin, touched, acts>>
    BY DEF Hashes
  <1>2. p \in Page /\ f \in Folder  BY <1>1 DEF ForgeTypeOK, ReadRight
  <1>3. Times(p) = 0
    <2>1. {r \in results : r.page = p} = {}  BY <1>1 DEF OnePlace
    <2> QED  BY <2>1, FS_EmptySet DEF Times
  <1>4. \/ results' = results \cup {e} /\ tree[f][p] # Absent /\ omitted' = omitted
        \/ omitted' = omitted \cup {p} /\ results' = results
    BY <1>3 DEF Hashes
  <1>5. job' = [job EXCEPT ![t] = None]  BY DEF Hashes
  <1>6. \A u \in Thread : job'[u] = IF u = t THEN None ELSE job[u]  BY <1>5 DEF ForgeTypeOK
  <1>7. /\ e.page = p /\ e.folder = f /\ e.size = sized[t] /\ e.md5 = tree[f][p] /\ e.earlier = 0
        /\ tree[f][p] # Absent => e \in Result
    BY <1>1, <1>2 DEF ForgeTypeOK, Holding, Result
  <1> HIDE DEF e, f
  <1>8. ForgeTypeOK'
    <2>1. results' \in Manifest  BY <1>4, <1>7 DEF ForgeTypeOK, Manifest
    <2>2. omitted' \subseteq Page  BY <1>2, <1>4 DEF ForgeTypeOK
    <2>3. job' \in [Thread -> Page \cup {None}]  BY <1>5 DEF ForgeTypeOK
    <2> QED  BY <1>1, <2>1, <2>2, <2>3 DEF ForgeTypeOK
  <1>9. Sound' \subseteq Sound /\ Counted' = Counted /\ results \subseteq results'
    BY <1>1, <1>4 DEF Sound, Counted
  <1>10. LatestNewest'  BY <1>1, <1>9 DEF LatestNewest, Newest
  <1>11. OnePlace'
    <2>1. \A u \in Thread : job'[u] # None => job'[u] \notin todo'  BY <1>1, <1>6 DEF OnePlace
    <2>2. \A u, v \in Thread : job'[u] = job'[v] /\ job'[u] # None => u = v
      BY <1>6 DEF OnePlace
    <2>3. p \notin todo' /\ \A u \in Thread : job'[u] # p  BY <1>1, <1>6 DEF OnePlace
    <2>4. \A r \in results : /\ r.page \notin todo' /\ r.earlier = 0 /\ r.page # p
                             /\ \A u \in Thread : job'[u] # r.page \/ job'[u] = None
      BY <1>1, <1>6 DEF OnePlace
    <2>5. \A r \in results : r.page \in Page  BY DEF ForgeTypeOK, Manifest, Result
    <2>6. \A r \in results' : /\ r.page \notin todo' /\ r.earlier = 0
                              /\ \A u \in Thread : job'[u] # r.page
      BY <1>4, <1>7, <2>3, <2>4, <2>5, SizesOK
    <2>7. \A r, o \in results' : r.page = o.page => r = o
      <3>1. \A r, o \in results : r.page = o.page => r = o  BY DEF OnePlace
      <3> QED  BY <1>4, <1>7, <2>4, <3>1
    <2> QED  BY <2>1, <2>2, <2>6, <2>7 DEF OnePlace
  <1>12. NoneLost'
    <2> SUFFICES ASSUME NEW q \in Page \ omitted', latest'[q] # None
                 PROVE  \/ q \in todo' \/ (\E u \in Thread : job'[u] = q)
                        \/ \E r \in results' : r.page = q
      BY DEF NoneLost
    <2>1. q \in todo \/ (\E u \in Thread : job[u] = q) \/ \E r \in results : r.page = q
      BY <1>1, <1>4 DEF NoneLost, Counted
    <2>2. CASE q = p  BY <1>4, <1>7, <2>2
    <2>3. CASE q # p  BY <1>1, <1>6, <1>9, <2>1, <2>3
    <2> QED  BY <2>2, <2>3
  <1>13. ReadRight'
    <2>1. \A q \in todo' : latest'[q] # None  BY <1>1 DEF ReadRight
    <2>2. \A u \in Thread : job'[u] # None =>
            /\ latest'[job'[u]] # None
            /\ job'[u] \in Sound' => sized'[u] = Size[tree'[latest'[job'[u]]][job'[u]]]
      BY <1>1, <1>6, <1>9 DEF ReadRight
    <2>3. ASSUME NEW r \in results', r.page \in Sound'
          PROVE  /\ r.folder = latest'[r.page] /\ r.md5 = tree'[r.folder][r.page]
                 /\ r.size = Size[tree'[r.folder][r.page]]
      <3>1. CASE r \in results  BY <1>1, <1>9, <2>3, <3>1 DEF ReadRight
      <3>2. CASE r = e
        <4>1. sized[t] = Size[tree[f][p]]  BY <1>1, <1>7, <1>9, <2>3, <3>2 DEF ReadRight, f
        <4> QED  BY <1>1, <1>7, <3>2, <4>1 DEF f
      <3> QED  BY <1>4, <3>1, <3>2
    <2> QED  BY <2>1, <2>2, <2>3 DEF ReadRight
  <1>14. Stages' /\ Packing'  BY <1>1 DEF Stages, Packing, Carries
  <1> QED  BY <1>8, <1>10, <1>11, <1>12, <1>13, <1>14

(* Joining, writing and the end of a run.                                  *)
LEMMA WritesKeep ==
  ASSUME ForgeTypeOK, ForgeInv, JoinsPool \/ OpensDat \/ WritesDat \/ WritesMd5 \/ OnWorkerFinished
  PROVE  ForgeTypeOK' /\ ForgeInv'
  <1> USE DEF ForgeInv, JoinsPool, OpensDat, WritesDat, WritesMd5, OnWorkerFinished, work, pack, output
  <1>1. UNCHANGED <<tree, work, touched, pack, acts>>  OBVIOUS
  <1>2. Counted' => Counted  BY DEF Counted
  <1>3. LatestNewest' /\ OnePlace' /\ NoneLost' /\ ReadRight'  BY <1>1, <1>2, WorkKept
  <1>4. ForgeTypeOK'  BY DEF ForgeTypeOK
  <1>5. Packing'  BY <1>1, PackKept
  <1>6. Stages'  BY DEF Stages
  <1> QED  BY <1>3, <1>4, <1>5, <1>6

(* The dialog notes what it found to differ, and the two folders.          *)
LEMMA DialogKeeps ==
  ASSUME ForgeTypeOK, ForgeInv, DiffDialogRunPack
  PROVE  ForgeTypeOK' /\ ForgeInv'
  <1> USE DEF ForgeInv, work, output
  <1>1. /\ UNCHANGED <<tree, stage, work, output, touched>>
        /\ app = "ready" /\ app' \in {"ready", "packing"} /\ acts' \in 0 .. MaxActs
    BY BoundsOK DEF DiffDialogRunPack, OnOpenDiffPackDialog, Acts, ForgeTypeOK
  <1>2. PICK base \in Folder, new \in Folder :
          /\ source' = new /\ changed' = CollectChangedFiles(base, new)
          /\ IF changed' = {} THEN UNCHANGED <<app, packed, origin>>
             ELSE /\ app' = "packing" /\ packed' = <<>>
                  /\ origin' = [base |-> tree[base], new |-> tree[new]]
    BY DEF DiffDialogRunPack
  <1>3. tree[base] \in Holding /\ tree[new] \in Holding /\ source' # None
    BY <1>2, VersionsOK DEF ForgeTypeOK
  <1>4. ForgeTypeOK'
    <2>1. changed' \subseteq Page  BY <1>2 DEF CollectChangedFiles
    <2>2. origin' \in Origin \cup {None}  BY <1>2, <1>3 DEF ForgeTypeOK, Origin
    <2>3. packed' \in Seq([path : Page, content : Content \cup {Cut}])
      BY <1>2, EmptySeq DEF ForgeTypeOK
    <2> QED  BY <1>1, <1>2, <2>1, <2>2, <2>3 DEF ForgeTypeOK
  <1>5. LatestNewest' /\ OnePlace' /\ NoneLost' /\ ReadRight'  BY <1>1, WorkKept DEF Counted
  <1>6. Stages'  BY <1>1 DEF Stages
  <1>7. Packing'
    <2>1. CASE changed' = {}  BY <1>1, <1>2, <2>1 DEF Packing, Carries
    <2>2. CASE changed' # {}
      <3>1. origin'.base = tree[base] /\ origin'.new = tree[new] /\ packed' = <<>>
        BY <1>2, <2>2
      <3>2. changed' = {p \in Page : origin'.new[p] \notin {Absent, origin'.base[p]}}
        BY <1>2, <3>1 DEF CollectChangedFiles, Same
      <3>3. origin' # None
        <4>1. origin' = [base |-> tree[base], new |-> tree[new]]  BY <1>2, <2>2
        <4>2. origin' \in Origin  BY <1>3, <4>1 DEF Origin
        <4> QED  BY <4>2, NoneOK
      <3> QED  BY <1>3, <3>1, <3>2, <3>3 DEF Packing
    <2> QED  BY <2>1, <2>2
  <1> QED  BY <1>4, <1>5, <1>6, <1>7

(* Every file that differed is packed, unless the archive was not made; an *)
(* archive that has something else has no origin.                          *)
LEMMA PackKeeps ==
  ASSUME ForgeTypeOK, ForgeInv, CreateChangedFilesArchive7z
  PROVE  ForgeTypeOK' /\ ForgeInv'
  <1> USE DEF ForgeInv, work, output
  <1> DEFINE s == InOrder(changed)
             n == Cardinality(changed)
  <1>1. /\ UNCHANGED <<tree, stage, work, output, touched, source, changed, acts>>
        /\ app = "packing" /\ app' = "ready"
    BY DEF CreateChangedFilesArchive7z
  <1>2. source \in Folder /\ changed \in SUBSET Page /\ origin # None
        /\ changed = {p \in Page : origin.new[p] \notin {Absent, origin.base[p]}}
    BY <1>1 DEF ForgeTypeOK, Packing
  <1>3. /\ n \in Nat /\ s \in [1 .. n -> changed]
        /\ \A p \in changed : \E k \in 1 .. n : s[k] = p
    BY <1>2, Ordered
  <1>4. \/ \E short \in SUBSET changed :
             /\ \A p \in changed : tree[source][p] # Absent
             /\ packed' = [k \in 1 .. n |->
                  [path |-> s[k],
                   content |-> IF s[k] \in short THEN Cut ELSE tree[source][s[k]]]]
             /\ \/ origin' = None
                \/ /\ short = {} /\ \A p \in changed : tree[source][p] = origin.new[p]
                   /\ origin' = origin
        \/ packed' = <<>> /\ origin' = None
    <2>1. DOMAIN s = 1 .. n  BY <1>3
    <2> HIDE DEF s, n
    <2> QED  BY <2>1 DEF CreateChangedFilesArchive7z, s
  <1> HIDE DEF s, n
  <1>5. packed' \in Seq(Entry)
    <2>1. CASE packed' = <<>>  BY <2>1, EmptySeq
    <2>2. ASSUME NEW short \in SUBSET changed,
                 \A p \in changed : tree[source][p] # Absent,
                 packed' = [k \in 1 .. n |->
                   [path |-> s[k],
                    content |-> IF s[k] \in short THEN Cut ELSE tree[source][s[k]]]]
          PROVE  packed' \in Seq(Entry)
      <3>1. ASSUME NEW k \in 1 .. n
            PROVE  [path |-> s[k],
                    content |-> IF s[k] \in short THEN Cut ELSE tree[source][s[k]]] \in Entry
        <4>1. s[k] \in changed /\ s[k] \in Page  BY <1>2, <1>3
        <4>2. tree[source][s[k]] \in Content  BY <1>2, <2>2, <4>1 DEF ForgeTypeOK, Holding
        <4> QED  BY <4>1, <4>2 DEF Entry
      <3>2. packed' \in [1 .. n -> Entry]  BY <2>2, <3>1
      <3> QED  BY <1>3, <3>2, SeqDef
    <2> QED  BY <1>4, <2>1, <2>2
  <1>6. ForgeTypeOK'
    <2>1. origin' \in Origin \cup {None}  BY <1>4 DEF ForgeTypeOK
    <2> QED  BY <1>1, <1>5, <2>1 DEF ForgeTypeOK, Entry
  <1>7. LatestNewest' /\ OnePlace' /\ NoneLost' /\ ReadRight'  BY <1>1, WorkKept DEF Counted
  <1>8. Stages'  BY <1>1 DEF Stages
  <1>9. Packing'
    <2> SUFFICES ASSUME packed' # <<>>, origin' # None
                 PROVE  Carries(packed', origin')
      BY <1>1 DEF Packing
    <2>1. /\ packed' = [k \in 1 .. n |-> [path |-> s[k], content |-> tree[source][s[k]]]]
          /\ \A p \in changed : tree[source][p] = origin.new[p]
          /\ origin' = origin
      BY <1>4
    <2> SUFFICES ASSUME NEW p \in Page, origin.new[p] \notin {Absent, origin.base[p]}
                 PROVE  \E k \in DOMAIN packed' :
                          packed'[k] = [path |-> p, content |-> origin.new[p]]
      BY <2>1 DEF Carries
    <2>2. p \in changed  BY <1>2
    <2>3. PICK k \in 1 .. n : s[k] = p  BY <1>3, <2>2
    <2>4. k \in DOMAIN packed' /\ packed'[k] = [path |-> p, content |-> origin.new[p]]
      BY <2>1, <2>2, <2>3
    <2> QED  BY <2>4
  <1> QED  BY <1>6, <1>7, <1>8, <1>9

(* What the tool does.                                                     *)
LEMMA ForgeKeeps ==
  ASSUME ForgeTypeOK, ForgeInv, ForgeStep
  PROVE  ForgeTypeOK' /\ ForgeInv'
  BY GenerateKeeps, EnumerateKeeps, TakesKeeps, HashesKeeps, WritesKeep, DialogKeeps, PackKeeps,
     EditsKeeps, ClosesKeeps
  DEF ForgeStep, WorkerStep

(* What it was when it was started.                                        *)
LEMMA ForgeStarts ==
  ASSUME ForgeInit
  PROVE  ForgeTypeOK /\ ForgeInv
  <1> USE DEF ForgeInit
  <1>1. ForgeTypeOK
    <2>1. tree \in [Folder -> Holding]  BY TreesOK DEF Holding
    <2>2. results \in Manifest  BY DEF Manifest
    <2>3. packed \in Seq([path : Page, content : Content \cup {Cut}])  BY EmptySeq
    <2>4. acts \in 0 .. MaxActs  BY BoundsOK
    <2>5. /\ latest \in [Page -> Folder \cup {None}] /\ job \in [Thread -> Page \cup {None}]
          /\ sized \in [Thread -> Nat]
      OBVIOUS
    <2> QED  BY <2>1, <2>2, <2>3, <2>4, <2>5 DEF ForgeTypeOK
  <1>2. ForgeInv
    BY DEF ForgeInv, LatestNewest, OnePlace, NoneLost, ReadRight, Stages, Packing, Counted
  <1> QED  BY <1>1, <1>2

-----------------------------------------------------------------------------
(* The extraction.                                                         *)

(* Places depend on the archive and on its prefix alone.                   *)
LEMMA PlacesStand ==
  ASSUME UNCHANGED <<entries, prefix>>
  PROVE  Count' = Count /\ (Apart' <=> Apart) /\ \A k : Target(k)' = Target(k)
  BY DEF Count, Apart, Target

(* A thread that does not move keeps what it has, if nobody writes into    *)
(* the places of the entries that it has passed.                           *)
LEMMA ThreadStands ==
  ASSUME NEW i \in Worker, ThreadInv(i),
         UNCHANGED <<entries, prefix, spawned>>, at'[i] = at[i], pos'[i] = pos[i],
         extractFailed => extractFailed',
         pool' \in {"spawn", "join", "done"} => pool \in {"spawn", "join", "done"},
         Apart /\ at[i] # "off" => \A k \in Passed(i) : disk'[Target(k)] = disk[Target(k)]
  PROVE  ThreadInv(i)'
  <1>1. Count' = Count /\ (Apart' <=> Apart) /\ \A k : Target(k)' = Target(k)  BY PlacesStand
  <1>2. InBatch(i)' = InBatch(i) /\ Passed(i)' = Passed(i)  BY <1>1 DEF InBatch, Passed
  <1> QED  BY <1>1, <1>2 DEF ThreadInv

(* What a thread has passed are entries of its own batch.                  *)
LEMMA PassedAreEntries ==
  ASSUME ExtractTypeOK, Alive, Phases, NEW i \in Worker, ThreadInv(i), at[i] # "off"
  PROVE  /\ Count \in Nat \ {0} /\ i < Threads(Count) /\ i \in Nat
         /\ First(Count, i) \in Nat /\ Last(Count, i) \in Nat /\ pos[i] \in Nat
         /\ \A k \in Passed(i) : k \in 1 .. Count /\ First(Count, i) < k /\ k <= Last(Count, i)
  <1>1. Count \in Nat \ {0}  BY EmptySeq DEF Alive, Phases, ExtractTypeOK, Count
  <1>2. i \in Nat /\ spawned \in Nat /\ pos[i] \in Nat  BY HwOK DEF Worker, ExtractTypeOK
  <1>3. i < spawned /\ spawned <= Threads(Count)  BY DEF Alive, Phases, ThreadInv, InBatch
  <1>4. /\ First(Count, i) \in Nat /\ Last(Count, i) \in Nat /\ Threads(Count) \in Nat
    BY <1>1, <1>2, Batches
  <1>5. \A k \in Passed(i) : k \in 1 .. Count /\ First(Count, i) < k /\ k <= Last(Count, i)
    BY <1>1, <1>2, <1>4 DEF Passed, ThreadInv, InBatch
  <1> QED  BY <1>1, <1>2, <1>3, <1>4, <1>5

(* No thread writes into a place that another, or itself, has passed.      *)
LEMMA WritesApart ==
  ASSUME ExtractTypeOK, Alive, Phases, Apart, NEW i \in Worker, NEW j \in Worker,
         ThreadInv(i), ThreadInv(j), at[i] # "off", at[j] # "off",
         pos[i] <= Last(Count, i), pos[i] <= Count,
         NEW c, disk' = [disk EXCEPT ![Target(pos[i])] = c]
  PROVE  \A k \in Passed(j) : disk'[Target(k)] = disk[Target(k)]
  <1> SUFFICES ASSUME NEW k \in Passed(j) PROVE disk'[Target(k)] = disk[Target(k)]
    OBVIOUS
  <1>1. /\ Count \in Nat \ {0} /\ i < Threads(Count) /\ i \in Nat
        /\ First(Count, i) \in Nat /\ pos[i] \in Nat
    BY PassedAreEntries
  <1>2. /\ j < Threads(Count) /\ k \in 1 .. Count
        /\ First(Count, j) < k /\ k <= Last(Count, j)
    BY PassedAreEntries
  <1>3. First(Count, i) < pos[i] /\ pos[i] \in 1 .. Count  BY <1>1 DEF ThreadInv, InBatch
  <1>4. k # pos[i]
    <2>1. CASE i = j  BY <1>1, <2>1 DEF Passed
    <2>2. CASE i # j  BY <1>1, <1>2, <1>3, <2>2, Batches
    <2> QED  BY <2>1, <2>2
  <1>5. Target(k) # Target(pos[i])  BY <1>2, <1>3, <1>4 DEF Apart, Count
  <1>6. Target(k) \in Place  BY <1>2, TargetIsPlace DEF ExtractTypeOK, Entry
  <1> QED  BY <1>5, <1>6 DEF ExtractTypeOK

LEMMA ExtractStarts ==
  ASSUME ExtractInit
  PROVE  ExtractTypeOK /\ ExtractInv
  <1> USE DEF ExtractInit
  <1>1. ExtractTypeOK  BY EmptySeq DEF ExtractTypeOK
  <1>2. Phases  BY DEF Phases
  <1>3. \A i \in Worker : ThreadInv(i)  BY HwOK DEF ThreadInv, Worker
  <1> QED  BY <1>1, <1>2, <1>3 DEF ExtractInv

LEMMA BeginsKeeps ==
  ASSUME ExtractTypeOK, ExtractInv, NEW a \in Seq(Entry), Extract7z(a)
  PROVE  ExtractTypeOK' /\ ExtractInv'
  <1> USE DEF Extract7z
  <1>1. ExtractTypeOK'  BY DEF ExtractTypeOK, Entry
  <1>2. Phases'  BY DEF Phases
  <1>3. \A i \in Worker : ThreadInv(i)'  BY HwOK DEF ThreadInv, Worker
  <1> QED  BY <1>1, <1>2, <1>3 DEF ExtractInv

LEMMA ScanKeeps ==
  ASSUME ExtractTypeOK, ExtractInv, ScanArchive
  PROVE  ExtractTypeOK' /\ ExtractInv'
  <1> USE DEF ScanArchive
  <1>1. ExtractTypeOK'
    <2>1. prefix' \in Seq(STRING)
      <3>1. entries \in Seq(Entry)  BY DEF ExtractTypeOK, Entry
      <3> QED  BY <3>1, PrefixIsPath, EmptySeq
    <2> QED  BY <2>1 DEF ExtractTypeOK
  <1>2. spawned = 0 /\ \A i \in Worker : at[i] = "off"  BY DEF ExtractInv, Phases
  <1>3. Phases'
    <2>1. entries # <<>> => Count \in Nat \ {0}  BY EmptySeq DEF ExtractTypeOK, Count
    <2>2. entries # <<>> => Threads(Count) \in Nat  BY <2>1, Batches
    <2>3. Count' = Count  BY DEF Count
    <2> QED  BY <1>2, <2>2, <2>3 DEF Phases
  <1>4. \A i \in Worker : ThreadInv(i)'  BY <1>2, HwOK DEF ThreadInv, Worker
  <1> QED  BY <1>1, <1>3, <1>4 DEF ExtractInv

(* The next thread is started at the head of its batch.                    *)
LEMMA SpawnKeeps ==
  ASSUME ExtractTypeOK, ExtractInv, Spawn
  PROVE  ExtractTypeOK' /\ ExtractInv'
  <1> USE DEF ExtractInv
  <1> DEFINE s == spawned
  <1>1. /\ UNCHANGED <<entries, prefix, extractFailed, disk, data>> /\ spawned' = s + 1
        /\ pool = "spawn" /\ s < Threads(Count)
    BY DEF Spawn
  <1>2. \/ First(Count, s) >= Last(Count, s) /\ UNCHANGED <<pool, at, pos>>
        \/ /\ ~(First(Count, s) >= Last(Count, s)) /\ at' = [at EXCEPT ![s] = "head"]
           /\ pos' = [pos EXCEPT ![s] = First(Count, s) + 1] /\ pool' = pool
        \/ pool' = "died" /\ UNCHANGED <<at, pos>>
    BY DEF Spawn
  <1>3. Count \in Nat \ {0} /\ s \in Nat /\ Threads(Count) \in Nat
        /\ s \in Worker /\ First(Count, s) \in Nat /\ Last(Count, s) \in Nat
        /\ \A i \in Worker : i \in Nat /\ First(Count, i) \in Nat /\ Last(Count, i) \in Nat
    <2>1. Count \in Nat \ {0} /\ s \in Nat  BY <1>1, EmptySeq DEF Phases, ExtractTypeOK, Count
    <2>2. \A i \in Worker : i \in Nat  BY HwOK DEF Worker
    <2> QED  BY <1>1, <2>1, <2>2, Batches
  <1>4. ExtractTypeOK'
    <2>0. at' = [at EXCEPT ![s] = "head"] \/ at' = at  BY <1>2
    <2>1. at' \in [Worker -> {"off", "head", "writing", "out"}]  BY <2>0 DEF ExtractTypeOK
    <2>4. pos' = [pos EXCEPT ![s] = First(Count, s) + 1] \/ pos' = pos  BY <1>2
    <2>5. pos' \in [Worker -> Nat]  BY <1>3, <2>4 DEF ExtractTypeOK
    <2>2. spawned' \in Nat  BY <1>1, <1>3
    <2>3. pool' \in {"idle", "scan", "spawn", "join", "done", "failed", "died"}
      BY <1>2 DEF ExtractTypeOK
    <2> QED  BY <1>1, <2>1, <2>2, <2>3, <2>5 DEF ExtractTypeOK
  <1>5. Count' = Count /\ (Apart' <=> Apart) /\ \A k : Target(k)' = Target(k)
    BY <1>1, PlacesStand
  <1>6. Phases'  BY <1>1, <1>2, <1>3, <1>5 DEF Phases
  <1>7. at[s] = "off"  BY <1>3 DEF ThreadInv, InBatch, ExtractTypeOK
  <1>8. ASSUME NEW i \in Worker PROVE ThreadInv(i)'
    <2>1. i # s => at'[i] = at[i] /\ pos'[i] = pos[i]  BY <1>2 DEF ExtractTypeOK
    <2>2. CASE i # s
      <3>1. i < s + 1 => i < s  BY <1>3, <2>2
      <3>2. InBatch(i) => InBatch(i)'
        <4>1. i < s => i < spawned'  BY <1>1, <1>3
        <4> QED  BY <1>5, <2>1, <2>2, <4>1 DEF InBatch
      <3>3. Passed(i)' = Passed(i)  BY <1>5, <2>1, <2>2 DEF Passed
      <3>4. pool' \in {"spawn", "join", "done"} => pool = "spawn"  BY <1>1
      <3> QED  BY <1>1, <1>5, <2>1, <2>2, <3>1, <3>2, <3>3, <3>4 DEF ThreadInv
    <2>3. CASE i = s /\ ~(at'[s] = "off")
      <3>1. /\ at'[s] = "head" /\ pos'[s] = First(Count, s) + 1
            /\ First(Count, s) < Last(Count, s)
        BY <1>2, <1>3, <1>7, <2>3 DEF ExtractTypeOK
      <3>2. InBatch(i)'  BY <1>1, <1>3, <1>5, <2>3, <3>1 DEF InBatch
      <3>3. Passed(i)' = {}  BY <1>3, <1>5, <2>3, <3>1 DEF Passed
      <3> QED  BY <2>3, <3>1, <3>2, <3>3 DEF ThreadInv
    <2>4. CASE i = s /\ at'[s] = "off"
      <3>1. pool' = "died" \/ First(Count, s) >= Last(Count, s)
        BY <1>2, <1>3, <2>4 DEF ExtractTypeOK
      <3> QED  BY <1>5, <2>4, <3>1 DEF ThreadInv
    <2> QED  BY <2>2, <2>3, <2>4
  <1> QED  BY <1>4, <1>6, <1>8

(* A thread leaves its batch, having written it or not.                    *)
LEMMA LeavesKeeps ==
  ASSUME ExtractTypeOK, ExtractInv, NEW i \in Worker, LeavesBatch(i) \/ FailsBatch(i)
  PROVE  ExtractTypeOK' /\ ExtractInv'
  <1> USE DEF ExtractInv
  <1>1. /\ UNCHANGED <<entries, pool, prefix, spawned, pos, disk>>
        /\ Alive /\ at[i] = "head" /\ at' = [at EXCEPT ![i] = "out"]
        /\ \/ pos[i] > Last(Count, i) /\ extractFailed' = extractFailed
           \/ extractFailed' = TRUE
        /\ data' \in BOOLEAN
    BY DEF LeavesBatch, FailsBatch, ExtractTypeOK, MakesData
  <1>2. ExtractTypeOK'  BY <1>1 DEF ExtractTypeOK
  <1>3. \A j \in Worker : at'[j] = IF j = i THEN "out" ELSE at[j]  BY <1>1 DEF ExtractTypeOK
  <1>4. Count' = Count /\ (Apart' <=> Apart) /\ \A k : Target(k)' = Target(k)
    BY <1>1, PlacesStand
  <1>5. Phases'  BY <1>1, <1>4 DEF Phases, Alive
  <1>6. ASSUME NEW j \in Worker PROVE ThreadInv(j)'
    <2>1. CASE j # i  BY <1>1, <1>3, <2>1, ThreadStands DEF ExtractTypeOK
    <2>2. CASE j = i
      <3>1. InBatch(i)' = InBatch(i) /\ Passed(i)' = Passed(i)
        BY <1>1, <1>4 DEF InBatch, Passed
      <3> QED  BY <1>1, <1>3, <1>4, <2>2, <3>1 DEF ThreadInv
    <2> QED  BY <2>1, <2>2
  <1> QED  BY <1>2, <1>5, <1>6

(* A file is opened in a place where nobody has written yet.               *)
LEMMA OpensKeeps ==
  ASSUME ExtractTypeOK, ExtractInv, NEW i \in Worker, OpensFile(i)
  PROVE  ExtractTypeOK' /\ ExtractInv'
  <1> USE DEF ExtractInv
  <1>1. /\ UNCHANGED <<entries, pool, prefix, spawned, pos, extractFailed>>
        /\ Alive /\ at[i] = "head" /\ pos[i] <= Last(Count, i) /\ pos[i] <= Count
        /\ at' = [at EXCEPT ![i] = "writing"] /\ disk' = [disk EXCEPT ![Target(pos[i])] = Cut]
        /\ data' \in BOOLEAN
    BY DEF OpensFile, ExtractTypeOK, MakesData
  <1>2. ExtractTypeOK'  BY <1>1 DEF ExtractTypeOK
  <1>3. \A j \in Worker : at'[j] = IF j = i THEN "writing" ELSE at[j]
    BY <1>1 DEF ExtractTypeOK
  <1>4. Count' = Count /\ (Apart' <=> Apart) /\ \A k : Target(k)' = Target(k)
    BY <1>1, PlacesStand
  <1>5. Phases'  BY <1>1, <1>4 DEF Phases, Alive
  <1>6. ASSUME NEW j \in Worker PROVE ThreadInv(j)'
    <2>1. Apart /\ at[j] # "off" => \A k \in Passed(j) : disk'[Target(k)] = disk[Target(k)]
      BY <1>1, WritesApart
    <2>2. CASE j # i  BY <1>1, <1>3, <2>1, <2>2, ThreadStands DEF ExtractTypeOK
    <2>3. CASE j = i
      <3>1. InBatch(i)' = InBatch(i) /\ Passed(i)' = Passed(i)
        BY <1>1, <1>4 DEF InBatch, Passed
      <3> QED  BY <1>1, <1>3, <1>4, <2>1, <2>3, <3>1 DEF ThreadInv
    <2> QED  BY <2>2, <2>3
  <1> QED  BY <1>2, <1>5, <1>6

(* Where no two entries have one place the file holds what the archive has.*)
LEMMA WritesFileKeeps ==
  ASSUME ExtractTypeOK, ExtractInv, NEW i \in Worker, WritesFile(i)
  PROVE  ExtractTypeOK' /\ ExtractInv'
  <1> USE DEF ExtractInv
  <1>1. /\ UNCHANGED <<entries, pool, prefix, spawned, data>> /\ Alive /\ at[i] = "writing"
        /\ \/ /\ \E c \in {entries[pos[i]].content, disk[Target(pos[i])]} :
                   /\ disk' = [disk EXCEPT ![Target(pos[i])] = c]
                   /\ Apart => c = entries[pos[i]].content
              /\ at' = [at EXCEPT ![i] = "head"] /\ pos' = [pos EXCEPT ![i] = @ + 1]
              /\ extractFailed' = extractFailed
           \/ /\ at' = [at EXCEPT ![i] = "out"] /\ extractFailed' = TRUE
              /\ UNCHANGED <<disk, pos>>
    BY DEF WritesFile
  <1>2. /\ pos[i] <= Last(Count, i) /\ pos[i] <= Count /\ InBatch(i)
        /\ First(Count, i) < pos[i]
    BY <1>1 DEF ThreadInv, InBatch
  <1>3. /\ Count \in Nat \ {0} /\ i \in Nat /\ First(Count, i) \in Nat /\ Last(Count, i) \in Nat
        /\ pos[i] \in 1 .. Count
    BY <1>1, <1>2, PassedAreEntries
  <1>4. Target(pos[i]) \in Place /\ entries[pos[i]].content \in Content \cup {Cut}
    BY <1>3, TargetIsPlace DEF ExtractTypeOK, Entry
  <1>5. ExtractTypeOK'
    <2>1. disk' \in [Place -> Content \cup {Absent, Cut}]  BY <1>1, <1>4 DEF ExtractTypeOK
    <2>2. pos' \in [Worker -> Nat]  BY <1>1, <1>3 DEF ExtractTypeOK
    <2> QED  BY <1>1, <2>1, <2>2 DEF ExtractTypeOK
  <1>6. \A j \in Worker : j # i => at'[j] = at[j] /\ pos'[j] = pos[j]
    BY <1>1 DEF ExtractTypeOK
  <1>7. Count' = Count /\ (Apart' <=> Apart) /\ \A k : Target(k)' = Target(k)
    BY <1>1, PlacesStand
  <1>8. Phases'
    <2>1. at'[i] # "off"  BY <1>1 DEF ExtractTypeOK
    <2> QED  BY <1>1, <1>7 DEF Phases, Alive
  <1>9. ASSUME NEW j \in Worker, Apart, at[j] # "off"
        PROVE  \A k \in Passed(j) : disk'[Target(k)] = disk[Target(k)]
    BY <1>1, <1>2, <1>9, WritesApart
  <1>10. ASSUME NEW j \in Worker PROVE ThreadInv(j)'
    <2>1. CASE j # i  BY <1>1, <1>6, <1>9, <2>1, ThreadStands
    <2>2. CASE j = i /\ extractFailed' = TRUE /\ at' = [at EXCEPT ![i] = "out"]
                     /\ UNCHANGED <<disk, pos>>
      <3>1. InBatch(i)' = InBatch(i) /\ Passed(i)' = Passed(i)
        BY <1>1, <1>7, <2>2 DEF InBatch, Passed
      <3>2. at'[i] = "out"  BY <2>2 DEF ExtractTypeOK
      <3> QED  BY <1>1, <1>7, <2>2, <3>1, <3>2 DEF ThreadInv
    <2>3. ASSUME j = i, NEW c, disk' = [disk EXCEPT ![Target(pos[i])] = c],
                 Apart => c = entries[pos[i]].content,
                 at' = [at EXCEPT ![i] = "head"], pos' = [pos EXCEPT ![i] = @ + 1]
          PROVE  ThreadInv(j)'
      <3>1. at'[i] = "head" /\ pos'[i] = pos[i] + 1  BY <2>3 DEF ExtractTypeOK
      <3>2. InBatch(i)'  BY <1>1, <1>2, <1>3, <1>7, <3>1 DEF InBatch
      <3>3. Passed(i)' = Passed(i) \cup {pos[i]}  BY <1>2, <1>3, <1>7, <3>1 DEF Passed
      <3>4. Apart => disk'[Target(pos[i])] = entries[pos[i]].content
        BY <1>4, <2>3 DEF ExtractTypeOK
      <3>5. Apart => \A k \in Passed(i) : disk'[Target(k)] = entries[k].content
        BY <1>1, <1>9 DEF ThreadInv
      <3> QED  BY <1>1, <1>7, <2>3, <3>1, <3>2, <3>3, <3>4, <3>5 DEF ThreadInv
    <2> QED  BY <1>1, <2>1, <2>2, <2>3
  <1> QED  BY <1>5, <1>8, <1>10

LEMMA JoinsKeeps ==
  ASSUME ExtractTypeOK, ExtractInv, Joins \/ Killed
  PROVE  ExtractTypeOK' /\ ExtractInv'
  <1> USE DEF ExtractInv, Joins, Killed
  <1>1. ExtractTypeOK'  BY DEF ExtractTypeOK
  <1>2. Phases'  BY DEF Phases, Count
  <1>3. \A i \in Worker : ThreadInv(i)'  BY ThreadStands
  <1> QED  BY <1>1, <1>2, <1>3

LEMMA ExtractKeeps ==
  ASSUME ExtractTypeOK, ExtractInv, ExtractStep \/ Killed
  PROVE  ExtractTypeOK' /\ ExtractInv'
  BY ScanKeeps, SpawnKeeps, LeavesKeeps, OpensKeeps, WritesFileKeeps, JoinsKeeps
  DEF ExtractStep, ThreadStep

-----------------------------------------------------------------------------
(* What the release promises.                                              *)

(* The inductive invariant of the tool and of the extraction holds: every  *)
(* page is in one place of the worker and none is lost, every thread of    *)
(* the extraction is in its batch and what it passed is on the disk        *)
(* (UpdateForge.cpp:1620-1743, Archive.cpp:225-293).                       *)
THEOREM Invariant == Spec => []IInv
  <1>1. Init => IInv
    BY ForgeStarts, ExtractStarts DEF Init, IInv, TypeOK
  <1>2. IInv /\ [Next]_vars => IInv'
    <2> SUFFICES ASSUME IInv, [Next]_vars PROVE IInv'
      OBVIOUS
    <2> USE DEF IInv, TypeOK
    <2>1. CASE ForgeStep /\ UNCHANGED <<extraction, goal>>
      <3>1. ForgeTypeOK' /\ ForgeInv'  BY <2>1, ForgeKeeps
      <3>2. ExtractTypeOK' /\ Phases' /\ \A i \in Worker : ThreadInv(i)'
        BY <2>1, ThreadStands DEF extraction, ExtractTypeOK, ExtractInv, Phases, Count
      <3>3. Carries(entries, goal)' <=> Carries(entries, goal)
        BY <2>1 DEF extraction, Carries
      <3> QED  BY <2>1, <3>1, <3>2, <3>3 DEF ExtractInv
    <2>2. CASE (ExtractStep \/ Killed) /\ UNCHANGED <<forge, goal>>
      <3>1. ExtractTypeOK' /\ ExtractInv'  BY <2>2, ExtractKeeps
      <3>2. ForgeTypeOK'  BY <2>2 DEF forge, work, output, pack, ForgeTypeOK
      <3>3. /\ LatestNewest' /\ OnePlace' /\ NoneLost' /\ ReadRight' /\ Packing'
        BY <2>2, WorkKept, PackKept DEF forge, ForgeInv, work, output, pack, Counted
      <3>4. Stages'  BY <2>2 DEF forge, work, output, ForgeInv, Stages
      <3>5. entries' = entries
        BY <2>2 DEF ExtractStep, ScanArchive, Spawn, Joins, Killed, ThreadStep, LeavesBatch,
                    FailsBatch, OpensFile, WritesFile
      <3>6. Carries(entries, goal)' <=> Carries(entries, goal)  BY <2>2, <3>5 DEF Carries
      <3> QED  BY <2>2, <3>1, <3>2, <3>3, <3>4, <3>6 DEF ForgeInv
    <2>3. CASE Installs
      <3>1. packed \in Seq(Entry)  BY DEF ForgeTypeOK, Entry
      <3>2. Extract7z(packed)  BY <2>3 DEF Installs
      <3>3. ExtractTypeOK' /\ ExtractInv'  BY <3>1, <3>2, BeginsKeeps
      <3>4. acts' \in 0 .. MaxActs  BY <2>3, BoundsOK DEF Installs, Acts, ForgeTypeOK
      <3>5. /\ UNCHANGED <<tree, app, stage, work, output, pack, touched>>
            /\ goal' = origin /\ packed # <<>> /\ entries' = packed
        BY <2>3 DEF Installs, Extract7z
      <3>6. ForgeTypeOK' /\ goal' \in Origin \cup {None}
        BY <3>4, <3>5 DEF ForgeTypeOK, work, output, pack
      <3>7. LatestNewest' /\ OnePlace' /\ NoneLost' /\ ReadRight' /\ Packing'
        BY <3>5, WorkKept, PackKept DEF ForgeInv, work, output, pack, Counted
      <3>8. Stages'  BY <3>5 DEF work, output, ForgeInv, Stages
      <3>9. goal' # None => Carries(entries', goal')  BY <3>5 DEF ForgeInv, Packing
      <3>10. Carries(entries', goal') = Carries(entries, goal)'  BY DEF Carries
      <3> QED  BY <3>3, <3>6, <3>7, <3>8, <3>9, <3>10 DEF ForgeInv
    <2>4. CASE InstallsAgain
      <3>1. Extract7z(entries) /\ UNCHANGED <<forge, goal>>  BY <2>4 DEF InstallsAgain
      <3>2. entries \in Seq(Entry)  BY DEF ExtractTypeOK, Entry
      <3>3. ExtractTypeOK' /\ ExtractInv'  BY <3>1, <3>2, BeginsKeeps
      <3>4. ForgeTypeOK'  BY <3>1 DEF forge, work, output, pack, ForgeTypeOK
      <3>5. LatestNewest' /\ OnePlace' /\ NoneLost' /\ ReadRight' /\ Packing'
        BY <3>1, WorkKept, PackKept DEF forge, ForgeInv, work, output, pack, Counted
      <3>6. Stages'  BY <3>1 DEF forge, work, output, ForgeInv, Stages
      <3>7. Carries(entries, goal)' <=> Carries(entries, goal)
        BY <3>1 DEF Carries, Extract7z
      <3> QED  BY <3>1, <3>3, <3>4, <3>5, <3>6, <3>7 DEF ForgeInv
    <2>5. CASE UNCHANGED vars
      <3>1. UNCHANGED <<forge, extraction, goal>>  BY <2>5 DEF vars
      <3>2. ForgeTypeOK' /\ ExtractTypeOK'
        BY <3>1 DEF forge, work, output, pack, extraction, ForgeTypeOK, ExtractTypeOK
      <3>3. LatestNewest' /\ OnePlace' /\ NoneLost' /\ ReadRight' /\ Packing'
        BY <3>1, WorkKept, PackKept DEF forge, ForgeInv, work, output, pack, Counted
      <3>4. Stages'  BY <3>1 DEF forge, work, output, ForgeInv, Stages
      <3>5. Phases' /\ \A i \in Worker : ThreadInv(i)'
        BY <3>1, ThreadStands DEF extraction, ExtractInv, Phases, Count
      <3>6. Carries(entries, goal)' <=> Carries(entries, goal)
        BY <3>1 DEF extraction, Carries
      <3> QED  BY <3>1, <3>2, <3>3, <3>4, <3>5, <3>6 DEF ForgeInv, ExtractInv
    <2> QED  BY <2>1, <2>2, <2>3, <2>4, <2>5 DEF Next
  <1> QED  BY <1>1, <1>2, PTL DEF Spec

(* A manifest reported as generated has the newest version of every page   *)
(* once, with its size and hash, whatever the threads of the pool read at  *)
(* one time and in which order they end (UpdateForge.cpp:1569-1743).       *)
THEOREM ManifestIsExact == Spec => []ManifestExact
  <1>1. IInv => ManifestExact
    <2> SUFFICES ASSUME IInv, report = "success", ~faulty
                 PROVE  /\ datMd5 = dat
                        /\ \A p \in Page \ (touched \cup omitted) :
                             /\ \A r \in dat : r.page = p => Describes(r)
                             /\ (\E f \in Folder : Newest(f, p)) =>
                                  \E r \in dat : r.page = p /\ \A o \in dat : o.page = p => o = r
      BY DEF ManifestExact
    <2> USE DEF IInv, ForgeInv
    <2>1. datMd5 = dat /\ dat = results  BY DEF Stages
    <2>2. stage # "hash"  BY DEF Stages
    <2>3. todo = {} /\ \A t \in Thread : job[t] = None  BY <2>2 DEF Stages
    <2> SUFFICES ASSUME NEW p \in Sound
                 PROVE  /\ \A r \in results : r.page = p => Describes(r)
                        /\ (\E f \in Folder : Newest(f, p)) =>
                             \E r \in results : r.page = p
                                                /\ \A o \in results : o.page = p => o = r
      BY <2>1 DEF Sound
    <2>4. IF latest[p] = None THEN \A f \in Folder : ~Newest(f, p) ELSE Newest(latest[p], p)
      BY DEF LatestNewest, Counted
    <2>5. ASSUME NEW r \in results, r.page = p PROVE Describes(r)
      <3>1. r.folder \in Folder  BY DEF TypeOK, ForgeTypeOK, Manifest, Result
      <3>2. /\ r.folder = latest[p] /\ r.md5 = tree[r.folder][p]
            /\ r.size = Size[tree[r.folder][p]]
        BY <2>5 DEF ReadRight
      <3> QED  BY <2>4, <2>5, <3>1, <3>2, VersionsOK DEF Describes
    <2>6. ASSUME NEW f \in Folder, Newest(f, p)
          PROVE  \E r \in results : r.page = p /\ \A o \in results : o.page = p => o = r
      <3>1. latest[p] # None /\ p \in Page \ omitted  BY <2>4, <2>6 DEF Sound
      <3>2. p \in todo \/ (\E t \in Thread : job[t] = p) \/ \E r \in results : r.page = p
        BY <3>1 DEF NoneLost, Counted
      <3>3. PICK r \in results : r.page = p  BY <2>3, <3>1, <3>2, SizesOK
      <3>4. \A o \in results : o.page = p => o = r  BY <3>3 DEF OnePlace
      <3> QED  BY <3>3, <3>4
    <2> QED  BY <2>5, <2>6
  <1> QED  BY <1>1, Invariant, PTL

(* An extraction that reports success has put every file of the archive's  *)
(* origin in its place, however its entries were divided among however     *)
(* many threads (Archive.cpp:225-293, 353-467).                            *)
THEOREM PackIsInstalled == Spec => []PackInstalls
  <1>1. IInv => PackInstalls
    <2> SUFFICES ASSUME IInv, pool = "done", Apart, goal # None,
                        NEW p \in Page, goal.new[p] \notin {Absent, goal.base[p]}
                 PROVE  \E k \in DOMAIN entries :
                          entries[k].path = p /\ disk[Target(k)] = goal.new[p]
      BY DEF PackInstalls
    <2> USE DEF IInv, TypeOK
    <2>1. PICK k \in DOMAIN entries : entries[k] = [path |-> p, content |-> goal.new[p]]
      BY DEF Carries
    <2>2. Count \in Nat \ {0} /\ k \in 1 .. Count
      BY <2>1, EmptySeq DEF ExtractInv, Phases, ExtractTypeOK, Count
    <2>3. PICK i \in Worker : i < Threads(Count) /\ First(Count, i) < k /\ k <= Last(Count, i)
      BY <2>2, Batches
    <2>4. /\ spawned = Threads(Count) /\ ~extractFailed /\ at[i] \in {"off", "out"}
          /\ ThreadInv(i)
      BY DEF ExtractInv, Phases
    <2>5. i \in Nat /\ First(Count, i) \in Nat /\ Last(Count, i) \in Nat /\ pos[i] \in Nat
      <3>1. i \in Nat  BY HwOK DEF Worker
      <3> QED  BY <2>2, <3>1, Batches DEF ExtractTypeOK
    <2>6. at[i] = "out"
      <3>1. ~(First(Count, i) >= Last(Count, i))  BY <2>2, <2>3, <2>5
      <3> QED  BY <2>3, <2>4, <3>1 DEF ThreadInv
    <2>7. pos[i] > Last(Count, i)  BY <2>4, <2>6 DEF ThreadInv
    <2>8. k \in Passed(i)  BY <2>2, <2>3, <2>5, <2>7 DEF Passed
    <2>9. disk[Target(k)] = entries[k].content  BY <2>4, <2>6, <2>8 DEF ThreadInv
    <2> QED  BY <2>1, <2>9
  <1> QED  BY <1>1, Invariant, PTL
-----------------------------------------------------------------------------
(* No batch ends behind the last entry.                                    *)

(* With enough entries every batch ends where the archive ends, at the     *)
(* latest: rounding up costs each thread but the last less than an entry.  *)
LEMMA BatchFits ==
  ASSUME NEW n \in Nat \ {0}, Hw = 0 \/ n >= (Hw - 1) * (Hw - 1),
         NEW i \in Nat, i < Threads(n)
  PROVE  Last(n, i) <= n
  <1> DEFINE T == Threads(n)
             c == PerThread(n)
  <1>1. T \in Nat \ {0} /\ c \in Nat  BY Batches
  <1>2. CASE i = T - 1  BY <1>1, <1>2 DEF Last
  <1>3. CASE i # T - 1
    <2>1. T - 1 \in Nat /\ i + 1 \in Nat /\ i + 1 <= T - 1 /\ Last(n, i) = (i + 1) * c
      BY <1>1, <1>3 DEF Last
    <2>2. n + T - 1 \in Nat /\ c * T <= n + T - 1
      BY <1>1, Quotient DEF PerThread
    <2>3. (T - 1) * (T - 1) <= n
      <3>1. T = 1 \/ (Hw \in Nat /\ Hw # 0 /\ T <= Hw)  BY HwOK DEF Threads
      <3>2. CASE T = 1  BY <3>2
      <3>3. CASE Hw # 0 /\ T <= Hw
        <4> DEFINE a == T - 1
                   b == Hw - 1
        <4>1. a \in Nat /\ b \in Nat /\ a <= b  BY <1>1, <3>3, HwOK
        <4> HIDE DEF a, b
        <4>2. a * a <= b * a /\ a * b <= b * b  BY <4>1, Times2
        <4>3. a * b = b * a /\ a * a \in Nat /\ b * b \in Nat /\ a * b \in Nat  BY <4>1
        <4>4. b * b <= n  BY <3>3 DEF b
        <4>5. a * a <= n  BY <4>2, <4>3, <4>4
        <4> QED  BY <4>5 DEF a
      <3> QED  BY <3>1, <3>2, <3>3
    <2> HIDE DEF T, c
    <2>4. (i + 1) * c <= (T - 1) * c  BY <1>1, <2>1, Times2
    <2>5. (T - 1) * c <= n
      <3> DEFINE m == T - 1
                 x == m * c
      <3>1. m \in Nat /\ T = m + 1 /\ x \in Nat  BY <1>1, <2>1
      <3>2. (c * T) * m <= (n + m) * m  BY <1>1, <2>2, <3>1, Times2
      <3> HIDE DEF m
      <3>3. (c * T) * m = x * (m + 1)  BY <1>1, <3>1
      <3>4. (n + m) * m = n * m + m * m  BY <3>1
      <3>5. m * m <= n  BY <2>3 DEF m
      <3>6. n * m + n = n * (m + 1)  BY <3>1
      <3>7. n * m \in Nat /\ m * m \in Nat /\ n * (m + 1) \in Nat /\ x * (m + 1) \in Nat
        BY <3>1
      <3>8. x * (m + 1) <= n * (m + 1)  BY <3>2, <3>3, <3>4, <3>5, <3>6, <3>7
      <3>9. ASSUME n < x PROVE FALSE
        <4>1. n + 1 \in Nat /\ n + 1 <= x  BY <3>1, <3>9
        <4>2. (n + 1) * (m + 1) <= x * (m + 1)  BY <3>1, <4>1, Times2
        <4>3. (n + 1) * (m + 1) = n * (m + 1) + (m + 1)  BY <3>1
        <4> QED  BY <3>1, <3>7, <3>8, <4>2, <4>3
      <3> QED  BY <3>1, <3>9 DEF m
    <2>6. (i + 1) * c \in Nat /\ (T - 1) * c \in Nat  BY <1>1, <2>1
    <2> QED  BY <2>1, <2>4, <2>5, <2>6
  <1> QED  BY <1>2, <1>3

(* A base package with as many files as the square of the threads less one *)
(* is divided without a batch that ends behind its last file: only a kill  *)
(* ends the launcher then (Archive.cpp:244-255).                           *)
THEOREM BatchesStayInside == Spec => BatchesInside
  <1>1. IInv /\ [Next]_vars =>
          [ManyEntries /\ pool = "spawn" /\ spawned' # spawned => pool' # "died"]_vars
    <2> SUFFICES ASSUME IInv, Next, ManyEntries, pool = "spawn", spawned' # spawned
                 PROVE  pool' # "died"
      OBVIOUS
    <2> USE DEF IInv, TypeOK
    <2>1. CASE Spawn
      <3>1. Count \in Nat \ {0} /\ spawned \in Nat /\ spawned < Threads(Count)
        BY <2>1, EmptySeq DEF Spawn, ExtractInv, Phases, ExtractTypeOK, Count
      <3>2. Last(Count, spawned) <= Count  BY <3>1, BatchFits DEF ManyEntries
      <3>3. Last(Count, spawned) \in Nat  BY <3>1, Batches
      <3>4. ~(Last(Count, spawned) > Count)  BY <3>1, <3>2, <3>3
      <3> QED  BY <2>1, <3>4 DEF Spawn
    <2>2. CASE ~Spawn
      BY <2>2 DEF Next, ForgeStep, ExtractStep, ScanArchive, Joins, ThreadStep, LeavesBatch,
         FailsBatch, OpensFile, WritesFile, Killed, Installs, InstallsAgain, Extract7z, extraction
    <2> QED  BY <2>1, <2>2
  <1> QED  BY <1>1, Invariant, PTL DEF Spec, BatchesInside
-----------------------------------------------------------------------------
(* Neither a run of the tool nor an extraction goes on for ever.           *)

(* Each step of the worker leaves less to do.                              *)
LEMMA WorkerAdvances ==
  ASSUME ForgeTypeOK, ForgeInv, WorkerStep
  PROVE  app' # "busy" \/ ForgeAdvances
  <1> USE DEF ForgeAdvances
  <1>1. CASE Enumerate  BY <1>1 DEF Enumerate, StageLeft
  <1>2. ASSUME NEW t \in Thread, Takes(t) PROVE ForgeAdvances  BY <1>2 DEF Takes
  <1>3. ASSUME NEW t \in Thread, Hashes(t) PROVE ForgeAdvances
    <2>1. /\ stage' = stage /\ todo' = todo /\ t \in Hashing
          /\ \A u \in Thread : job'[u] = IF u = t THEN None ELSE job[u]
      BY <1>3 DEF Hashes, Hashing, ForgeTypeOK
    <2>2. Hashing' = Hashing \ {t}  BY <2>1 DEF Hashing
    <2> QED  BY <2>1, <2>2
  <1>4. CASE JoinsPool  BY <1>4 DEF JoinsPool, StageLeft
  <1>5. CASE OpensDat  BY <1>5 DEF OpensDat, StageLeft
  <1>6. CASE WritesDat \/ WritesMd5  BY <1>6 DEF WritesDat, WritesMd5, StageLeft
  <1>7. CASE OnWorkerFinished  BY <1>7 DEF OnWorkerFinished
  <1> QED  BY <1>1, <1>2, <1>3, <1>4, <1>5, <1>6, <1>7 DEF WorkerStep

(* Whoever acts while the tool runs, less is left or nothing has changed.  *)
LEMMA ForgeGoesOn ==
  ASSUME IInv, Next, app = "busy"
  PROVE  \/ app' # "busy" \/ ForgeAdvances
         \/ ~WorkerStep /\ UNCHANGED <<stage, todo, job>>
  <1> USE DEF IInv, TypeOK
  <1>1. CASE WorkerStep  BY <1>1, WorkerAdvances
  <1>2. CASE ~WorkerStep
    <2>1. CASE ForgeStep
      <3>1. CASE OnGenerate \/ Closes \/ DiffDialogRunPack \/ CreateChangedFilesArchive7z
        BY <3>1 DEF OnGenerate, Closes, DiffDialogRunPack, OnOpenDiffPackDialog,
           CreateChangedFilesArchive7z
      <3>2. CASE Edits  BY <1>2, <3>2 DEF Edits, work
      <3> QED  BY <1>2, <2>1, <3>1, <3>2 DEF ForgeStep
    <2>2. CASE UNCHANGED forge  BY <1>2, <2>2 DEF forge, work
    <2>3. CASE Installs  BY <1>2, <2>3 DEF Installs, work
    <2> QED  BY <2>1, <2>2, <2>3 DEF Next, InstallsAgain
  <1> QED  BY <1>1, <1>2

(* Whoever acts while the launcher extracts, it is further on, or nothing  *)
(* of the extraction has changed.                                          *)
LEMMA ExtractGoesOn ==
  ASSUME IInv, Next, Alive
  PROVE  \/ ~Alive'
         \/ ExtractAdvances /\ UNCHANGED entries
         \/ ~ExtractStep /\ UNCHANGED <<entries, pool, spawned, at, pos>>
  <1> USE DEF IInv, TypeOK
  <1>1. CASE Spawn
    <2>1. /\ spawned' = spawned + 1 /\ spawned < Threads(Count) /\ pool' \in {pool, "died"}
          /\ UNCHANGED entries
      BY <1>1 DEF Spawn
    <2>2. Count \in Nat \ {0}
      BY EmptySeq DEF Alive, ExtractInv, Phases, ExtractTypeOK, Count
    <2>3. Threads(Count) \in Nat /\ spawned \in Nat  BY <2>2, Batches DEF ExtractTypeOK
    <2>4. spawned' <= Threads(Count)  BY <2>1, <2>3
    <2> QED  BY <2>1, <2>4 DEF ExtractAdvances, Alive
  <1>2. CASE Joins  BY <1>2 DEF Joins, ExtractAdvances, Alive
  <1>3. ASSUME NEW i \in Worker, ThreadStep(i) PROVE ExtractAdvances /\ UNCHANGED entries
    <2>1. /\ UNCHANGED <<entries, pool, spawned>>
          /\ \A j \in Worker \ {i} : at'[j] = at[j] /\ pos'[j] = pos[j]
      BY <1>3 DEF ThreadStep, LeavesBatch, FailsBatch, OpensFile, WritesFile, ExtractTypeOK
    <2>2. Onward(i)
      <3>1. CASE LeavesBatch(i) \/ FailsBatch(i)
        BY <3>1 DEF LeavesBatch, FailsBatch, Onward, ExtractTypeOK
      <3>2. CASE OpensFile(i)  BY <3>2 DEF OpensFile, Onward, ExtractTypeOK
      <3>3. CASE WritesFile(i)
        <4>1. at[i] = "writing" /\ pos[i] <= Count
          BY <3>3 DEF WritesFile, ExtractInv, ThreadInv
        <4>2. \/ at' = [at EXCEPT ![i] = "head"] /\ pos' = [pos EXCEPT ![i] = @ + 1]
              \/ at' = [at EXCEPT ![i] = "out"] /\ pos' = pos
          BY <3>3 DEF WritesFile
        <4> QED  BY <4>1, <4>2 DEF Onward, ExtractTypeOK
      <3> QED  BY <1>3, <3>1, <3>2, <3>3 DEF ThreadStep
    <2> QED  BY <2>1, <2>2 DEF ExtractAdvances
  <1>4. CASE Killed  BY <1>4 DEF Killed, Alive
  <1>5. CASE UNCHANGED extraction
    <2>1. ~ExtractStep
      <3>1. ~ScanArchive  BY DEF ScanArchive, Alive
      <3>2. ~Spawn  BY <1>5 DEF Spawn, extraction, ExtractTypeOK
      <3>3. ~Joins  BY <1>5 DEF Joins, extraction
      <3>4. ASSUME NEW i \in Worker PROVE ~ThreadStep(i)
        BY <1>5 DEF ThreadStep, LeavesBatch, FailsBatch, OpensFile, WritesFile, extraction,
           ExtractTypeOK
      <3> QED  BY <3>1, <3>2, <3>3, <3>4 DEF ExtractStep
    <2> QED  BY <1>5, <2>1 DEF extraction
  <1>6. ~ScanArchive /\ ~Installs /\ ~InstallsAgain
    BY DEF ScanArchive, Installs, InstallsAgain, Extract7z, Alive
  <1> QED  BY <1>1, <1>2, <1>3, <1>4, <1>5, <1>6 DEF Next, ExtractStep

(* What is left of a run of the tool, and of an extraction, only shrinks,  *)
(* whichever of their threads fails and whatever the developer and the     *)
(* player do meanwhile (UpdateForge.cpp:1634-1743, Archive.cpp:247-293).   *)
THEOREM WorkRunsOut == Spec => WorkAdvances
  <1>1. IInv /\ [Next]_vars =>
          [/\ app = "busy" =>
                \/ app' # "busy" \/ ForgeAdvances
                \/ ~WorkerStep /\ UNCHANGED <<stage, todo, job>>
           /\ Alive =>
                \/ ~Alive'
                \/ ExtractAdvances /\ UNCHANGED entries
                \/ ~ExtractStep /\ UNCHANGED <<entries, pool, spawned, at, pos>>]_vars
    BY ForgeGoesOn, ExtractGoesOn
  <1> QED  BY <1>1, Invariant, PTL DEF Spec, WorkAdvances

-----------------------------------------------------------------------------
(* Where no two files of an archive have one place.                        *)

(* Two paths under one directory that have the same rest are the same.     *)
LEMMA RestsDiffer ==
  ASSUME NEW p \in Seq(STRING), NEW q \in Seq(STRING), NEW c \in Seq(STRING),
         Len(c) < Len(p), Agree(c, p, Len(c)), Len(c) < Len(q), Agree(c, q, Len(c)),
         SubSeq(p, Len(c) + 1, Len(p)) = SubSeq(q, Len(c) + 1, Len(q))
  PROVE  p = q
  <1> DEFINE n == Len(c)
  <1>1. n \in Nat /\ Len(p) \in Nat /\ Len(q) \in Nat  BY LenProperties
  <1>2. /\ Len(SubSeq(p, n + 1, Len(p))) = Len(p) - n
        /\ \A i \in 1 .. Len(p) - n : SubSeq(p, n + 1, Len(p))[i] = p[n + i]
    BY <1>1, SubSeqProperties
  <1>3. /\ Len(SubSeq(q, n + 1, Len(q))) = Len(q) - n
        /\ \A i \in 1 .. Len(q) - n : SubSeq(q, n + 1, Len(q))[i] = q[n + i]
    BY <1>1, SubSeqProperties
  <1>4. Len(p) = Len(q)  BY <1>1, <1>2, <1>3
  <1>5. ASSUME NEW i \in 1 .. Len(p) PROVE p[i] = q[i]
    <2>1. CASE i <= n  BY <1>1, <2>1 DEF Agree
    <2>2. CASE i > n
      <3>1. i - n \in 1 .. Len(p) - n /\ n + (i - n) = i  BY <1>1, <2>2
      <3> QED  BY <1>2, <1>3, <1>4, <3>1
    <2> QED  BY <1>1, <2>1, <2>2
  <1> QED  BY <1>4, <1>5, SeqEqual

(* Files with different paths under the directory that is cut off do not   *)
(* meet.                                                                   *)
LEMMA UnderMeansApart ==
  ASSUME entries \in Seq(Entry), prefix \in Seq(STRING), OneName(entries), Under
  PROVE  Apart
  <1> SUFFICES ASSUME NEW j \in DOMAIN entries, NEW k \in DOMAIN entries, Target(j) = Target(k)
               PROVE  j = k
    BY DEF Apart
  <1> DEFINE p == entries[j].path
             q == entries[k].path
  <1>1. DOMAIN entries = 1 .. Count /\ entries[j] \in Entry /\ entries[k] \in Entry
    BY LenProperties DEF Count
  <1>2. p \in Seq(STRING) /\ q \in Seq(STRING)  BY <1>1, PathHasNames DEF Entry
  <1>3. /\ Len(prefix) < Len(p) /\ Agree(prefix, p, Len(prefix))
        /\ Len(prefix) < Len(q) /\ Agree(prefix, q, Len(prefix))
    BY <1>1 DEF Under
  <1>4. FirstKept(p, prefix) = Len(prefix) + 1 /\ FirstKept(q, prefix) = Len(prefix) + 1
    BY <1>3 DEF FirstKept
  <1>5. p = q  BY <1>2, <1>3, <1>4, RestsDiffer DEF Target
  <1> QED  BY <1>5 DEF OneName

(* The tool packs every changed file once.                                 *)
LEMMA PackedOnce ==
  ASSUME ForgeTypeOK, ForgeInv, CreateChangedFilesArchive7z
  PROVE  OneName(packed)'
  <1> DEFINE s == InOrder(changed)
             n == Cardinality(changed)
  <1>1. source \in Folder /\ changed \in SUBSET Page
    BY DEF CreateChangedFilesArchive7z, ForgeInv, Packing, ForgeTypeOK
  <1>2. \A j, k \in 1 .. n : s[j] = s[k] => j = k  BY <1>1, OrderedOnce
  <1>3. DOMAIN s = 1 .. n  BY DEF InOrder
  <1>4. CASE packed' = <<>>  BY <1>4 DEF OneName
  <1>5. CASE packed' # <<>>
    <2>1. PICK short \in SUBSET changed :
            packed' = [k \in DOMAIN s |->
                         [path |-> s[k],
                          content |-> IF s[k] \in short THEN Cut ELSE tree[source][s[k]]]]
      BY <1>5 DEF CreateChangedFilesArchive7z
    <2>2. DOMAIN packed' = 1 .. n /\ \A k \in 1 .. n : packed'[k].path = s[k]
      BY <1>3, <2>1
    <2> QED  BY <1>2, <2>2 DEF OneName
  <1> QED  BY <1>4, <1>5

(* A release installs without two files in one place wherever its files    *)
(* are all under the directory that the launcher cuts off: an extraction   *)
(* of it that succeeds is complete (Archive.cpp:118-131, 353-467,          *)
(* UpdateForge.cpp:583-800).                                               *)
THEOREM FilesApart == Spec => []UnderApart
  <1> DEFINE Names == OneName(packed) /\ OneName(entries)
  <1>1. Init => Names  BY DEF Init, ForgeInit, ExtractInit, OneName
  <1>2. IInv /\ Names /\ [Next]_vars => Names'
    <2> SUFFICES ASSUME IInv, Names, [Next]_vars PROVE Names'
      OBVIOUS
    <2> USE DEF IInv, TypeOK
    <2>1. OneName(packed)'
      <3>1. CASE CreateChangedFilesArchive7z  BY <3>1, PackedOnce
      <3>2. CASE packed' = packed \/ packed' = <<>>  BY <3>2 DEF OneName
      <3>3. CASE ForgeStep
        BY <3>1, <3>2, <3>3 DEF ForgeStep, OnGenerate, WorkerStep, Enumerate, Takes, Hashes,
           JoinsPool, OpensDat, WritesDat, WritesMd5, OnWorkerFinished, DiffDialogRunPack,
           Edits, Closes, pack
      <3>4. CASE ~ForgeStep
        BY <3>2, <3>4 DEF Next, Installs, InstallsAgain, forge, pack, vars
      <3> QED  BY <3>3, <3>4
    <2>2. OneName(entries)'
      <3>1. CASE entries' \in {entries, packed}  BY <3>1 DEF OneName
      <3>2. CASE ~(entries' \in {entries, packed})
        BY <3>2 DEF Next, ExtractStep, ScanArchive, Spawn, Joins, ThreadStep, LeavesBatch,
           FailsBatch, OpensFile, WritesFile, Killed, Installs, InstallsAgain, Extract7z,
           extraction, vars
      <3> QED  BY <3>1, <3>2
    <2> QED  BY <2>1, <2>2
  <1>3. IInv /\ Names => UnderApart
    BY UnderMeansApart DEF IInv, TypeOK, ExtractTypeOK, Entry, UnderApart
  <1> QED  BY <1>1, <1>2, <1>3, Invariant, PTL DEF Spec
=============================================================================
