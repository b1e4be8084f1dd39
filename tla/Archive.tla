-------------------------------- MODULE Archive --------------------------------
(***************************************************************************)
(* Extract7z: the base package's entries are divided among threads, each   *)
(* of which reads the archive for itself and writes its files.  When an    *)
(* archive has an .exe, the directory common to all of them is cut off     *)
(* every path.  A path is a sequence of names.                             *)
(***************************************************************************)
EXTENDS Files

CONSTANTS
  Exe,  \* names that end in .exe
  Hw    \* hardware_concurrency

ASSUME HwOK == Hw \in Nat

\* Where a page, with or without its first directories, may be written.
Place == UNION {{SubSeq(p, i, Len(p)) : i \in 1 .. Len(p)} : p \in Page}

VARIABLES
  entries,  \* the archive: a sequence of paths with contents
  pool,     \* Extract7z: "idle", "scan", "spawn", "join", "done", "failed", "died"
  prefix,   \* m_versionState.extractRootPrefix
  spawned,  \* threads started, or skipped, so far
  at,       \* where each thread is: "off", "head", "writing", "out"
  pos,      \* the entry each thread is at or has to find next
  extractFailed,
  disk,     \* the install directory
  data      \* does ./Data exist

extraction == <<entries, pool, prefix, spawned, at, pos, extractFailed, disk, data>>

-----------------------------------------------------------------------------
(* ScanArchive's prefix and the place of a file.                           *)

Parent(p) == SubSeq(p, 1, Len(p) - 1)
Agree(p, q, n) == n <= Len(p) /\ n <= Len(q) /\ \A i \in 1 .. n : p[i] = q[i]

ExeParents(a) == {Parent(a[k].path) : k \in {j \in DOMAIN a : a[j].path[Len(a[j].path)] \in Exe}}

\* DetermineExeRootPrefix: an .exe at the root, or none at all, and nothing is cut off.
ExtractRootPrefix(a) ==
  IF ExeParents(a) = {} THEN <<>>
  ELSE LET p == CHOOSE q \in ExeParents(a) : TRUE
           depth == Cardinality({n \in 1 .. Len(p) : \A q \in ExeParents(a) : Agree(p, q, n)})
       IN SubSeq(p, 1, depth)

\* StripArchivePrefix: the first name that stays; a path that is the prefix keeps its last.
FirstKept(p, c) ==
  IF ~Agree(c, p, Len(c)) THEN 1 ELSE IF Len(c) < Len(p) THEN Len(c) + 1 ELSE Len(p)

Target(k) == LET p == entries[k].path
             IN SubSeq(p, FirstKept(p, prefix), Len(p))

\* No two entries have one place.
Apart == \A j, k \in DOMAIN entries : Target(j) = Target(k) => j = k

-----------------------------------------------------------------------------
(* The partition.                                                          *)

Threads(n)   == LET t == IF Hw = 0 THEN 1 ELSE Hw IN IF t <= n THEN t ELSE n
PerThread(n) == (n + Threads(n) - 1) \div Threads(n)
First(n, i)  == i * PerThread(n)

\* Variant with a bug: the quotient is rounded down and the rest forgotten.
LastRoundedDown(n, i) == (i + 1) * (n \div Threads(n))

Last(n, i)   == IF i = Threads(n) - 1 THEN n ELSE (i + 1) * PerThread(n)

Worker == 0 .. (IF Hw = 0 THEN 0 ELSE Hw - 1)

-----------------------------------------------------------------------------
ExtractTypeOK ==
  /\ entries \in Seq([path : Page, content : Content \cup {Cut}])
  /\ pool \in {"idle", "scan", "spawn", "join", "done", "failed", "died"}
  /\ prefix \in Seq(STRING)
  /\ spawned \in Nat
  /\ at \in [Worker -> {"off", "head", "writing", "out"}]
  /\ pos \in [Worker -> Nat]
  /\ extractFailed \in BOOLEAN
  /\ disk \in [Place -> Content \cup {Absent, Cut}]
  /\ data \in BOOLEAN

Count == Len(entries)

ExtractInit ==
  /\ entries = <<>> /\ pool = "idle" /\ prefix = <<>> /\ spawned = 0 /\ extractFailed = FALSE
  /\ at = [i \in Worker |-> "off"] /\ pos = [i \in Worker |-> 0]
  /\ disk = [q \in Place |-> Absent] /\ data = FALSE

\* EnsureBasePackageReady finds no ./Data, DownloadBasePackage has archive a.
Extract7z(a) ==
  /\ pool \in {"idle", "done", "failed", "died"} /\ ~data
  /\ entries' = a /\ pool' = "scan" /\ spawned' = 0 /\ extractFailed' = FALSE
  /\ at' = [i \in Worker |-> "off"] /\ pos' = [i \in Worker |-> 0]
  /\ UNCHANGED <<prefix, disk, data>>

\* An archive that cannot be opened, or has no files.
ScanArchive ==
  /\ pool = "scan"
  /\ \/ pool' = "failed"
     \/ entries # <<>> /\ pool' = "spawn"
  /\ prefix' = IF pool' = "spawn" THEN ExtractRootPrefix(entries) ELSE <<>>
  /\ UNCHANGED <<entries, spawned, at, pos, extractFailed, disk, data>>

\* The batch of the next thread is copied, perhaps past the end of the entries: that ends
\* the launcher, or adds entries that no archive has.
Spawn ==
  /\ pool = "spawn" /\ spawned < Threads(Count)
  /\ LET i == spawned
     IN IF First(Count, i) >= Last(Count, i)
        THEN UNCHANGED <<pool, at, pos>>
        ELSE \/ /\ at' = [at EXCEPT ![i] = "head"]
                /\ pos' = [pos EXCEPT ![i] = First(Count, i) + 1]
                /\ UNCHANGED pool
             \/ /\ Last(Count, i) > Count /\ pool' = "died"
                /\ UNCHANGED <<at, pos>>
  /\ spawned' = spawned + 1
  /\ UNCHANGED <<entries, prefix, extractFailed, disk, data>>

\* Alive: the process, and so its threads.
Alive == pool \in {"spawn", "join"}

\* ExtractFiles has written its batch.
LeavesBatch(i) ==
  /\ Alive /\ at[i] = "head" /\ pos[i] > Last(Count, i)
  /\ at' = [at EXCEPT ![i] = "out"]
  /\ UNCHANGED <<entries, pool, prefix, spawned, pos, extractFailed, disk, data>>

\* create_directories comes before the file is opened.
MakesData(i) == data \/ (pos[i] <= Count /\ Target(pos[i])[1] = "Data")

\* An entry that is not there, an unsafe path, a directory or a file that cannot be made,
\* or the archive cannot be opened a second time.
FailsBatch(i) ==
  /\ Alive /\ at[i] = "head" /\ pos[i] <= Last(Count, i)
  /\ at' = [at EXCEPT ![i] = "out"] /\ extractFailed' = TRUE
  /\ data' \in {data, MakesData(i)}
  /\ UNCHANGED <<entries, pool, prefix, spawned, pos, disk>>

\* The entry is found, as every thread goes through the archive in its order; the file
\* is opened and truncated.
OpensFile(i) ==
  /\ Alive /\ at[i] = "head" /\ pos[i] <= Last(Count, i) /\ pos[i] <= Count
  /\ at' = [at EXCEPT ![i] = "writing"]
  /\ disk' = [disk EXCEPT ![Target(pos[i])] = Cut] /\ data' = MakesData(i)
  /\ UNCHANGED <<entries, pool, prefix, spawned, pos, extractFailed>>

\* All its data blocks, or what a failure leaves; another thread may write the same file.
WritesFile(i) ==
  /\ Alive /\ at[i] = "writing"
  /\ \/ /\ disk' \in {[disk EXCEPT ![Target(pos[i])] = c] :
                        c \in {entries[pos[i]].content}
                              \cup IF Apart THEN {} ELSE {disk[Target(pos[i])]}}
        /\ at' = [at EXCEPT ![i] = "head"] /\ pos' = [pos EXCEPT ![i] = @ + 1]
        /\ UNCHANGED extractFailed
     \/ /\ at' = [at EXCEPT ![i] = "out"] /\ extractFailed' = TRUE
        /\ UNCHANGED <<disk, pos>>
  /\ UNCHANGED <<entries, pool, prefix, spawned, data>>

\* All threads are started, then joined.
Joins ==
  /\ \/ pool = "spawn" /\ spawned = Threads(Count) /\ pool' = "join"
     \/ /\ pool = "join" /\ \A i \in Worker : at[i] \in {"off", "out"}
        /\ pool' = IF extractFailed THEN "failed" ELSE "done"
  /\ UNCHANGED <<entries, prefix, spawned, at, pos, extractFailed, disk, data>>

\* The launcher is killed.
Killed ==
  /\ pool \in {"scan", "spawn", "join"} /\ pool' = "died"
  /\ UNCHANGED <<entries, prefix, spawned, at, pos, extractFailed, disk, data>>

ThreadStep(i) == LeavesBatch(i) \/ FailsBatch(i) \/ OpensFile(i) \/ WritesFile(i)

ExtractStep == ScanArchive \/ Spawn \/ Joins \/ (\E i \in Worker : ThreadStep(i))

-----------------------------------------------------------------------------
(* The inductive invariant: every thread that was started is in its batch, *)
(* and what it has passed is on the disk.                                  *)

InBatch(i) == /\ i < spawned /\ First(Count, i) < Last(Count, i)
              /\ First(Count, i) < pos[i] /\ pos[i] <= Last(Count, i) + 1
              /\ pos[i] <= First(Count, i) + 1 \/ pos[i] <= Count + 1

Phases ==
  /\ pool \in {"spawn", "join", "done"} => entries # <<>> /\ spawned <= Threads(Count)
  /\ pool \in {"join", "done"} => spawned = Threads(Count)
  /\ pool \in {"idle", "scan"} => spawned = 0 /\ \A i \in Worker : at[i] = "off"
  /\ pool = "done" => ~extractFailed /\ \A i \in Worker : at[i] \in {"off", "out"}

Passed(i) == First(Count, i) + 1 .. pos[i] - 1

ThreadInv(i) ==
  /\ at[i] # "off" => InBatch(i)
  /\ at[i] = "writing" => pos[i] <= Last(Count, i) /\ pos[i] <= Count
  /\ at[i] = "out" /\ ~extractFailed => pos[i] > Last(Count, i)
  /\ at[i] = "off" /\ i < spawned /\ pool \in {"spawn", "join", "done"} =>
       First(Count, i) >= Last(Count, i)
  /\ Apart /\ at[i] # "off" => \A k \in Passed(i) : disk[Target(k)] = entries[k].content

ExtractInv == Phases /\ \A i \in Worker : ThreadInv(i)
=============================================================================
