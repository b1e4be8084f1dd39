------------------------------ MODULE UpdateForge ------------------------------
(***************************************************************************)
(* The tool that makes a release.  The update root has a folder per        *)
(* version; Generate lists the newest version of every page, hashed by a   *)
(* pool of threads, in Version.dat and the hash of that in Version.dat.md5;*)
(* Compare and Pack puts the files of a folder that are not the same in a  *)
(* base folder into an archive.  Meanwhile somebody may still copy files   *)
(* into the folders.                                                       *)
(***************************************************************************)
EXTENDS Files

CONSTANTS
  Folder,    \* folders in the update root
  Version,   \* the number a folder's name begins with; 0: none
  Size,      \* the size of a content
  Thread,    \* the pool
  Start,     \* what the folders hold to begin with
  Rank,      \* the order in which the file system lists the files
  Copied,    \* files that are copied or removed meanwhile
  MaxActs,   \* what the developer does, at most
  Unreadable, \* files that perhaps cannot be read to their end while they are packed
  None       \* no folder, no page, nothing known

ASSUME VersionsOK == Version \in [Folder -> Nat] /\ None \notin Folder
ASSUME TreesOK == Start \subseteq [Folder -> [Page -> Content \cup {Absent}]]
ASSUME RankOK == /\ Rank \in [Folder -> [Page -> Nat]] /\ Copied \subseteq Folder \X Page
                 /\ \A f \in Folder, p, q \in Page : Rank[f][p] = Rank[f][q] => p = q
ASSUME SizesOK == Size \in [Content -> Nat] /\ None \notin Page
ASSUME BoundsOK == MaxActs \in Nat /\ Unreadable \subseteq Page

VARIABLES
  tree,     \* what is in the folders
  app,      \* m_hWorker and the dialog: "ready", "busy", "packing"
  stage,    \* the detached worker: "none", "scan", "hash", "write", "writing", "md5"
  latest,   \* the folder with the newest file of every page
  todo,     \* tasks no thread has taken
  job,      \* the task of each thread
  sized,    \* the size that it has read
  results,  \* the finished tasks
  report,   \* what the last run reported: success or not; None: there is none
  dat,      \* Version.dat
  datMd5,   \* Version.dat.md5: the hash of what
  source,   \* the new folder of the dialog
  changed,  \* the files found to be changed
  packed,   \* the archive reported as packed
  omitted,  \* history: pages the run could not read or did not come to
  touched,  \* history: pages changed since the run began
  faulty,   \* history: a write of the run failed unnoticed
  origin,   \* history: what the two folders held, unless the archive has something else
  acts      \* how often the developer did something

work   == <<latest, todo, job, sized, results, omitted>>
output == <<report, dat, datMd5, faulty>>
pack   == <<source, changed, packed, origin>>
forge  == <<tree, app, stage, work, output, pack, touched, acts>>

Result   == [page : Page, folder : Folder, size : Nat, md5 : Content, earlier : Nat]
Manifest == SUBSET Result
Holding  == [Page -> Content \cup {Absent}]
Origin   == [base : Holding, new : Holding]

ASSUME NoneOK == None \notin Origin

ForgeTypeOK ==
  /\ tree \in [Folder -> Holding]
  /\ app \in {"ready", "busy", "packing"}
  /\ stage \in {"none", "scan", "hash", "write", "writing", "md5"}
  /\ latest \in [Page -> Folder \cup {None}]
  /\ todo \subseteq Page
  /\ job \in [Thread -> Page \cup {None}]
  /\ sized \in [Thread -> Nat]
  /\ results \in Manifest
  /\ report \in {"none", "success", "failure"}
  /\ dat \in Manifest \cup {Absent, Cut} /\ datMd5 \in Manifest \cup {Absent, Cut}
  /\ source \in Folder \cup {None}
  /\ changed \subseteq Page
  /\ packed \in Seq([path : Page, content : Content \cup {Cut}])
  /\ omitted \subseteq Page /\ touched \subseteq Page
  /\ faulty \in BOOLEAN
  /\ origin \in Origin \cup {None}
  /\ acts \in 0 .. MaxActs

NoWork == /\ latest' = [p \in Page |-> None] /\ todo' = {} /\ results' = {} /\ omitted' = {}
          /\ job' = [t \in Thread |-> None] /\ sized' = [t \in Thread |-> 0]

ForgeInit ==
  /\ tree \in Start
  /\ app = "ready" /\ stage = "none" /\ report = "none" /\ faulty = FALSE
  /\ latest = [p \in Page |-> None] /\ todo = {} /\ results = {} /\ omitted = {}
  /\ job = [t \in Thread |-> None] /\ sized = [t \in Thread |-> 0]
  /\ dat = Absent /\ datMd5 = Absent
  /\ source = None /\ changed = {} /\ packed = <<>> /\ origin = None
  /\ touched = {} /\ acts = 0

Acts == acts < MaxActs /\ acts' = acts + 1

-----------------------------------------------------------------------------
(* Generate.                                                               *)

OnGenerate ==
  /\ app = "ready" /\ Acts
  /\ app' = "busy" /\ stage' = "scan" /\ report' = "none" /\ faulty' = FALSE
  /\ touched' = {} /\ NoWork
  /\ UNCHANGED <<tree, dat, datMd5, pack>>

Listed == {q \in Folder \X Page : tree[q[1]][q[2]] # Absent /\ Version[q[1]] > 0}

\* Variant with a bug: versions are not compared.
AnyOf(f, p, seen) == <<f, p>> \in seen

\* Of several folders with the same number the one enumerated first counts.
NewestOf(f, p, seen) ==
  /\ <<f, p>> \in seen
  /\ \A g \in Folder : <<g, p>> \in seen =>
       /\ Version[g] <= Version[f]
       /\ Version[g] = Version[f] => Rank[f][p] <= Rank[g][p]

Before(s) == {q \in Listed : Rank[q[1]][q[2]] < Rank[s[1]][s[2]]}

\* The enumeration; at a path that cannot be made relative it breaks off unnoticed.
Enumerate ==
  /\ stage = "scan"
  /\ \E seen \in {Listed} \cup {Before(s) : s \in Listed} :
       /\ \E newest \in [{q[2] : q \in seen} -> Folder] :
            /\ \A p \in DOMAIN newest : NewestOf(newest[p], p, seen)
            /\ latest' = [p \in Page |-> IF p \in DOMAIN newest THEN newest[p] ELSE None]
       /\ omitted' = {q[2] : q \in Listed \ seen}
  /\ todo' = {p \in Page : latest'[p] # None}
  /\ stage' = "hash"
  /\ UNCHANGED <<tree, app, job, sized, results, output, pack, touched, acts>>

\* Variant with a bug: the index is read and increased in two steps.
TakesTwice(t) ==
  /\ stage = "hash" /\ job[t] = None
  /\ \E p \in todo :
       /\ todo' \in {todo, todo \ {p}}
       /\ tree[latest[p]][p] # Absent
       /\ job' = [job EXCEPT ![t] = p]
       /\ sized' = [sized EXCEPT ![t] = Size[tree[latest[p]][p]]]
  /\ UNCHANGED <<tree, app, stage, latest, results, omitted, output, pack, touched, acts>>

\* index.fetch_add gives out every task once, in an order that does not matter; a file
\* whose size cannot be read is passed over.
Takes(t) ==
  /\ stage = "hash" /\ job[t] = None
  /\ \E p \in todo :
       /\ todo' = todo \ {p}
       /\ \/ /\ tree[latest[p]][p] # Absent
             /\ job' = [job EXCEPT ![t] = p]
             /\ sized' = [sized EXCEPT ![t] = Size[tree[latest[p]][p]]]
             /\ UNCHANGED omitted
          \/ omitted' = omitted \cup {p} /\ UNCHANGED <<job, sized>>
  /\ UNCHANGED <<tree, app, stage, latest, results, output, pack, touched, acts>>

\* How often a page was pushed back to the results already.
Times(p) == Cardinality({r \in results : r.page = p})

\* A file whose content cannot be read is passed over, too.
Hashes(t) ==
  /\ stage = "hash" /\ job[t] # None
  /\ LET p == job[t]
         f == latest[p]
     IN \/ /\ tree[f][p] # Absent
           /\ results' = results \cup {[page |-> p, folder |-> f, size |-> sized[t],
                                        md5 |-> tree[f][p], earlier |-> Times(p)]}
           /\ UNCHANGED omitted
        \/ omitted' = omitted \cup {p} /\ UNCHANGED results
  /\ job' = [job EXCEPT ![t] = None]
  /\ UNCHANGED <<tree, app, stage, latest, todo, sized, output, pack, touched, acts>>

\* Variant with a bug: the pool is not joined.
JoinsEarly ==
  /\ stage = "hash" /\ todo = {}
  /\ stage' = "write"
  /\ UNCHANGED <<tree, app, work, output, pack, touched, acts>>

JoinsPool ==
  /\ stage = "hash" /\ todo = {} /\ \A t \in Thread : job[t] = None
  /\ IF results = {} THEN stage' = "none" /\ report' = "failure"
                     ELSE stage' = "write" /\ UNCHANGED report
  /\ UNCHANGED <<tree, app, work, dat, datMd5, faulty, pack, touched, acts>>

\* The compression fails; the file cannot be opened, which nobody notices; it is opened.
OpensDat ==
  /\ stage = "write"
  /\ \/ stage' = "none" /\ report' = "failure" /\ UNCHANGED <<dat, faulty>>
     \/ stage' = "md5" /\ faulty' = TRUE /\ UNCHANGED <<dat, report>>
     \/ stage' = "writing" /\ dat' = Cut /\ UNCHANGED <<faulty, report>>
  /\ UNCHANGED <<tree, app, work, datMd5, pack, touched, acts>>

WritesDat ==
  /\ stage = "writing" /\ stage' = "md5"
  /\ \/ dat' = results /\ UNCHANGED faulty
     \/ faulty' = TRUE /\ UNCHANGED dat
  /\ UNCHANGED <<tree, app, work, report, datMd5, pack, touched, acts>>

\* Version.dat is read back; its hash is written, or not, without a look.
WritesMd5 ==
  /\ stage = "md5" /\ stage' = "none"
  /\ \/ /\ dat # Absent /\ report' = "success"
        /\ \/ datMd5' = dat /\ UNCHANGED faulty
           \/ datMd5' \in {datMd5, Cut} /\ faulty' = TRUE
     \/ report' = "failure" /\ UNCHANGED <<datMd5, faulty>>
  /\ UNCHANGED <<tree, app, work, dat, pack, touched, acts>>

\* Variant with a bug: only a run that succeeded makes the window ready again.
FinishesOnSuccess ==
  /\ app = "busy" /\ stage = "none" /\ report = "success" /\ app' = "ready"
  /\ UNCHANGED <<tree, stage, work, output, pack, touched, acts>>

OnWorkerFinished ==
  /\ app = "busy" /\ stage = "none" /\ app' = "ready"
  /\ UNCHANGED <<tree, stage, work, output, pack, touched, acts>>

-----------------------------------------------------------------------------
(* Compare and Pack.                                                       *)

Same(base, new, p) == tree[new][p] = tree[base][p]

\* What is new or differs; what is gone in the new folder stays.
CollectChangedFiles(base, new) == {p \in Page : tree[new][p] # Absent /\ ~Same(base, new, p)}

\* The dialog is modal: nothing else is begun until it is closed.
OnOpenDiffPackDialog == app = "ready" /\ Acts

\* Where nothing differs, or the comparison fails, an older archive stays.
DiffDialogRunPack ==
  /\ OnOpenDiffPackDialog
  /\ \E base, new \in Folder :
        /\ source' = new
        /\ changed' = CollectChangedFiles(base, new)
        /\ IF changed' = {} THEN UNCHANGED <<app, packed, origin>>
           ELSE /\ app' = "packing" /\ packed' = <<>>
                /\ origin' = [base |-> tree[base], new |-> tree[new]]
  /\ UNCHANGED <<tree, stage, work, output, touched>>

\* The files of S as the new folder's enumeration comes upon them.
Position(p, S) == Cardinality({q \in S : Rank[source][q] <= Rank[source][p]})
InOrder(S)     == [k \in 1 .. Cardinality(S) |-> CHOOSE p \in S : Position(p, S) = k]

\* The files are read when they are packed; one that cannot be read to its end is packed
\* cut short, one that is gone ends it.
CreateChangedFilesArchive7z ==
  /\ app = "packing" /\ app' = "ready"
  /\ \/ \E short \in SUBSET (changed \cap Unreadable) :
          LET s   == InOrder(changed)
              now == tree[source]
          IN /\ \A p \in changed : now[p] # Absent
             /\ packed' = [k \in DOMAIN s |->
                             [path |-> s[k],
                              content |-> IF s[k] \in short THEN Cut ELSE now[s[k]]]]
             /\ origin' = IF short = {} /\ \A p \in changed : now[p] = origin.new[p]
                          THEN origin ELSE None
     \/ packed' = <<>> /\ origin' = None
  /\ UNCHANGED <<tree, stage, work, output, source, changed, touched, acts>>

-----------------------------------------------------------------------------
\* Files are copied into the folders or removed.
Edits ==
  /\ Acts
  /\ \E q \in Copied, c \in Content \cup {Absent} :
       /\ c # tree[q[1]][q[2]] /\ tree' = [tree EXCEPT ![q[1]][q[2]] = c]
       /\ touched' = touched \cup {q[2]}
  /\ UNCHANGED <<app, stage, work, output, pack>>

\* The window is closed or an enumeration throws: the process ends and its threads with it;
\* the tool is started again.
Closes ==
  /\ Acts /\ app \in {"busy", "packing"}
  /\ app' = "ready" /\ stage' = "none" /\ report' = "none" /\ NoWork
  /\ packed' = IF app = "packing" THEN <<>> ELSE packed
  /\ origin' = IF app = "packing" THEN None ELSE origin
  /\ UNCHANGED <<tree, dat, datMd5, faulty, source, changed, touched>>

WorkerStep == \/ Enumerate \/ (\E t \in Thread : Takes(t) \/ Hashes(t)) \/ JoinsPool
              \/ OpensDat \/ WritesDat \/ WritesMd5 \/ OnWorkerFinished

ForgeStep == \/ OnGenerate \/ WorkerStep \/ DiffDialogRunPack \/ CreateChangedFilesArchive7z
             \/ Edits \/ Closes

-----------------------------------------------------------------------------
\* The version of a page that belongs into the manifest.
Newest(f, p) == /\ tree[f][p] # Absent /\ Version[f] > 0
                /\ \A g \in Folder : tree[g][p] # Absent => Version[g] <= Version[f]

Describes(r) == /\ Newest(r.folder, r.page)
                /\ r.md5 = tree[r.folder][r.page]
                /\ r.size = Size[tree[r.folder][r.page]]

(* A manifest reported as generated lists every page once, with the newest *)
(* version's size and hash, and has its own hash beside it, whatever the   *)
(* threads read at one time; files that changed during the run, could not  *)
(* be read, or were not reached when the enumeration broke off, and writes *)
(* nobody looked at, are the exceptions (UpdateForge.cpp:1569-1743).       *)
ManifestExact ==
  report = "success" /\ ~faulty =>
    /\ datMd5 = dat
    /\ \A p \in Page \ (touched \cup omitted) :
         /\ \A r \in dat : r.page = p => Describes(r)
         /\ (\E f \in Folder : Newest(f, p)) =>
              \E r \in dat : r.page = p /\ \A o \in dat : o.page = p => o = r

-----------------------------------------------------------------------------
(* The inductive invariant.                                                *)

Sound   == Page \ (touched \cup omitted)
Counted == stage \in {"hash", "write", "writing", "md5"} \/ report = "success"

\* The enumeration has found the newest version of every page.
LatestNewest ==
  Counted => \A p \in Sound :
    IF latest[p] = None THEN \A f \in Folder : ~Newest(f, p) ELSE Newest(latest[p], p)

\* A page is with one of: the tasks, a thread, the results; and it is in one of them.
OnePlace ==
  /\ \A t \in Thread : job[t] # None => job[t] \notin todo
  /\ \A t, u \in Thread : job[t] = job[u] /\ job[t] # None => t = u
  /\ \A r \in results : r.page \notin todo /\ r.earlier = 0 /\ \A t \in Thread : job[t] # r.page
  /\ \A r, o \in results : r.page = o.page => r = o

NoneLost ==
  Counted => \A p \in Page \ omitted : latest[p] # None =>
    p \in todo \/ (\E t \in Thread : job[t] = p) \/ \E r \in results : r.page = p

\* What the threads have read is of the file that was found.
ReadRight ==
  /\ \A p \in todo : latest[p] # None
  /\ \A t \in Thread : job[t] # None =>
       /\ latest[job[t]] # None
       /\ job[t] \in Sound => sized[t] = Size[tree[latest[job[t]]][job[t]]]
  /\ \A r \in results : r.page \in Sound =>
       /\ r.folder = latest[r.page] /\ r.md5 = tree[r.folder][r.page]
       /\ r.size = Size[tree[r.folder][r.page]]

\* The stages of the worker and what each leaves behind.
Stages ==
  /\ stage # "none" => app = "busy" /\ report = "none"
  /\ stage # "hash" => todo = {} /\ \A t \in Thread : job[t] = None
  /\ stage = "scan" => results = {}
  /\ (stage = "md5" \/ report = "success") /\ ~faulty => dat = results
  /\ report = "success" /\ ~faulty => datMd5 = dat

\* What the archive was reported to have.
Carries(s, o) == \A p \in Page : o.new[p] \notin {Absent, o.base[p]} =>
                   \E k \in DOMAIN s : s[k] = [path |-> p, content |-> o.new[p]]

Packing ==
  /\ app = "packing" => /\ source # None /\ origin # None
                        /\ changed = {p \in Page : origin.new[p] \notin {Absent, origin.base[p]}}
  /\ packed # <<>> /\ origin # None => Carries(packed, origin)

ForgeInv == LatestNewest /\ OnePlace /\ NoneLost /\ ReadRight /\ Stages /\ Packing
=============================================================================
