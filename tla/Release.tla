-------------------------------- MODULE Release --------------------------------
(***************************************************************************)
(* From the developer's folders to a player's install directory: the       *)
(* archive that UpdateForge packs is what a launcher downloads (module     *)
(* ChunkDownload) and extracts.                                            *)
(***************************************************************************)
EXTENDS UpdateForge, Archive

VARIABLE goal  \* history: the origin of the archive that the launcher extracts

vars == <<forge, extraction, goal>>

TypeOK == ForgeTypeOK /\ ExtractTypeOK /\ goal \in Origin \cup {None}

Init == ForgeInit /\ ExtractInit /\ goal = None

\* DownloadBasePackage hands the archive on the server to Extract7z.
Installs ==
  /\ packed # <<>> /\ Acts
  /\ Extract7z(packed) /\ goal' = origin
  /\ UNCHANGED <<tree, app, stage, work, output, pack, touched>>

\* A later start of the launcher.
InstallsAgain ==
  /\ pool \in {"failed", "died", "done"} /\ Extract7z(entries)
  /\ UNCHANGED <<forge, goal>>

Next == \/ ForgeStep /\ UNCHANGED <<extraction, goal>>
        \/ (ExtractStep \/ Killed) /\ UNCHANGED <<forge, goal>>
        \/ Installs \/ InstallsAgain

Spec == Init /\ [][Next]_vars

-----------------------------------------------------------------------------
(* After an extraction that reports success every file of the new folder   *)
(* that the base folder does not have alike is in its place, although      *)
(* threads write parts of the archive at one time and each of them may     *)
(* fail, unless two files have one place (Archive.cpp:225-293, 353-467,    *)
(* UpdateForge.cpp:583-800).                                               *)
PackInstalls ==
  pool = "done" /\ Apart /\ goal # None =>
    \A p \in Page : goal.new[p] \notin {Absent, goal.base[p]} =>
      \E k \in DOMAIN entries : entries[k].path = p /\ disk[Target(k)] = goal.new[p]

(* A run of the tool and an extraction come to an end, whichever of their  *)
(* threads fails (UpdateForge.cpp:1634-1743, Archive.cpp:247-293).         *)
WorkEnds == /\ app = "busy" ~> app # "busy"
            /\ Alive ~> ~Alive

-----------------------------------------------------------------------------
(* The argument behind WorkEnds.                                           *)

StageLeft(s) == CASE s = "scan" -> 5 [] s = "hash" -> 4 [] s = "write" -> 3
                  [] s = "writing" -> 2 [] s = "md5" -> 1 [] OTHER -> 0

Hashing == {t \in Thread : job[t] # None}

\* The worker is in a later stage, or has a task less to give out, or a thread less at work.
ForgeAdvances ==
  \/ StageLeft(stage') < StageLeft(stage)
  \/ /\ stage' = stage
     /\ \/ todo' \subseteq todo /\ todo' # todo
        \/ todo' = todo /\ Hashing' \subseteq Hashing /\ Hashing' # Hashing

\* A thread of the extraction opens the file of its entry, writes it, or is done.
Onward(i) ==
  \/ at[i] = "head" /\ at'[i] = "writing" /\ pos'[i] = pos[i] /\ pos[i] <= Count
  \/ at[i] = "writing" /\ at'[i] = "head" /\ pos'[i] = pos[i] + 1 /\ pos[i] <= Count
  \/ at[i] \in {"head", "writing"} /\ at'[i] = "out" /\ pos'[i] = pos[i]

\* One more thread is started, all of them are, or one thread is further on.
ExtractAdvances ==
  \/ pool' = pool /\ spawned' = spawned + 1 /\ spawned' <= Threads(Count)
  \/ pool = "spawn" /\ pool' = "join" /\ UNCHANGED <<spawned, at, pos>>
  \/ /\ pool' = pool /\ spawned' = spawned
     /\ \E i \in Worker : /\ Onward(i)
                          /\ \A j \in Worker \ {i} : at'[j] = at[j] /\ pos'[j] = pos[j]

(* Neither a run of the tool nor an extraction can go on for ever: every   *)
(* step of one leaves a stage, a task, a thread or an entry behind, or     *)
(* ends it, and nobody's step adds to what is left (UpdateForge.cpp:       *)
(* 1634-1743, Archive.cpp:247-293).                                        *)
WorkAdvances ==
  [][/\ app = "busy" =>
          \/ app' # "busy" \/ ForgeAdvances
          \/ ~WorkerStep /\ UNCHANGED <<stage, todo, job>>
     /\ Alive =>
          \/ ~Alive'
          \/ ExtractAdvances /\ UNCHANGED entries
          \/ ~ExtractStep /\ UNCHANGED <<entries, pool, spawned, at, pos>>]_vars

(* The batches of the threads may end behind the archive's last entry,     *)
(* where the batch is copied from memory that is none of its entries, but  *)
(* not when it has as many entries as the square of the threads less one   *)
(* (Archive.cpp:244-255).                                                  *)
ManyEntries == Hw = 0 \/ Count >= (Hw - 1) * (Hw - 1)
BatchesInside ==
  [][ManyEntries /\ pool = "spawn" /\ spawned' # spawned => pool' # "died"]_vars

-----------------------------------------------------------------------------
(* No two files of an archive that the tool packed have one path, so its   *)
(* files have places of their own if all are under the directory that is   *)
(* cut off, above all if nothing is (Archive.cpp:118-131, 353-467,         *)
(* UpdateForge.cpp:583-800).                                               *)
OneName(s) == \A j, k \in DOMAIN s : s[j].path = s[k].path => j = k

Under == \A k \in 1 .. Count : LET p == entries[k].path
                               IN Len(prefix) < Len(p) /\ Agree(prefix, p, Len(prefix))

UnderApart == OneName(packed) /\ OneName(entries) /\ (Under => Apart)

(* Threads go on, and the window's messages are handled.                   *)
FairSpec == Spec /\ WF_vars(WorkerStep /\ UNCHANGED <<extraction, goal>>)
                 /\ WF_vars(ExtractStep /\ UNCHANGED <<forge, goal>>)

(* Inductive: the stages of the worker, with every page in one place and   *)
(* none lost, and the batches of the threads, with what they have passed   *)
(* on the disk (UpdateForge.cpp:1620-1743, Archive.cpp:225-293).           *)
IInv == TypeOK /\ ForgeInv /\ ExtractInv /\ (goal # None => Carries(entries, goal))
=============================================================================
