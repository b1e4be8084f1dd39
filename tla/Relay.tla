--------------------------------- MODULE Relay ---------------------------------
(***************************************************************************)
(* How a launcher gets to its place and replaces itself: the processes     *)
(* that hand over to each other by --cleanup-pid and --cleanup-path.  A    *)
(* copy started outside the install directory copies itself there; a       *)
(* launcher that has downloaded UpdateTemp.exe starts it; UpdateTemp.exe   *)
(* copies itself to RebornLauncher.exe and starts that.  Each terminates   *)
(* the one before, deletes its file, and goes on.                          *)
(*                                                                         *)
(* A file is a build, cut short, or absent.  Windows neither deletes nor   *)
(* overwrites the image of a running process, nor a file being written.    *)
(***************************************************************************)
EXTENDS Naturals

CONSTANTS
  Proc,      \* process ids
  Name,      \* file names a launcher may have
  Canonical, \* kCanonicalLauncherName
  Temp,      \* UpdateTemp.exe
  MaxBuild,  \* builds published at most
  Absent,    \* no such file
  Cut,       \* a file that is being written, or whose writing was interrupted
  NoPlace    \* no --cleanup-path, no shortcut

Build == 1 .. MaxBuild
Place == {"home", "out"} \X Name
Home(n) == <<"home", n>>
Dir(q)  == q[1]
NameOf(q) == q[2]

ASSUME NamesOK == Canonical \in Name /\ Temp \in Name /\ Canonical # Temp
ASSUME BuildsOK == MaxBuild \in Nat \ {0} /\ Absent \notin Build /\ Cut \notin Build
                   /\ NoPlace \notin Place

VARIABLES
  file,     \* what is at every place
  step,     \* where each process stands; "off": there is none
  image,    \* the file it was started from
  cleanup,  \* its --cleanup-path
  victim,   \* its --cleanup-pid
  target,   \* the place it copies itself to and starts
  want,     \* the build its manifest lists
  shortcut, \* where the shortcut on the desktop points
  offered,  \* the newest build on the server
  promoted, \* history: the newest build that UpdateTemp.exe brought to its place
  quiet     \* history: since the last start by hand nothing was killed and nothing failed

process == <<step, image, cleanup, victim, target, want>>
vars    == <<file, process, shortcut, offered, promoted, quiet>>

Running(p) == step[p] # "off"
HoldsMutex == {"main", "sync", "fetching", "handover", "stopping"}

TypeOK ==
  /\ file \in [Place -> Build \cup {Absent, Cut}]
  /\ step \in [Proc -> {"off", "boot", "cleanup", "clear", "copy", "copying", "launch",
                        "leaving", "guard", "main", "sync", "fetching", "handover",
                        "stopping", "box"}]
  /\ image \in [Proc -> Place \cup {NoPlace}]
  /\ cleanup \in [Proc -> Place \cup {NoPlace}]
  /\ victim \in [Proc -> Proc]
  /\ target \in [Proc -> Place \cup {NoPlace}]
  /\ want \in [Proc -> Build]
  /\ shortcut \in Place \cup {NoPlace}
  /\ offered \in Build
  /\ promoted \in Build \cup {0}
  /\ quiet \in BOOLEAN

\* A file some process runs from or writes to.
InUse(q) == \E p \in Proc : \/ Running(p) /\ image[p] = q
                            \/ step[p] = "copying" /\ target[p] = q
                            \/ step[p] = "fetching" /\ q = Home(Temp)

\* Variant with a bug: a file in use is moved away.
DeleteOrMove(q) == file' = [file EXCEPT ![q] = Absent]

\* DeleteFileWithRetry gives up on a file in use; no caller looks at its result.
DeleteFileWithRetry(q) ==
  file' = IF InUse(q) THEN file ELSE [file EXCEPT ![q] = Absent]

\* A new process, with what BuildRelaunchArgsString hands to it.
Boots(p, q, c, v) ==
  /\ ~Running(p) /\ file[q] \in Build
  /\ image' = [image EXCEPT ![p] = q]
  /\ cleanup' = [cleanup EXCEPT ![p] = c]
  /\ victim' = [victim EXCEPT ![p] = v]

Goes(p, s) == step' = [step EXCEPT ![p] = s]

\* A process is gone, with all it knew.
Gone(p) ==
  /\ Goes(p, "off")
  /\ image' = [image EXCEPT ![p] = NoPlace] /\ cleanup' = [cleanup EXCEPT ![p] = NoPlace]
  /\ victim' = [victim EXCEPT ![p] = p] /\ target' = [target EXCEPT ![p] = NoPlace]
  /\ want' = [want EXCEPT ![p] = 1]

\* The error box of wWinMain; the process exits when the user has dismissed it.
Fails(p) == Goes(p, "box") /\ quiet' = FALSE

-----------------------------------------------------------------------------
(* HandleCleanupRelay and RelocateLauncherIfNeeded.                        *)

\* RelocateLauncherIfNeeded looks where the process is.
Relocates(p) ==
  IF Dir(image[p]) = "home" THEN Goes(p, "guard") /\ UNCHANGED target
  ELSE Goes(p, "clear") /\ target' = [target EXCEPT ![p] = Home(NameOf(image[p]))]

\* Nothing to clean up, or only the own image.
NoRelay(p) ==
  /\ step[p] = "boot" /\ cleanup[p] \in {NoPlace, image[p]}
  /\ Relocates(p)
  /\ UNCHANGED <<file, image, cleanup, victim, want, shortcut, offered, promoted, quiet>>

\* The process before is terminated if its id still belongs to the same file; it may
\* be one that this user may not terminate.
TerminateVictim(p) ==
  /\ step[p] = "boot" /\ cleanup[p] \notin {NoPlace, image[p]}
  /\ LET v == victim[p]
         old == Running(v) /\ image[v] = cleanup[p]
     IN \/ old /\ Gone(v) /\ UNCHANGED quiet
        \/ /\ Goes(p, "cleanup") /\ quiet' = (quiet /\ ~old)
           /\ UNCHANGED <<image, cleanup, victim, target, want>>
  /\ UNCHANGED <<file, shortcut, offered, promoted>>

\* The old file goes; then a copy under another name promotes itself.
DeleteOld(p) ==
  /\ step[p] = "cleanup"
  /\ DeleteFileWithRetry(cleanup[p])
  /\ IF NameOf(image[p]) # Canonical
     THEN Goes(p, "clear")
          /\ target' = [target EXCEPT ![p] = <<Dir(image[p]), Canonical>>]
     ELSE Relocates(p)
  /\ UNCHANGED <<image, cleanup, victim, want, shortcut, offered, promoted, quiet>>

\* CopySelfToTarget: the target is deleted before it is written.
ClearTarget(p) ==
  /\ step[p] = "clear"
  /\ DeleteFileWithRetry(target[p])
  /\ Goes(p, "copy")
  /\ UNCHANGED <<image, cleanup, victim, target, want, shortcut, offered, promoted, quiet>>

\* CopyFile does not open a target in use; it may fail for other reasons too.
CopySelf(p) ==
  /\ step[p] = "copy"
  /\ \/ ~InUse(target[p]) /\ Goes(p, "copying") /\ UNCHANGED quiet
        /\ file' = [file EXCEPT ![target[p]] = Cut]
     \/ Fails(p) /\ UNCHANGED file
  /\ UNCHANGED <<image, cleanup, victim, target, want, shortcut, offered, promoted>>

\* Variants with a bug, for LaunchTarget and HandleSelfUpdateAndExit: no --cleanup-path.
LaunchTargetBare(p) ==
  /\ step[p] = "launch"
  /\ \/ \E n \in Proc :
          /\ Boots(n, target[p], NoPlace, p)
          /\ step' = [step EXCEPT ![n] = "boot", ![p] = "leaving"]
          /\ UNCHANGED quiet
     \/ Fails(p) /\ UNCHANGED <<image, cleanup, victim>>
  /\ UNCHANGED <<file, target, want, shortcut, offered, promoted>>
HandleSelfUpdateBare(p) ==
  /\ step[p] = "handover"
  /\ \/ \E n \in Proc :
          /\ Boots(n, Home(Temp), NoPlace, p)
          /\ step' = [step EXCEPT ![n] = "boot", ![p] = "stopping"]
          /\ UNCHANGED quiet
     \/ Goes(p, "main") /\ quiet' = FALSE /\ UNCHANGED <<image, cleanup, victim>>
  /\ UNCHANGED <<file, target, want, shortcut, offered, promoted>>

\* A relocated launcher gets its shortcut, under the name it has; nobody looks whether
\* the shell made one.
CopyEnds(p) ==
  /\ step[p] = "copying"
  /\ \/ /\ file' = [file EXCEPT ![target[p]] = file[image[p]]]
        /\ Goes(p, "launch")
        /\ promoted' = IF image[p] = Home(Temp) THEN file[image[p]] ELSE promoted
        /\ \/ /\ shortcut' = IF Dir(image[p]) # Dir(target[p]) THEN target[p] ELSE shortcut
              /\ UNCHANGED quiet
           \/ Dir(image[p]) # Dir(target[p]) /\ quiet' = FALSE /\ UNCHANGED shortcut
     \/ /\ file' \in {[file EXCEPT ![target[p]] = f] : f \in {Absent, Cut}}
        /\ Fails(p) /\ UNCHANGED <<shortcut, promoted>>
  /\ UNCHANGED <<image, cleanup, victim, target, want, offered>>

\* LaunchProcess, then ExitProcess.
LaunchTarget(p) ==
  /\ step[p] = "launch"
  /\ \/ \E n \in Proc :
          /\ Boots(n, target[p], image[p], p)
          /\ step' = [step EXCEPT ![n] = "boot", ![p] = "leaving"]
          /\ UNCHANGED quiet
     \/ Fails(p) /\ UNCHANGED <<image, cleanup, victim>>
  /\ UNCHANGED <<file, target, want, shortcut, offered, promoted>>

-----------------------------------------------------------------------------
(* The launcher proper, as far as it concerns its own file.                *)

\* Variant with a bug: the mutex is created and nobody asks whether it was there.
CreateMutexUnchecked(p) ==
  /\ step[p] = "guard" /\ Goes(p, "main")
  /\ cleanup' = [cleanup EXCEPT ![p] = NoPlace] /\ victim' = [victim EXCEPT ![p] = p]
  /\ UNCHANGED <<file, image, target, want, shortcut, offered, promoted, quiet>>

\* wWinMain's mutex: one of several launchers goes on (module SingleInstance).
CreateMutex(p) ==
  /\ step[p] = "guard"
  /\ IF \E o \in Proc : step[o] \in HoldsMutex THEN Goes(p, "leaving")
                                               ELSE Goes(p, "main")
  /\ cleanup' = [cleanup EXCEPT ![p] = NoPlace] /\ victim' = [victim EXCEPT ![p] = p]
  /\ UNCHANGED <<file, image, target, want, shortcut, offered, promoted, quiet>>

\* Variant with a bug: the launcher is compared with a manifest kept from an earlier run.
RefreshFromCache(p) ==
  /\ step[p] = "main"
  /\ \E b \in 1 .. offered : want' = [want EXCEPT ![p] = b]
  /\ Goes(p, "sync")
  /\ UNCHANGED <<file, image, cleanup, victim, target, shortcut, offered, promoted, quiet>>

\* The manifest has another line for the launcher than the one before, or the file is not
\* as listed; a sync begins, by Execute or a /RunClient.
Refresh(p) ==
  /\ step[p] = "main"
  /\ want' = [want EXCEPT ![p] = offered]
  /\ Goes(p, "sync")
  /\ UNCHANGED <<file, image, cleanup, victim, target, shortcut, offered, promoted, quiet>>

\* DownloadRunTimeFile deletes UpdateTemp.exe before it downloads. A file in use stays;
\* one that is as long as the listed build is taken for it, with another the sync fails.
Fetch(p) ==
  /\ step[p] = "sync"
  /\ \/ ~InUse(Home(Temp)) /\ Goes(p, "fetching")
        /\ file' = [file EXCEPT ![Home(Temp)] = Cut]
        /\ UNCHANGED quiet
     \/ InUse(Home(Temp)) /\ UNCHANGED file
        /\ \/ Goes(p, "handover") /\ UNCHANGED quiet
           \/ file[Home(Temp)] # want[p] /\ Goes(p, "main") /\ quiet' = FALSE
  /\ UNCHANGED <<image, cleanup, victim, target, want, shortcut, offered, promoted>>

\* The listed build, or what a failure leaves (a wrong body of the right length is left to
\* UpdateFlow). The sync of a /RunClient leaves it there, Execute's goes on to start it.
FetchEnds(p) ==
  /\ step[p] = "fetching"
  /\ \/ /\ file' = [file EXCEPT ![Home(Temp)] = want[p]]
        /\ \E s \in {"handover", "main"} : Goes(p, s)
        /\ UNCHANGED quiet
     \/ /\ file' \in {[file EXCEPT ![Home(Temp)] = f] : f \in {Absent, Cut}}
        /\ Goes(p, "main") /\ quiet' = FALSE
  /\ want' = [want EXCEPT ![p] = 1]
  /\ UNCHANGED <<image, cleanup, victim, target, shortcut, offered, promoted>>

HandleSelfUpdateAndExit(p) ==
  /\ step[p] = "handover"
  /\ \/ \E n \in Proc :
          /\ Boots(n, Home(Temp), image[p], p)
          /\ step' = [step EXCEPT ![n] = "boot", ![p] = "stopping"]
          /\ UNCHANGED quiet
     \/ Goes(p, "main") /\ quiet' = FALSE /\ UNCHANGED <<image, cleanup, victim>>
  /\ UNCHANGED <<file, target, want, shortcut, offered, promoted>>

Exits(p) ==
  /\ step[p] \in {"leaving", "stopping", "box"}
  /\ Gone(p)
  /\ UNCHANGED <<file, shortcut, offered, promoted, quiet>>

-----------------------------------------------------------------------------
\* Somebody starts a launcher by hand.
Start(p) ==
  /\ \E q \in Place : Boots(p, q, NoPlace, p)
  /\ Goes(p, "boot")
  /\ quiet' = \A o \in Proc : ~Running(o)
  /\ UNCHANGED <<file, target, want, shortcut, offered, promoted>>

\* The process is killed, closed, or terminated by a launcher that takes over.
Kill(p) ==
  /\ Running(p) /\ Gone(p)
  /\ quiet' = FALSE
  /\ UNCHANGED <<file, shortcut, offered, promoted>>

Publish ==
  /\ offered < MaxBuild /\ offered' = offered + 1
  /\ UNCHANGED <<file, process, shortcut, promoted, quiet>>

\* A downloaded launcher, perhaps under another name, and perhaps an installation.
Init ==
  /\ file \in [Place -> Build \cup {Absent}]
  /\ \E q \in Place : file[q] # Absent
  /\ file[Home(Temp)] = Absent /\ file[<<"out", Temp>>] = Absent
  /\ step = [p \in Proc |-> "off"]
  /\ image = [p \in Proc |-> NoPlace] /\ target = image /\ cleanup = image
  /\ victim = [p \in Proc |-> p] /\ want = [p \in Proc |-> 1]
  /\ shortcut = NoPlace /\ promoted = 0 /\ quiet = TRUE
  /\ offered \in Build /\ \A q \in Place : file[q] \in Build => file[q] <= offered

RelayStep(p) ==
  \/ NoRelay(p) \/ TerminateVictim(p) \/ DeleteOld(p) \/ ClearTarget(p) \/ CopySelf(p)
  \/ CopyEnds(p) \/ LaunchTarget(p) \/ CreateMutex(p) \/ Fetch(p) \/ FetchEnds(p)
  \/ HandleSelfUpdateAndExit(p)

Next == \/ \E p \in Proc : RelayStep(p) \/ Refresh(p) \/ Exits(p) \/ Start(p) \/ Kill(p)
        \/ Publish

Spec == Init /\ [][Next]_vars

-----------------------------------------------------------------------------
(* Whatever is killed between deleting, copying and starting, a complete   *)
(* launcher is left on the disk: a copy is only deleted or overwritten     *)
(* while another one runs (RebornLauncher.cpp:358-368, 522-556, 577-602).  *)
LauncherLeft == \E q \in Place : file[q] \in Build

(* What UpdateTemp.exe brings to the launcher's place is never older than  *)
(* what it brought before, though a stale UpdateTemp.exe may survive a     *)
(* kill and be started at any later time (RuntimeUpdater.cpp:106-115).     *)
NoDowngrade == /\ file[Home(Temp)] \in Build => file[Home(Temp)] >= promoted
               /\ promoted <= offered

-----------------------------------------------------------------------------
(* The inductive invariant.                                                *)

\* A process runs from a complete file, which nobody deletes or overwrites.
ImagesWhole == \A p \in Proc : Running(p) => image[p] \in Place /\ file[image[p]] \in Build

\* Nobody copies to UpdateTemp.exe, and there is none outside.
TargetsNamed ==
  /\ \A p \in Proc : /\ target[p] \notin {Home(Temp), <<"out", Temp>>}
                     /\ step[p] \in {"clear", "copy", "copying", "launch"} => target[p] \in Place
  /\ file[<<"out", Temp>>] = Absent

\* A file is written by one process, under the eyes of nobody.
Exclusive ==
  /\ \A p \in Proc : step[p] = "copying" => file[target[p]] = Cut
  /\ \A p, o \in Proc : step[p] = "copying" /\ step[o] = "copying" /\ p # o => target[p] # target[o]
  /\ \A p \in Proc : step[p] = "fetching" => file[Home(Temp)] = Cut
  /\ \A p, o \in Proc : step[p] \in HoldsMutex /\ step[o] \in HoldsMutex => p = o

\* UpdateTemp.exe, and what it is to become, is between the promoted and the offered.
Newer ==
  /\ promoted <= offered
  /\ file[Home(Temp)] \in Build => file[Home(Temp)] \in promoted .. offered
  /\ \A p \in Proc : step[p] \in {"sync", "fetching"} =>
       /\ want[p] \in promoted .. offered
       /\ file[Home(Temp)] \in Build => file[Home(Temp)] <= want[p]

IInv == TypeOK /\ LauncherLeft /\ ImagesWhole /\ TargetsNamed /\ Exclusive /\ Newer

-----------------------------------------------------------------------------
\* How many copies lie between a launcher at q and its place, twice over for another
\* directory.
Distance(q) == (IF Dir(q) = "home" THEN 0 ELSE 2) + (IF NameOf(q) = Canonical THEN 0 ELSE 1)

Aiming == {"clear", "copy", "copying", "launch"}

(* The relay cannot go round in circles: a launcher only copies itself to  *)
(* a place nearer to the install directory and the canonical name, and one *)
(* that was started to replace another is nearer than that one, unless it  *)
(* is the UpdateTemp.exe of a self-update; so three copies are the most    *)
(* that follow a start, whoever else runs (RebornLauncher.cpp:507-602).    *)
Nearer ==
  \A p \in Proc :
    /\ step[p] \in Aiming => Distance(target[p]) < Distance(image[p])
    /\ Running(p) /\ cleanup[p] # NoPlace =>
         image[p] = Home(Temp) \/ Distance(image[p]) < Distance(cleanup[p])

-----------------------------------------------------------------------------
\* A launcher runs in the install directory under its own name.
Settled == \E p \in Proc : step[p] = "main" /\ image[p] = Home(Canonical)

(* Undisturbed, a launcher that starts UpdateTemp.exe is replaced by it,   *)
(* which runs under the launcher's name and is itself gone from the disk;  *)
(* a launcher that was itself started from UpdateTemp.exe is the exception *)
(* (LauncherUpdateCoordinator.cpp:326-356, RebornLauncher.cpp:507-556).    *)
UpdateEnds ==
  \A b \in Build :
    (\E p \in Proc : /\ step[p] = "handover" /\ image[p] # Home(Temp)
                     /\ quiet /\ file[Home(Temp)] = b)
      ~> \/ ~quiet
         \/ Settled /\ file[Home(Canonical)] = b /\ file[Home(Temp)] = Absent

(* Undisturbed, a launcher started anywhere else ends up running from the  *)
(* install directory under its canonical name, and the copy it was started *)
(* from is deleted; unless it had another name the desktop's shortcut      *)
(* leads to it (RebornLauncher.cpp:558-602).                               *)
RelocationEnds ==
  \A n \in Name :
    (\E p \in Proc : step[p] = "boot" /\ image[p] = <<"out", n>> /\ quiet)
      ~> \/ ~quiet
         \/ /\ Settled /\ \A q \in {<<"out", n>>, Home(n)} \ {Home(Canonical)} : file[q] = Absent
            /\ shortcut = Home(n)

(* Threads and processes go on; deletions are retried for 2 or 4 s and     *)
(* waits for a terminated process take 5 s at most.  Nobody has to dismiss *)
(* a box, start a launcher, or publish.                                    *)
Fairness == \A p \in Proc : WF_vars(RelayStep(p) \/ (step[p] # "box" /\ Exits(p)))
=============================================================================
