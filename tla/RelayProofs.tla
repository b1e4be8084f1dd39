------------------------------ MODULE RelayProofs ------------------------------
(***************************************************************************)
(* Proofs about Relay, for any set of processes, names and builds.         *)
(***************************************************************************)
EXTENDS Relay, TLAPS

(* The places the actions name.                                            *)
LEMMA Places ==
  /\ Home(Temp) \in Place /\ <<"out", Temp>> \in Place /\ Home(Canonical) \in Place
  /\ Home(Canonical) # Home(Temp) /\ NoPlace \notin Place /\ Home(Temp) # <<"out", Temp>>
  /\ Absent \notin Build /\ Cut \notin Build
  /\ \A q \in Place : /\ NameOf(q) \in Name /\ Dir(q) \in {"home", "out"}
                      /\ Home(NameOf(q)) \in Place /\ <<Dir(q), Canonical>> \in Place
                      /\ <<Dir(q), Canonical>> \notin {Home(Temp), <<"out", Temp>>}
                      /\ Home(NameOf(q)) # <<"out", Temp>>
                      /\ Dir(q) # "home" /\ q # <<"out", Temp>> => Home(NameOf(q)) # Home(Temp)
  BY NamesOK, BuildsOK DEF Place, Home, Dir, NameOf

-----------------------------------------------------------------------------
(* Types.                                                                  *)
LEMMA DeleteTypes ==
  ASSUME TypeOK, NEW q, DeleteFileWithRetry(q)
  PROVE  file' \in [Place -> Build \cup {Absent, Cut}]
  BY DEF TypeOK, DeleteFileWithRetry

LEMMA RelocatesTypes ==
  ASSUME TypeOK, NEW p \in Proc, image[p] \in Place, Relocates(p)
  PROVE  /\ target' \in [Proc -> Place \cup {NoPlace}]
         /\ \E s \in {"guard", "clear"} : Goes(p, s)
  BY Places DEF TypeOK, Relocates, Goes

LEMMA GoneTypes ==
  ASSUME TypeOK, NEW p \in Proc, Gone(p),
         UNCHANGED <<file, shortcut, offered, promoted>>, quiet' \in BOOLEAN
  PROVE  TypeOK'
  BY BuildsOK DEF TypeOK, Gone, Goes, Build

LEMMA BootsTypes ==
  ASSUME TypeOK, NEW n \in Proc, NEW q \in Place, NEW c \in Place \cup {NoPlace},
         NEW v \in Proc, Boots(n, q, c, v)
  PROVE  /\ image' \in [Proc -> Place \cup {NoPlace}]
         /\ cleanup' \in [Proc -> Place \cup {NoPlace}]
         /\ victim' \in [Proc -> Proc]
  BY DEF Boots, TypeOK

LEMMA TypeStep ==
  ASSUME IInv, [Next]_vars
  PROVE  TypeOK'
  <1> USE DEF IInv
  <1> USE Places
  <1>1. ASSUME NEW p \in Proc, NoRelay(p) PROVE TypeOK'
    <2>1. image[p] \in Place  BY <1>1 DEF NoRelay, ImagesWhole, Running
    <2> QED  BY <1>1, <2>1, RelocatesTypes DEF NoRelay, TypeOK, Goes
  <1>2. ASSUME NEW p \in Proc, TerminateVictim(p) PROVE TypeOK'
    <2>1. CASE Gone(victim[p]) /\ UNCHANGED quiet
      <3>1. victim[p] \in Proc  BY DEF TypeOK
      <3> QED  BY <1>2, <2>1, <3>1, GoneTypes DEF TerminateVictim, TypeOK
    <2>2. CASE /\ Goes(p, "cleanup") /\ quiet' \in BOOLEAN
               /\ UNCHANGED <<image, cleanup, victim, target, want>>
      BY <1>2, <2>2 DEF TerminateVictim, TypeOK, Goes
    <2> QED  BY <1>2, <2>1, <2>2 DEF TerminateVictim, TypeOK
  <1>3. ASSUME NEW p \in Proc, DeleteOld(p) PROVE TypeOK'
    <2>1. image[p] \in Place  BY <1>3 DEF DeleteOld, ImagesWhole, Running
    <2>2. file' \in [Place -> Build \cup {Absent, Cut}]  BY <1>3, DeleteTypes DEF DeleteOld
    <2>3. CASE Relocates(p)  BY <1>3, <2>1, <2>2, <2>3, RelocatesTypes DEF DeleteOld, TypeOK, Goes
    <2>4. CASE Goes(p, "clear") /\ target' = [target EXCEPT ![p] = <<Dir(image[p]), Canonical>>]
      BY <1>3, <2>1, <2>2, <2>4 DEF DeleteOld, TypeOK, Goes
    <2> QED  BY <1>3, <2>3, <2>4 DEF DeleteOld
  <1>4. ASSUME NEW p \in Proc, ClearTarget(p) PROVE TypeOK'
    BY <1>4, DeleteTypes DEF ClearTarget, TypeOK, Goes
  <1>5. ASSUME NEW p \in Proc, CopySelf(p) PROVE TypeOK'
    BY <1>5 DEF CopySelf, TypeOK, Goes, Fails
  <1>6. ASSUME NEW p \in Proc, CopyEnds(p) PROVE TypeOK'
    <2>1. image[p] \in Place /\ file[image[p]] \in Build /\ target[p] \in Place
      BY <1>6 DEF CopyEnds, ImagesWhole, Running, TargetsNamed
    <2>2. /\ file' \in [Place -> Build \cup {Absent, Cut}]
          /\ promoted' \in Build \cup {0} /\ shortcut' \in Place \cup {NoPlace}
      BY <1>6, <2>1 DEF CopyEnds, TypeOK
    <2>3. \E s \in {"launch", "box"} : step' = [step EXCEPT ![p] = s]
      BY <1>6 DEF CopyEnds, Goes, Fails
    <2>4. quiet' \in BOOLEAN  BY <1>6 DEF CopyEnds, Fails, TypeOK
    <2>5. step' \in [Proc -> {"off", "boot", "cleanup", "clear", "copy", "copying", "launch",
                        "leaving", "guard", "main", "sync", "fetching", "handover",
                        "stopping", "box"}]
      BY <2>3 DEF TypeOK
    <2>6. UNCHANGED <<image, cleanup, victim, target, want, offered>>  BY <1>6 DEF CopyEnds
    <2> QED  BY <2>2, <2>4, <2>5, <2>6 DEF TypeOK
  <1>7. ASSUME NEW p \in Proc, LaunchTarget(p) PROVE TypeOK'
    <2>1. image[p] \in Place  /\ target[p] \in Place
      BY <1>7 DEF LaunchTarget, ImagesWhole, Running, TargetsNamed
    <2>2. ASSUME NEW n \in Proc, Boots(n, target[p], image[p], p),
                 step' = [step EXCEPT ![n] = "boot", ![p] = "leaving"], UNCHANGED quiet
          PROVE TypeOK'
      BY <1>7, <2>1, <2>2, BootsTypes DEF LaunchTarget, TypeOK
    <2>3. CASE Fails(p) /\ UNCHANGED <<image, cleanup, victim>>
      BY <1>7, <2>3 DEF LaunchTarget, TypeOK, Fails, Goes
    <2> QED  BY <1>7, <2>2, <2>3 DEF LaunchTarget
  <1>8. ASSUME NEW p \in Proc, CreateMutex(p) PROVE TypeOK'
    <2>1. \E s \in {"leaving", "main"} : step' = [step EXCEPT ![p] = s]
      BY <1>8 DEF CreateMutex, Goes
    <2>2. cleanup' \in [Proc -> Place \cup {NoPlace}] /\ victim' \in [Proc -> Proc]
      BY <1>8 DEF CreateMutex, TypeOK
    <2> QED  BY <1>8, <2>1, <2>2 DEF CreateMutex, TypeOK
  <1>9. ASSUME NEW p \in Proc, Fetch(p) PROVE TypeOK'
    BY <1>9 DEF Fetch, TypeOK, Goes
  <1>10. ASSUME NEW p \in Proc, FetchEnds(p) PROVE TypeOK'
    <2>1. file' \in [Place -> Build \cup {Absent, Cut}]
      BY <1>10 DEF FetchEnds, TypeOK
    <2>2. 1 \in Build  BY BuildsOK DEF Build
    <2>3. \E s \in {"handover", "main"} : step' = [step EXCEPT ![p] = s]
      BY <1>10 DEF FetchEnds, Goes
    <2>4. want' \in [Proc -> Build]  BY <1>10, <2>2 DEF FetchEnds, TypeOK
    <2>5. quiet' \in BOOLEAN  BY <1>10 DEF FetchEnds, TypeOK
    <2>6. step' \in [Proc -> {"off", "boot", "cleanup", "clear", "copy", "copying", "launch",
                        "leaving", "guard", "main", "sync", "fetching", "handover",
                        "stopping", "box"}]
      BY <2>3 DEF TypeOK
    <2>7. UNCHANGED <<image, cleanup, victim, target, shortcut, offered, promoted>>
      BY <1>10 DEF FetchEnds
    <2> QED  BY <2>1, <2>4, <2>5, <2>6, <2>7 DEF TypeOK
  <1>11. ASSUME NEW p \in Proc, HandleSelfUpdateAndExit(p) PROVE TypeOK'
    <2>1. image[p] \in Place
      BY <1>11 DEF HandleSelfUpdateAndExit, ImagesWhole, Running
    <2>2. ASSUME NEW n \in Proc, Boots(n, Home(Temp), image[p], p),
                 step' = [step EXCEPT ![n] = "boot", ![p] = "stopping"], UNCHANGED quiet
          PROVE TypeOK'
      BY <1>11, <2>1, <2>2, BootsTypes DEF HandleSelfUpdateAndExit, TypeOK
    <2>3. CASE Goes(p, "main") /\ quiet' = FALSE /\ UNCHANGED <<image, cleanup, victim>>
      BY <1>11, <2>3 DEF HandleSelfUpdateAndExit, TypeOK, Goes
    <2> QED  BY <1>11, <2>2, <2>3 DEF HandleSelfUpdateAndExit
  <1>12. ASSUME NEW p \in Proc, Refresh(p) PROVE TypeOK'
    BY <1>12 DEF Refresh, TypeOK, Goes
  <1>13. ASSUME NEW p \in Proc, Exits(p) \/ Kill(p) PROVE TypeOK'
    BY <1>13, GoneTypes DEF Exits, Kill, TypeOK
  <1>14. ASSUME NEW p \in Proc, Start(p) PROVE TypeOK'
    BY <1>14 DEF Start, Boots, TypeOK, Goes
  <1>15. CASE Publish  BY <1>15, BuildsOK DEF Publish, process, TypeOK, Build
  <1>16. CASE UNCHANGED vars  BY <1>16 DEF vars, process, TypeOK
  <1> QED  BY <1>1, <1>2, <1>3, <1>4, <1>5, <1>6, <1>7, <1>8, <1>9, <1>10, <1>11, <1>12,
              <1>13, <1>14, <1>15, <1>16 DEF Next, RelayStep

-----------------------------------------------------------------------------
(* What a file operation may do to the image of a running process: nothing. *)
LEMMA DeleteKeeps ==
  ASSUME TypeOK, NEW q, DeleteFileWithRetry(q), NEW r \in Place
  PROVE  /\ InUse(r) => file'[r] = file[r]
         /\ file'[r] \in {file[r], Absent}
  BY DEF DeleteFileWithRetry, TypeOK

LEMMA ImagesKept ==
  ASSUME IInv, [Next]_vars, NEW r \in Proc, Running(r)
  PROVE  image[r] \in Place /\ file[image[r]] \in Build /\ file'[image[r]] = file[image[r]]
  <1> USE DEF IInv
  <1> USE Places
  <1>1. image[r] \in Place /\ file[image[r]] \in Build /\ InUse(image[r])
    BY DEF ImagesWhole, InUse
  <1>2. ASSUME NEW p \in Proc, DeleteOld(p) PROVE file'[image[r]] = file[image[r]]
    BY <1>1, <1>2, DeleteKeeps DEF DeleteOld
  <1>3. ASSUME NEW p \in Proc, ClearTarget(p) PROVE file'[image[r]] = file[image[r]]
    BY <1>1, <1>3, DeleteKeeps DEF ClearTarget
  <1>4. ASSUME NEW p \in Proc, CopySelf(p) PROVE file'[image[r]] = file[image[r]]
    <2>1. CASE ~InUse(target[p]) /\ file' = [file EXCEPT ![target[p]] = Cut]
      <3>1. target[p] # image[r]  BY <1>1, <2>1
      <3> QED  BY <1>1, <2>1, <3>1 DEF TypeOK
    <2> QED  BY <1>4, <2>1 DEF CopySelf
  <1>5. ASSUME NEW p \in Proc, CopyEnds(p) PROVE file'[image[r]] = file[image[r]]
    <2>1. target[p] # image[r]  BY <1>1, <1>5 DEF CopyEnds, Exclusive
    <2>2. \E f : file' = [file EXCEPT ![target[p]] = f]  BY <1>5 DEF CopyEnds
    <2> QED  BY <1>1, <2>1, <2>2 DEF TypeOK
  <1>6. ASSUME NEW p \in Proc, Fetch(p) PROVE file'[image[r]] = file[image[r]]
    <2>1. CASE ~InUse(Home(Temp)) /\ file' = [file EXCEPT ![Home(Temp)] = Cut]
      <3>1. Home(Temp) # image[r]  BY <1>1, <2>1
      <3> QED  BY <1>1, <2>1, <3>1 DEF TypeOK
    <2> QED  BY <1>6, <2>1 DEF Fetch
  <1>7. ASSUME NEW p \in Proc, FetchEnds(p) PROVE file'[image[r]] = file[image[r]]
    <2>1. Home(Temp) # image[r]  BY <1>1, <1>7 DEF FetchEnds, Exclusive
    <2>2. \E f : file' = [file EXCEPT ![Home(Temp)] = f]  BY <1>7 DEF FetchEnds
    <2> QED  BY <1>1, <2>1, <2>2 DEF TypeOK
  <1>8. ASSUME NEW p \in Proc,
               \/ NoRelay(p) \/ TerminateVictim(p) \/ LaunchTarget(p) \/ CreateMutex(p)
               \/ HandleSelfUpdateAndExit(p) \/ Refresh(p) \/ Exits(p) \/ Kill(p) \/ Start(p)
        PROVE UNCHANGED file
    BY <1>8 DEF NoRelay, TerminateVictim, LaunchTarget, CreateMutex, HandleSelfUpdateAndExit,
       Refresh, Exits, Kill, Start
  <1>9. CASE Publish \/ UNCHANGED vars  BY <1>1, <1>9 DEF Publish, vars
  <1> QED  BY <1>1, <1>2, <1>3, <1>4, <1>5, <1>6, <1>7, <1>8, <1>9 DEF Next, RelayStep

(* A step either belongs to a running process or leaves the files alone.   *)
LEMMA LauncherStep ==
  ASSUME IInv, [Next]_vars
  PROVE  LauncherLeft'
  <1>1. CASE \E r \in Proc : Running(r)
    <2>1. PICK r \in Proc : Running(r)  BY <1>1
    <2> QED  BY <2>1, ImagesKept DEF LauncherLeft
  <1>2. CASE \A r \in Proc : ~Running(r)
    <2>1. UNCHANGED file
      BY <1>2 DEF Next, RelayStep, Running, NoRelay, TerminateVictim, DeleteOld, ClearTarget,
         CopySelf, CopyEnds, LaunchTarget, CreateMutex, Fetch, FetchEnds,
         HandleSelfUpdateAndExit, Refresh, Exits, Kill, Start, Publish, vars
    <2> QED  BY <2>1 DEF IInv, LauncherLeft
  <1> QED  BY <1>1, <1>2
-----------------------------------------------------------------------------
(* What a step does to the processes it does not concern.                  *)
LEMMA GoneLeaves ==
  ASSUME TypeOK, NEW p \in Proc, Gone(p), NEW r \in Proc
  PROVE  /\ r # p => /\ step'[r] = step[r] /\ image'[r] = image[r]
                     /\ target'[r] = target[r] /\ want'[r] = want[r]
         /\ r = p => step'[r] = "off" /\ target'[r] = NoPlace
  BY DEF Gone, Goes, TypeOK

LEMMA ImagesStep ==
  ASSUME IInv, [Next]_vars
  PROVE  ImagesWhole'
  <1> SUFFICES ASSUME NEW r \in Proc, Running(r)'
               PROVE  image'[r] \in Place /\ file'[image'[r]] \in Build
    BY DEF ImagesWhole
  <1> USE Places DEF IInv
  <1>1. CASE Running(r) /\ image'[r] = image[r]
    BY <1>1, ImagesKept
  <1>2. ASSUME NEW q \in Place, NEW c, NEW v, NEW n \in Proc, Boots(n, q, c, v),
               UNCHANGED file, r = n
        PROVE image'[r] \in Place /\ file'[image'[r]] \in Build
    BY <1>2 DEF Boots, TypeOK
  <1>3. ASSUME NEW p \in Proc, Gone(p) PROVE Running(r) /\ image'[r] = image[r]
    BY <1>3, GoneLeaves DEF Running
  <1>4. ASSUME NEW q \in Place, NEW c, NEW v, NEW n \in Proc, Boots(n, q, c, v), r # n,
               NEW p \in Proc, NEW s, Running(p),
               step' = [step EXCEPT ![n] = "boot", ![p] = s]
        PROVE Running(r) /\ image'[r] = image[r]
    BY <1>4 DEF Boots, TypeOK, Running
  <1>5. ASSUME NEW p \in Proc, NEW s, Goes(p, s), Running(p), UNCHANGED image
        PROVE Running(r) /\ image'[r] = image[r]
    BY <1>5 DEF Goes, TypeOK, Running
  <1>6. ASSUME NEW p \in Proc, NoRelay(p) \/ DeleteOld(p) \/ ClearTarget(p) \/ CopySelf(p)
               \/ CopyEnds(p) \/ CreateMutex(p) \/ Fetch(p) \/ FetchEnds(p) \/ Refresh(p)
        PROVE /\ Running(p) /\ UNCHANGED image
              /\ \E s : Goes(p, s)
    BY <1>6 DEF NoRelay, DeleteOld, ClearTarget, CopySelf, CopyEnds, CreateMutex, Fetch,
       FetchEnds, Refresh, Running, Relocates, Fails
  <1>7. ASSUME NEW p \in Proc, TerminateVictim(p)
        PROVE image'[r] \in Place /\ file'[image'[r]] \in Build
    <2>1. victim[p] \in Proc  BY DEF TypeOK
    <2>2. CASE Gone(victim[p])  BY <2>1, <2>2, <1>3, <1>1
    <2>3. CASE Goes(p, "cleanup") /\ UNCHANGED image
      <3>1. Running(p)  BY <1>7 DEF TerminateVictim, Running
      <3> QED  BY <2>3, <3>1, <1>5, <1>1
    <2> QED  BY <1>7, <2>2, <2>3 DEF TerminateVictim
  <1>8. ASSUME NEW p \in Proc, LaunchTarget(p)
        PROVE image'[r] \in Place /\ file'[image'[r]] \in Build
    <2>1. Running(p) /\ target[p] \in Place /\ UNCHANGED file
      BY <1>8 DEF LaunchTarget, Running, TargetsNamed
    <2>2. ASSUME NEW n \in Proc, Boots(n, target[p], image[p], p),
                 step' = [step EXCEPT ![n] = "boot", ![p] = "leaving"]
          PROVE image'[r] \in Place /\ file'[image'[r]] \in Build
      BY <2>1, <2>2, <1>1, <1>2, <1>4
    <2>3. CASE Goes(p, "box") /\ UNCHANGED image
      BY <2>1, <2>3, <1>5, <1>1
    <2> QED  BY <1>8, <2>2, <2>3 DEF LaunchTarget, Fails
  <1>9. ASSUME NEW p \in Proc, HandleSelfUpdateAndExit(p)
        PROVE image'[r] \in Place /\ file'[image'[r]] \in Build
    <2>1. Running(p) /\ UNCHANGED file
      BY <1>9 DEF HandleSelfUpdateAndExit, Running
    <2>2. ASSUME NEW n \in Proc, Boots(n, Home(Temp), image[p], p),
                 step' = [step EXCEPT ![n] = "boot", ![p] = "stopping"]
          PROVE image'[r] \in Place /\ file'[image'[r]] \in Build
      BY <2>1, <2>2, <1>1, <1>2, <1>4
    <2>3. CASE Goes(p, "main") /\ UNCHANGED image
      BY <2>1, <2>3, <1>5, <1>1
    <2> QED  BY <1>9, <2>2, <2>3 DEF HandleSelfUpdateAndExit
  <1>10. ASSUME NEW p \in Proc, Start(p)
         PROVE image'[r] \in Place /\ file'[image'[r]] \in Build
    <2>1. PICK q \in Place : Boots(p, q, NoPlace, p)  BY <1>10 DEF Start
    <2>2. UNCHANGED file  BY <1>10 DEF Start
    <2>3. CASE r = p  BY <1>2, <2>1, <2>2, <2>3
    <2>4. CASE r # p
      <3>1. Running(r) /\ image'[r] = image[r]
        BY <1>10, <2>1, <2>4 DEF Start, Goes, Boots, TypeOK, Running
      <3> QED  BY <3>1, <1>1
    <2> QED  BY <2>3, <2>4
  <1>11. ASSUME NEW p \in Proc, Exits(p) \/ Kill(p)
         PROVE image'[r] \in Place /\ file'[image'[r]] \in Build
    BY <1>11, <1>3, <1>1 DEF Exits, Kill
  <1>12. CASE Publish \/ UNCHANGED vars
    BY <1>12, <1>1 DEF Publish, vars, process, Running
  <1>13. ASSUME NEW p \in Proc, NoRelay(p) \/ DeleteOld(p) \/ ClearTarget(p) \/ CopySelf(p)
               \/ CopyEnds(p) \/ CreateMutex(p) \/ Fetch(p) \/ FetchEnds(p) \/ Refresh(p)
         PROVE image'[r] \in Place /\ file'[image'[r]] \in Build
    BY <1>13, <1>6, <1>5, <1>1
  <1> QED  BY <1>7, <1>8, <1>9, <1>10, <1>11, <1>12, <1>13 DEF Next, RelayStep

-----------------------------------------------------------------------------
(* A process past its boot stays where it is or moves by a step of its own, *)
(* by which no other one moves.                                             *)
Own(p) == \/ NoRelay(p) \/ DeleteOld(p) \/ ClearTarget(p) \/ CopySelf(p) \/ CopyEnds(p)
          \/ CreateMutex(p) \/ Fetch(p) \/ FetchEnds(p) \/ Refresh(p)
          \/ HandleSelfUpdateAndExit(p)

Past == {"clear", "copy", "copying", "launch"} \cup HoldsMutex

Stays(r) == step'[r] = step[r] /\ target'[r] = target[r] /\ want'[r] = want[r]

LEMMA Moves ==
  ASSUME IInv, [Next]_vars
  PROVE  \/ /\ \A r \in Proc : /\ step'[r] \in Past => Stays(r)
                               /\ target'[r] \in {target[r], NoPlace}
            /\ UNCHANGED <<file, promoted>> /\ offered <= offered'
         \/ \E p \in Proc : /\ Own(p)
                            /\ \A r \in Proc \ {p} : /\ step'[r] \in Past => Stays(r)
                                                    /\ target'[r] = target[r]
  <1> USE DEF IInv
  <1> DEFINE Quiet == /\ \A r \in Proc : /\ step'[r] \in Past => Stays(r)
                                         /\ target'[r] \in {target[r], NoPlace}
                      /\ UNCHANGED <<file, promoted>> /\ offered <= offered'
  <1>0. offered <= offered  BY DEF TypeOK, Build
  <1>1. ASSUME NEW p \in Proc, NEW s, Goes(p, s), UNCHANGED <<target, want>>,
               NEW r \in Proc \ {p}
        PROVE Stays(r)
    BY <1>1 DEF Goes, TypeOK, Stays
  <1>2. ASSUME NEW p \in Proc, Own(p)
        PROVE \A r \in Proc \ {p} : /\ step'[r] \in Past => Stays(r)
                                   /\ target'[r] = target[r]
    <2>1. CASE NoRelay(p) \/ DeleteOld(p)
      BY <2>1 DEF NoRelay, DeleteOld, Relocates, Goes, Stays, TypeOK
    <2>2. CASE \/ ClearTarget(p) \/ CopySelf(p) \/ CopyEnds(p) \/ CreateMutex(p) \/ Fetch(p)
      BY <2>2, <1>1 DEF ClearTarget, CopySelf, CopyEnds, CreateMutex, Fetch, Fails
    <2>3. CASE FetchEnds(p) \/ Refresh(p)
      BY <2>3 DEF FetchEnds, Refresh, Goes, Stays, TypeOK
    <2>4. CASE HandleSelfUpdateAndExit(p)
      BY <2>4, <1>1 DEF HandleSelfUpdateAndExit, Boots, Goes, Stays, TypeOK, Past, HoldsMutex
    <2> QED  BY <1>2, <2>1, <2>2, <2>3, <2>4 DEF Own
  <1>3. ASSUME NEW p \in Proc, Gone(p), UNCHANGED <<file, promoted, offered>> PROVE Quiet
    BY <1>0, <1>3, GoneLeaves DEF Past, HoldsMutex, Stays
  <1>4. ASSUME NEW p \in Proc, TerminateVictim(p) PROVE Quiet
    <2>1. victim[p] \in Proc  BY DEF TypeOK
    <2>2. CASE Gone(victim[p])  BY <1>3, <1>4, <2>1, <2>2 DEF TerminateVictim
    <2>3. CASE Goes(p, "cleanup") /\ UNCHANGED <<image, cleanup, victim, target, want>>
      BY <1>0, <1>4, <2>3 DEF TerminateVictim, Goes, TypeOK, Past, HoldsMutex, Stays
    <2> QED  BY <1>4, <2>2, <2>3 DEF TerminateVictim
  <1>5. ASSUME NEW p \in Proc, LaunchTarget(p) PROVE Quiet
    <2>1. UNCHANGED <<file, target, want, promoted, offered>>  BY <1>5 DEF LaunchTarget
    <2>2. ASSUME NEW r \in Proc, step'[r] \in Past PROVE step'[r] = step[r]
      BY <1>5, <2>2 DEF LaunchTarget, Boots, Fails, Goes, TypeOK, Past, HoldsMutex
    <2> QED  BY <1>0, <2>1, <2>2 DEF Stays
  <1>6. ASSUME NEW p \in Proc, Exits(p) \/ Kill(p) PROVE Quiet
    BY <1>3, <1>6 DEF Exits, Kill
  <1>7. ASSUME NEW p \in Proc, Start(p) PROVE Quiet
    BY <1>0, <1>7 DEF Start, Goes, TypeOK, Past, HoldsMutex, Stays
  <1>8. CASE Publish \/ UNCHANGED vars
    BY <1>0, <1>8 DEF Publish, vars, process, Stays, TypeOK, Build
  <1> QED  BY <1>2, <1>4, <1>5, <1>6, <1>7, <1>8 DEF Next, RelayStep, Own

\* Where the steps that matter lead, and what they do to a place r.
LEMMA OwnSteps ==
  ASSUME IInv, NEW p \in Proc, Own(p), NEW r \in Place
  PROVE  /\ file'[r] # file[r] =>
              \/ file'[r] = Absent /\ ~InUse(r)
              \/ CopySelf(p) /\ ~InUse(r) /\ r = target[p] /\ file'[r] = Cut
              \/ CopyEnds(p) /\ r = target[p]
              \/ Fetch(p) /\ ~InUse(r) /\ r = Home(Temp) /\ file'[r] = Cut
              \/ FetchEnds(p) /\ r = Home(Temp) /\ file'[r] \in {want[p], Absent, Cut}
         /\ offered' = offered
         /\ promoted' # promoted =>
              CopyEnds(p) /\ image[p] = Home(Temp) /\ promoted' = file[Home(Temp)]
  <1> USE DEF IInv
  <1>1. CASE NoRelay(p) \/ CreateMutex(p) \/ Refresh(p) \/ HandleSelfUpdateAndExit(p)
    BY <1>1 DEF NoRelay, CreateMutex, Refresh, HandleSelfUpdateAndExit
  <1>2. CASE DeleteOld(p)
    BY <1>2 DEF DeleteOld, DeleteFileWithRetry, TypeOK
  <1>3. CASE ClearTarget(p)
    BY <1>3 DEF ClearTarget, DeleteFileWithRetry, TypeOK
  <1>4. CASE CopySelf(p)
    BY <1>4 DEF CopySelf, TypeOK
  <1>5. CASE CopyEnds(p)
    <2>1. \E f : file' = [file EXCEPT ![target[p]] = f]  BY <1>5 DEF CopyEnds
    <2>2. UNCHANGED offered  BY <1>5 DEF CopyEnds
    <2>3. promoted' # promoted => image[p] = Home(Temp) /\ promoted' = file[Home(Temp)]
      BY <1>5 DEF CopyEnds
    <2> QED  BY <1>5, <2>1, <2>2, <2>3 DEF TypeOK
  <1>6. CASE Fetch(p)
    BY <1>6 DEF Fetch, TypeOK
  <1>7. CASE FetchEnds(p)
    <2>1. \E f \in {want[p], Absent, Cut} : file' = [file EXCEPT ![Home(Temp)] = f]
      BY <1>7 DEF FetchEnds
    <2>2. UNCHANGED <<offered, promoted>>  BY <1>7 DEF FetchEnds
    <2> QED  BY <1>7, <2>1, <2>2 DEF TypeOK
  <1> QED  BY <1>1, <1>2, <1>3, <1>4, <1>5, <1>6, <1>7 DEF Own

\* Where the process that moves comes from.
LEMMA OwnMoves ==
  ASSUME IInv, NEW p \in Proc, Own(p)
  PROVE  /\ step'[p] = "clear" => target'[p] \in Place \ {Home(Temp), <<"out", Temp>>}
         /\ step'[p] \in {"copy", "copying", "launch"} =>
              target'[p] = target[p] /\ step[p] \in {"clear", "copy", "copying"}
         /\ step'[p] = "copying" => CopySelf(p) /\ ~InUse(target[p]) /\ file'[target[p]] = Cut
         /\ step'[p] = "fetching" => Fetch(p) /\ file'[Home(Temp)] = Cut
         /\ step'[p] = "sync" => want'[p] = offered /\ step[p] = "main" /\ UNCHANGED file
         /\ step'[p] \in HoldsMutex =>
              step[p] \in HoldsMutex \/ \A o \in Proc : step[o] \notin HoldsMutex
         /\ target'[p] = target[p] \/ target'[p] \in Place \ {Home(Temp), <<"out", Temp>>}
  <1> USE Places DEF IInv
  <1>1. image[p] \in Place /\ image[p] # <<"out", Temp>>
    BY DEF ImagesWhole, TargetsNamed, Running, Own, NoRelay, DeleteOld, ClearTarget, CopySelf,
       CopyEnds, CreateMutex, Fetch, FetchEnds, Refresh, HandleSelfUpdateAndExit
  <1>2. CASE NoRelay(p) \/ DeleteOld(p)
    <2>1. CASE Relocates(p)
      <3>1. CASE Goes(p, "guard") /\ UNCHANGED target
        BY <3>1 DEF Goes, TypeOK, HoldsMutex
      <3>2. CASE /\ Dir(image[p]) # "home" /\ Goes(p, "clear")
                 /\ target' = [target EXCEPT ![p] = Home(NameOf(image[p]))]
        <4>1. Home(NameOf(image[p])) \in Place \ {Home(Temp), <<"out", Temp>>}
          BY <1>1, <3>2
        <4> QED  BY <3>2, <4>1 DEF Goes, TypeOK, HoldsMutex
      <3> QED  BY <2>1, <3>1, <3>2 DEF Relocates
    <2>2. CASE Goes(p, "clear") /\ target' = [target EXCEPT ![p] = <<Dir(image[p]), Canonical>>]
      BY <1>1, <2>2 DEF Goes, TypeOK, HoldsMutex
    <2> QED  BY <1>2, <2>1, <2>2 DEF NoRelay, DeleteOld
  <1>3. CASE ClearTarget(p)
    BY <1>3 DEF ClearTarget, Goes, TypeOK, HoldsMutex
  <1>4. CASE CopySelf(p)
    <2>1. target[p] \in Place  BY <1>4 DEF CopySelf, TargetsNamed
    <2> QED  BY <1>4, <2>1 DEF CopySelf, Goes, Fails, TypeOK, HoldsMutex
  <1>5. CASE CopyEnds(p)
    <2>1. step[p] = "copying" /\ UNCHANGED target /\ \E s \in {"launch", "box"} : Goes(p, s)
      BY <1>5 DEF CopyEnds, Fails
    <2> QED  BY <2>1 DEF Goes, TypeOK, HoldsMutex
  <1>6. CASE CreateMutex(p)
    BY <1>6 DEF CreateMutex, Goes, TypeOK, HoldsMutex
  <1>7. CASE Fetch(p)
    BY <1>7 DEF Fetch, Goes, TypeOK, HoldsMutex
  <1>8. CASE FetchEnds(p)
    <2>1. step[p] = "fetching" /\ UNCHANGED target /\ \E s \in {"handover", "main"} : Goes(p, s)
      BY <1>8 DEF FetchEnds
    <2> QED  BY <2>1 DEF Goes, TypeOK, HoldsMutex
  <1>9. CASE Refresh(p)
    BY <1>9 DEF Refresh, Goes, TypeOK, HoldsMutex
  <1>10. CASE HandleSelfUpdateAndExit(p)
    <2>1. step[p] = "handover" /\ UNCHANGED target  BY <1>10 DEF HandleSelfUpdateAndExit
    <2>2. step'[p] \in {"boot", "stopping", "main"}
      BY <1>10 DEF HandleSelfUpdateAndExit, Boots, Goes, TypeOK
    <2> QED  BY <2>1, <2>2 DEF HoldsMutex
  <1> QED  BY <1>2, <1>3, <1>4, <1>5, <1>6, <1>7, <1>8, <1>9, <1>10 DEF Own

-----------------------------------------------------------------------------
LEMMA TargetsStep ==
  ASSUME IInv, [Next]_vars
  PROVE  TargetsNamed'
  <1> USE Places DEF IInv
  <1> DEFINE Good == Place \ {Home(Temp), <<"out", Temp>>}
             Aim == {"clear", "copy", "copying", "launch"}
  <1>1. \A r \in Proc : /\ target[r] \notin {Home(Temp), <<"out", Temp>>}
                        /\ step[r] \in Aim => target[r] \in Good
    BY DEF TargetsNamed
  <1>2. CASE /\ \A r \in Proc : /\ step'[r] \in Past => Stays(r)
                               /\ target'[r] \in {target[r], NoPlace}
             /\ UNCHANGED file
    <2>1. \A r \in Proc : target'[r] \notin {Home(Temp), <<"out", Temp>>}
      BY <1>1, <1>2
    <2>2. \A r \in Proc : step'[r] \in Aim => target'[r] \in Place
      BY <1>1, <1>2 DEF Past, Stays
    <2> QED  BY <1>2, <2>1, <2>2 DEF TargetsNamed
  <1>3. ASSUME NEW p \in Proc, Own(p),
               \A r \in Proc \ {p} : /\ step'[r] \in Past => Stays(r)
                                    /\ target'[r] = target[r]
        PROVE TargetsNamed'
    <2>1. file'[<<"out", Temp>>] = Absent
      BY <1>1, <1>3, OwnSteps DEF CopySelf, CopyEnds, TargetsNamed
    <2>2. target'[p] = target[p] \/ target'[p] \in Good  BY <1>3, OwnMoves
    <2>3. step'[p] \in Aim => target'[p] \in Place  BY <1>1, <1>3, OwnMoves
    <2>4. \A r \in Proc : target'[r] \notin {Home(Temp), <<"out", Temp>>}
      BY <1>1, <1>3, <2>2
    <2>5. \A r \in Proc : step'[r] \in Aim => target'[r] \in Place
      BY <1>1, <1>3, <2>3 DEF Past, Stays
    <2> QED  BY <2>1, <2>4, <2>5 DEF TargetsNamed
  <1> QED  BY <1>2, <1>3, Moves

\* What a process writes to or runs from is its own.
LEMMA ExclusiveStep ==
  ASSUME IInv, [Next]_vars
  PROVE  Exclusive'
  <1> USE Places DEF IInv
  <1>1. ASSUME \A r \in Proc : step'[r] \in Past => Stays(r), UNCHANGED file
        PROVE Exclusive'
    <2>1. \A r \in Proc : step'[r] \in HoldsMutex => step[r] = step'[r]
      BY <1>1 DEF Past, Stays
    <2>2. \A r \in Proc : step'[r] = "copying" => step[r] = "copying" /\ target'[r] = target[r]
      BY <1>1 DEF Past, Stays
    <2>3. "fetching" \in HoldsMutex  BY DEF HoldsMutex
    <2> QED  BY <1>1, <2>1, <2>2, <2>3 DEF Exclusive
  <1>2. ASSUME NEW p \in Proc, Own(p),
               \A r \in Proc \ {p} : step'[r] \in Past => Stays(r)
        PROVE Exclusive'
    <2>1. \A r \in Proc \ {p} :
            /\ step'[r] \in HoldsMutex => step[r] = step'[r]
            /\ step'[r] = "copying" => step[r] = "copying" /\ target'[r] = target[r]
      BY <1>2 DEF Past, Stays
    <2>2. ASSUME NEW r \in Proc, step'[r] = "copying" PROVE file'[target'[r]] = Cut
      <3>1. CASE r = p  BY <1>2, <2>2, <3>1, OwnMoves
      <3>2. CASE r # p
        <4>1. /\ target[r] \in Place /\ file[target[r]] = Cut /\ InUse(target[r])
              /\ target'[r] = target[r] /\ target[r] # Home(Temp)
          BY <2>1, <2>2, <3>2 DEF Exclusive, TargetsNamed, InUse
        <4>2. CopyEnds(p) => target[p] # target[r]
          BY <2>1, <2>2, <3>2 DEF CopyEnds, Exclusive
        <4> QED  BY <1>2, <4>1, <4>2, OwnSteps
      <3> QED  BY <3>1, <3>2
    <2>3. ASSUME NEW r \in Proc, NEW o \in Proc, r # o, step'[r] = "copying",
                 step'[o] = "copying"
          PROVE target'[r] # target'[o]
      <3>1. ASSUME NEW x \in Proc \ {p}, step'[x] = "copying", step'[p] = "copying"
            PROVE target'[x] # target'[p]
        <4>1. InUse(target[x]) /\ target'[x] = target[x]  BY <2>1, <3>1 DEF InUse
        <4>2. ~InUse(target[p]) /\ target'[p] = target[p]  BY <1>2, <3>1, OwnMoves
        <4> QED  BY <4>1, <4>2
      <3>2. CASE r # p /\ o # p  BY <2>1, <2>3, <3>2 DEF Exclusive
      <3> QED  BY <2>3, <3>1, <3>2
    <2>4. ASSUME NEW r \in Proc, step'[r] = "fetching" PROVE file'[Home(Temp)] = Cut
      <3>1. CASE r = p  BY <1>2, <2>4, <3>1, OwnMoves
      <3>2. CASE r # p
        <4>1. step[r] = "fetching"  BY <2>1, <2>4, <3>2 DEF HoldsMutex
        <4>2. file[Home(Temp)] = Cut /\ InUse(Home(Temp))  BY <4>1 DEF Exclusive, InUse
        <4>3. ~FetchEnds(p)  BY <3>2, <4>1 DEF FetchEnds, Exclusive, HoldsMutex
        <4>4. CopyEnds(p) => target[p] # Home(Temp)  BY DEF TargetsNamed
        <4> QED  BY <1>2, <4>2, <4>3, <4>4, OwnSteps
      <3> QED  BY <3>1, <3>2
    <2>5. ASSUME NEW r \in Proc, NEW o \in Proc, step'[r] \in HoldsMutex,
                 step'[o] \in HoldsMutex
          PROVE r = o
      <3>1. ASSUME NEW x \in Proc \ {p}, step'[x] \in HoldsMutex, step'[p] \in HoldsMutex
            PROVE FALSE
        <4>1. step[x] \in HoldsMutex  BY <2>1, <3>1
        <4>2. step[p] \in HoldsMutex  BY <1>2, <3>1, <4>1, OwnMoves
        <4> QED  BY <3>1, <4>1, <4>2 DEF Exclusive
      <3>2. CASE r # p /\ o # p  BY <2>1, <2>5, <3>2 DEF Exclusive
      <3> QED  BY <2>5, <3>1, <3>2
    <2> QED  BY <2>2, <2>3, <2>4, <2>5 DEF Exclusive
  <1> QED  BY <1>1, <1>2, Moves

LEMMA NewerStep ==
  ASSUME IInv, [Next]_vars
  PROVE  Newer'
  <1> USE Places DEF IInv
  <1>0. promoted \in Nat /\ offered \in Nat /\ Build \subseteq Nat
        /\ \A r \in Proc : want[r] \in Nat
    BY BuildsOK DEF TypeOK, Build
  <1>1. ASSUME \A r \in Proc : step'[r] \in Past => Stays(r),
               UNCHANGED <<file, promoted>>, offered <= offered'
        PROVE Newer'
    <2>1. offered' \in Nat  BY TypeStep, BuildsOK DEF TypeOK, Build
    <2>2. \A r \in Proc : step'[r] \in {"sync", "fetching"} =>
                          step'[r] = step[r] /\ want'[r] = want[r]
      BY <1>1 DEF Past, HoldsMutex, Stays
    <2> QED  BY <1>0, <1>1, <2>1, <2>2 DEF Newer
  <1>2. ASSUME NEW p \in Proc, Own(p),
               \A r \in Proc \ {p} : step'[r] \in Past => Stays(r)
        PROVE Newer'
    <2>1. UNCHANGED offered  BY <1>2, OwnSteps
    <2>2. /\ file[Home(Temp)] \in Build => promoted' <= file[Home(Temp)]
          /\ promoted' \in promoted .. offered
          /\ \A r \in Proc : step[r] \in {"sync", "fetching"} => promoted' <= want[r]
      <3>1. CASE promoted' = promoted  BY <1>0, <3>1 DEF Newer
      <3>2. CASE CopyEnds(p) /\ image[p] = Home(Temp) /\ promoted' = file[Home(Temp)]
        <4>1. file[Home(Temp)] \in Build
          BY <3>2 DEF CopyEnds, ImagesWhole, Running
        <4> QED  BY <1>0, <3>2, <4>1 DEF Newer
      <3> QED  BY <1>2, <3>1, <3>2, OwnSteps
    <2>3. file'[Home(Temp)] \in Build =>
            \/ file'[Home(Temp)] = file[Home(Temp)]
            \/ FetchEnds(p) /\ file'[Home(Temp)] = want[p]
      <3>1. CopyEnds(p) => target[p] # Home(Temp)  BY DEF TargetsNamed
      <3> QED  BY <1>2, <3>1, OwnSteps
    <2>4. ASSUME NEW r \in Proc, step'[r] \in {"sync", "fetching"}
          PROVE /\ want'[r] \in promoted' .. offered
                /\ file'[Home(Temp)] \in Build => file'[Home(Temp)] <= want'[r]
      <3>1. CASE r = p /\ step'[p] = "sync"
        BY <1>0, <1>2, <2>2, <3>1, OwnMoves DEF Newer
      <3>2. CASE r = p /\ step'[p] = "fetching"
        <4>1. step[p] = "sync" /\ want'[p] = want[p] /\ file'[Home(Temp)] = Cut
          BY <1>2, <3>2, OwnMoves DEF Fetch
        <4> QED  BY <1>0, <2>2, <3>2, <4>1 DEF Newer
      <3>3. CASE r # p
        <4>1. step[r] = step'[r] /\ want'[r] = want[r]
          BY <1>2, <2>4, <3>3 DEF Past, HoldsMutex, Stays
        <4>2. ~FetchEnds(p)
          BY <2>4, <3>3, <4>1 DEF FetchEnds, Exclusive, HoldsMutex
        <4> QED  BY <1>0, <2>2, <2>3, <2>4, <4>1, <4>2 DEF Newer
      <3> QED  BY <2>4, <3>1, <3>2, <3>3
    <2>5. file'[Home(Temp)] \in Build => file'[Home(Temp)] \in promoted' .. offered
      BY <1>0, <2>2, <2>3 DEF Newer, FetchEnds
    <2> QED  BY <1>0, <2>1, <2>2, <2>4, <2>5 DEF Newer
  <1> QED  BY <1>1, <1>2, Moves

-----------------------------------------------------------------------------
LEMMA InitIInv == Init => IInv
  <1> SUFFICES ASSUME Init PROVE IInv  OBVIOUS
  <1> USE Places, BuildsOK
  <1>1. TypeOK  BY DEF Init, TypeOK, Build
  <1>2. LauncherLeft  BY DEF Init, LauncherLeft
  <1>3. ImagesWhole /\ TargetsNamed  BY DEF Init, ImagesWhole, TargetsNamed, Running
  <1>4. Exclusive  BY DEF Init, Exclusive, HoldsMutex
  <1>5. Newer  BY DEF Init, Newer, Build
  <1> QED  BY <1>1, <1>2, <1>3, <1>4, <1>5 DEF IInv

(* Processes run from complete files that no other one touches, and        *)
(* UpdateTemp.exe is never older than what came from it before             *)
(* (RebornLauncher.cpp:340-368, 507-602).                                  *)
THEOREM Invariant == Spec => []IInv
  <1>1. IInv /\ [Next]_vars => IInv'
    BY TypeStep, LauncherStep, ImagesStep, TargetsStep, ExclusiveStep, NewerStep DEF IInv
  <1> QED  BY InitIInv, <1>1, PTL DEF Spec

(* A complete launcher is on the disk at any moment, whoever is killed     *)
(* (RebornLauncher.cpp:358-368, 522-556, 577-602).                         *)
THEOREM LauncherRemains == Spec => []LauncherLeft
  <1>1. IInv => LauncherLeft  BY DEF IInv
  <1> QED  BY Invariant, <1>1, PTL

(* What UpdateTemp.exe brings is never older than what it brought before   *)
(* (RuntimeUpdater.cpp:106-115, RebornLauncher.cpp:522-556).               *)
THEOREM NeverDowngraded == Spec => []NoDowngrade
  <1>1. IInv => NoDowngrade  BY BuildsOK DEF IInv, TypeOK, Newer, NoDowngrade, Build
  <1> QED  BY Invariant, <1>1, PTL
-----------------------------------------------------------------------------
(* Nearer, of one process.                                                 *)
Nears(r) ==
  /\ step[r] \in Aiming => Distance(target[r]) < Distance(image[r])
  /\ Running(r) /\ cleanup[r] # NoPlace =>
       image[r] = Home(Temp) \/ Distance(image[r]) < Distance(cleanup[r])

\* Where a launcher copies itself to is nearer: from outside to the install directory,
\* and from another name to the canonical one.
LEMMA Distances ==
  ASSUME NEW q \in Place
  PROVE  /\ Distance(q) \in 0 .. 3
         /\ Dir(q) # "home" => Distance(Home(NameOf(q))) < Distance(q)
         /\ NameOf(q) # Canonical => Distance(<<Dir(q), Canonical>>) < Distance(q)
<1>1. /\ Dir(Home(NameOf(q))) = "home" /\ NameOf(Home(NameOf(q))) = NameOf(q)
      /\ Dir(<<Dir(q), Canonical>>) = Dir(q) /\ NameOf(<<Dir(q), Canonical>>) = Canonical
  BY DEF Dir, NameOf, Home
<1>. QED
  BY <1>1 DEF Distance

(* A process that keeps its files and takes no new aim stays near.         *)
LEMMA NearsKept ==
  ASSUME NEW r \in Proc, Nears(r), UNCHANGED <<image[r], cleanup[r], target[r]>>,
         step[r] # "off" \/ step'[r] = "off",
         step'[r] \in Aiming => step[r] \in Aiming
  PROVE  Nears(r)'
BY DEF Nears, Running, Aiming

(* A process that is gone, or that has just been started, has no aim.      *)
LEMMA NearsGone ==
  ASSUME TypeOK, NEW p \in Proc, Gone(p), NEW r \in Proc, Nears(r)
  PROVE  Nears(r)'
<1>1. CASE r = p
  BY <1>1 DEF Gone, Goes, TypeOK, Nears, Running, Aiming
<1>2. CASE r # p
  <2>1. UNCHANGED <<image[r], cleanup[r], target[r], step[r]>>
    BY <1>2 DEF Gone, Goes, TypeOK
  <2>. QED
    BY <2>1, NearsKept
<1>. QED
  BY <1>1, <1>2

LEMMA NearsBoots ==
  ASSUME TypeOK, NEW p \in Proc, Running(p), NEW n \in Proc, NEW q \in Place, Boots(n, q, image[p], p),
         q = Home(Temp) \/ Distance(q) < Distance(image[p]),
         NEW s, s \notin Aiming, step' = [step EXCEPT ![n] = "boot", ![p] = s], UNCHANGED target,
         NEW r \in Proc, Nears(r)
  PROVE  Nears(r)'
<1>1. n # p
  BY DEF Boots
<1>2. CASE r = n
  BY <1>1, <1>2 DEF Boots, TypeOK, Nears, Aiming
<1>3. CASE r # n
  BY <1>3, NearsKept DEF Boots, TypeOK, Running
<1>. QED
  BY <1>2, <1>3

(* A new aim of the process p.                                             *)
LEMMA NearsAim ==
  ASSUME TypeOK, NEW p \in Proc, step[p] # "off", Goes(p, "clear"), UNCHANGED <<image, cleanup>>,
         NEW q \in Place, Distance(q) < Distance(image[p]), target' = [target EXCEPT ![p] = q],
         NEW r \in Proc, Nears(r)
  PROVE  Nears(r)'
BY DEF Goes, TypeOK, Nears, Running, Aiming

LEMMA NearsRelocates ==
  ASSUME TypeOK, NEW p \in Proc, step[p] # "off", image[p] \in Place, Relocates(p),
         UNCHANGED <<image, cleanup>>, NEW r \in Proc, Nears(r)
  PROVE  Nears(r)'
<1>1. CASE Dir(image[p]) = "home"
  BY <1>1, NearsKept DEF Relocates, Goes, TypeOK, Aiming
<1>2. CASE Dir(image[p]) # "home"
  BY <1>2, Distances, Places, NearsAim DEF Relocates
<1>. QED
  BY <1>1, <1>2

(* Every step of every process keeps all of them near.                     *)
LEMMA NearerStep ==
  ASSUME IInv, Nearer, [Next]_vars
  PROVE  Nearer'
<1> SUFFICES ASSUME NEW r \in Proc PROVE Nears(r)'
  BY DEF Nearer, Nears
<1> USE DEF IInv
<1>1. Nears(r)
  BY DEF Nearer, Nears
<1>2. ASSUME NEW p \in Proc, NoRelay(p) PROVE Nears(r)'
  <2>1. image[p] \in Place
    BY <1>2 DEF NoRelay, ImagesWhole, Running
  <2>. QED
    BY <1>1, <1>2, <2>1, NearsRelocates DEF NoRelay
<1>3. ASSUME NEW p \in Proc, TerminateVictim(p) PROVE Nears(r)'
  <2>1. victim[p] \in Proc
    BY DEF TypeOK
  <2>2. CASE Gone(victim[p])
    BY <1>1, <2>1, <2>2, NearsGone
  <2>3. CASE Goes(p, "cleanup") /\ UNCHANGED <<image, cleanup, victim, target, want>>
    BY <1>1, <1>3, <2>3, NearsKept DEF TerminateVictim, Goes, TypeOK, Aiming
  <2>. QED
    BY <1>3, <2>2, <2>3 DEF TerminateVictim
<1>4. ASSUME NEW p \in Proc, DeleteOld(p) PROVE Nears(r)'
  <2>1. image[p] \in Place
    BY <1>4 DEF DeleteOld, ImagesWhole, Running
  <2>2. CASE Relocates(p)
    BY <1>1, <1>4, <2>1, <2>2, NearsRelocates DEF DeleteOld
  <2>3. CASE NameOf(image[p]) # Canonical
    BY <1>1, <1>4, <2>1, <2>3, Distances, Places, NearsAim DEF DeleteOld
  <2>. QED
    BY <1>4, <2>2, <2>3 DEF DeleteOld
<1>5. ASSUME NEW p \in Proc, ClearTarget(p) \/ CopySelf(p) \/ CopyEnds(p) PROVE Nears(r)'
  <2>1. /\ step[p] \in Aiming /\ UNCHANGED <<image, cleanup, target>>
        /\ \E s \in {"copy", "copying", "launch", "box"} : Goes(p, s)
    BY <1>5 DEF ClearTarget, CopySelf, CopyEnds, Fails, Aiming
  <2>. QED
    BY <1>1, <2>1, NearsKept DEF Goes, TypeOK, Aiming
<1>6. ASSUME NEW p \in Proc, LaunchTarget(p) PROVE Nears(r)'
  <2>1. /\ step[p] = "launch" /\ Running(p) /\ target[p] \in Place /\ UNCHANGED target
        /\ Distance(target[p]) < Distance(image[p])
    BY <1>6 DEF LaunchTarget, Running, TargetsNamed, Nearer, Aiming
  <2>2. ASSUME NEW n \in Proc, Boots(n, target[p], image[p], p),
               step' = [step EXCEPT ![n] = "boot", ![p] = "leaving"]
        PROVE  Nears(r)'
    BY <1>1, <2>1, <2>2, NearsBoots DEF Aiming
  <2>3. CASE Fails(p) /\ UNCHANGED <<image, cleanup, victim>>
    BY <1>1, <2>1, <2>3, NearsKept DEF Fails, Goes, TypeOK, Aiming
  <2>. QED
    BY <1>6, <2>2, <2>3 DEF LaunchTarget
<1>7. ASSUME NEW p \in Proc, CreateMutex(p) PROVE Nears(r)'
  <2>1. CASE r = p
    BY <1>7, <2>1 DEF CreateMutex, Goes, TypeOK, Nears, Aiming
  <2>2. CASE r # p
    BY <1>1, <1>7, <2>2, NearsKept DEF CreateMutex, Goes, TypeOK
  <2>. QED
    BY <2>1, <2>2
<1>8. ASSUME NEW p \in Proc, Fetch(p) \/ FetchEnds(p) \/ Refresh(p) PROVE Nears(r)'
  <2>1. /\ step[p] # "off" /\ UNCHANGED <<image, cleanup, target>>
        /\ \E s \in {"main", "sync", "fetching", "handover"} : Goes(p, s)
    BY <1>8 DEF Fetch, FetchEnds, Refresh
  <2>. QED
    BY <1>1, <2>1, NearsKept DEF Goes, TypeOK, Aiming
<1>9. ASSUME NEW p \in Proc, HandleSelfUpdateAndExit(p) PROVE Nears(r)'
  <2>1. step[p] = "handover" /\ Running(p) /\ UNCHANGED target
    BY <1>9 DEF HandleSelfUpdateAndExit, Running
  <2>2. ASSUME NEW n \in Proc, Boots(n, Home(Temp), image[p], p),
               step' = [step EXCEPT ![n] = "boot", ![p] = "stopping"]
        PROVE  Nears(r)'
    BY <1>1, <2>1, <2>2, NearsBoots, Places DEF Aiming
  <2>3. CASE Goes(p, "main") /\ UNCHANGED <<image, cleanup, victim>>
    BY <1>1, <2>1, <2>3, NearsKept DEF Goes, TypeOK, Aiming
  <2>. QED
    BY <1>9, <2>2, <2>3 DEF HandleSelfUpdateAndExit
<1>10. ASSUME NEW p \in Proc, Exits(p) \/ Kill(p) PROVE Nears(r)'
  BY <1>1, <1>10, NearsGone DEF Exits, Kill
<1>11. ASSUME NEW p \in Proc, Start(p) PROVE Nears(r)'
  <2>1. CASE r = p
    BY <1>11, <2>1 DEF Start, Boots, Goes, TypeOK, Nears, Aiming
  <2>2. CASE r # p
    BY <1>1, <1>11, <2>2, NearsKept DEF Start, Boots, Goes, TypeOK
  <2>. QED
    BY <2>1, <2>2
<1>12. CASE Publish \/ UNCHANGED vars
  BY <1>1, <1>12, NearsKept DEF Publish, vars, process
<1>. QED
  BY <1>2, <1>3, <1>4, <1>5, <1>6, <1>7, <1>8, <1>9, <1>10, <1>11, <1>12 DEF Next, RelayStep

\* A relay of launchers, each replacing the one before, cannot go on for ever: every
\* copy is nearer to the install directory and the canonical name
\* (RebornLauncher.cpp:507-602).
THEOREM RelayShortens == Spec => []Nearer
<1>1. Init => Nearer
  BY DEF Init, Nearer, Running, Aiming
<1>2. IInv /\ Nearer /\ [Next]_vars => Nearer'
  BY NearerStep
<1>. QED
  BY <1>1, <1>2, Invariant, PTL DEF Spec
=============================================================================
