---------------------------- MODULE UpdateFlowProofs ----------------------------
(***************************************************************************)
(* Proofs about the update-and-launch flow, for every set of pages,        *)
(* contents, manifests and listings.  One lemma per conjunct of IInv, with *)
(* one step per action of Next.                                            *)
(***************************************************************************)
EXTENDS UpdateFlow, TLAPS

(* The initial states have their types.                                    *)
LEMMA TypeInit == Init => TypeOK
<1> SUFFICES ASSUME Init PROVE TypeOK
  OBVIOUS
<1>1. updateSelf \in BOOLEAN /\ relay \in BOOLEAN /\ game \in BOOLEAN /\ dataDir \in BOOLEAN
  BY Zenon DEF Init, Fresh, Installed
<1>2. disk \in [Page -> LocalFile] /\ verdat \in Manifest \cup {NoManifest, Torn}
  <2>1. CASE Fresh
    BY <2>1, ConstantsOK DEF Fresh, LocalFile
  <2>2. CASE Installed
    BY <2>2, ConstantsOK DEF Installed, LocalFile
  <2>. QED
    BY <2>1, <2>2 DEF Init
<1>. QED
  BY <1>1, <1>2, ConstantsOK DEF Init, TypeOK, NoFiles, LocalFile

(* A failed sync leaves the variables it may change in their types.        *)
LEMMA SyncFailsType ==
  ASSUME TypeOK, NEW p \in Page, SyncFails(p)
  PROVE  /\ disk' \in [Page -> LocalFile] /\ updateTemp' \in LocalFile
         /\ updateSelf' \in BOOLEAN
         /\ runtimeList' \subseteq Page /\ exposed' \subseteq Page
<1>1. updateSelf' \in BOOLEAN
  BY Zenon DEF SyncFails, Wreck, TypeOK
<1>2. disk' \in [Page -> LocalFile] /\ updateTemp' \in LocalFile
  BY DEF SyncFails, Wreck, TypeOK
<1>. QED
  BY <1>1, <1>2 DEF SyncFails, TypeOK

(* Every step keeps the types.                                             *)
LEMMA TypeStep == TypeOK /\ FlowOwned /\ [Next]_vars => TypeOK'
<1> SUFFICES ASSUME TypeOK, FlowOwned, [Next]_vars PROVE TypeOK'
  OBVIOUS
<1> USE ConstantsOK DEF TypeOK, memory, store, relaying, scratch, request, NoFiles, LocalFile
<1>1. CASE Start
  BY <1>1 DEF Start
<1>2. CASE InitializeDownloadEnvironment
  <2>1. game' \in BOOLEAN
    BY <1>2, Zenon DEF InitializeDownloadEnvironment, Stop, TerminateAllGameProcesses
  <2>. QED
    BY <1>2, <2>1 DEF InitializeDownloadEnvironment, Stop, TerminateAllGameProcesses
<1>3. CASE EnsureBasePackageReady
  BY <1>3 DEF EnsureBasePackageReady
<1>4. ASSUME NEW p \in Page, ExtractPart(p) \/ ExtractPage(p) PROVE TypeOK'
  <2>1. dataDir' \in BOOLEAN
    BY <1>4, Zenon DEF ExtractPart, ExtractPage
  <2>a. exposed' \subseteq Page /\ unpacked' \subseteq Page
    BY <1>4 DEF ExtractPart, ExtractPage, Unpacking
  <2>b. PICK c \in Content : disk' = [disk EXCEPT ![p] = c]
    <3>1. p \in Scanned
      BY <1>4 DEF ExtractPart, ExtractPage, Unpacking
    <3>2. BasePackage[p] \in Content
      BY <3>1 DEF Scanned
    <3>. QED
      BY <1>4, <3>2 DEF ExtractPart, ExtractPage
  <2>2. disk' \in [Page -> LocalFile] /\ exposed' \subseteq Page /\ unpacked' \subseteq Page
    BY <2>a, <2>b
  <2>3. UNCHANGED <<remote, verdat, updateTemp, memory, relaying, loaded, unread, flow, run, web,
                    request, game>>
    BY <1>4 DEF ExtractPart, ExtractPage, Unpacking
  <2>. QED
    BY <2>1, <2>2, <2>3
<1>5. CASE ExtractionEnds
  BY <1>5 DEF ExtractionEnds
<1>6. CASE ReadVersionDat \/ LoadMd5 \/ LoadRuntimeList
  BY <1>6 DEF ReadVersionDat, LoadMd5, LoadRuntimeList
<1>31. ASSUME NEW p \in Page, LoadLine(p) PROVE TypeOK'
  BY <1>31 DEF LoadLine, FlowOwned
<1>7. CASE RunTakesFlow
  BY <1>7 DEF RunTakesFlow
<1>8. CASE RunRefresh
  BY <1>8 DEF RunRefresh, RefreshManifest, WriteVersionDat, BuildList, SyncList, Overlooked,
              Overwritten, Alert
<1>9. CASE RunSyncEnds
  <2>1. CASE Alert /\ \E p \in Page : SyncFails(p)
    BY <2>1, SyncFailsType DEF Alert, SyncFails
  <2>. QED
    BY <1>9, <2>1 DEF RunSyncEnds
<1>10. CASE HandleSelfUpdateAndExit
  <2>1. game' \in BOOLEAN /\ run' \in {"off", "launch"} /\ updateSelf' = FALSE
    BY <1>10 DEF HandleSelfUpdateAndExit, Stop, TerminateAllGameProcesses
  <2>2. updateSelf' \in BOOLEAN /\ relay' \in BOOLEAN /\ wrecked' \in BOOLEAN
    BY <1>10, Zenon DEF HandleSelfUpdateAndExit
  <2>3. /\ files' \in {files, NoFiles} /\ localMd5' \in {localMd5, NoManifest}
        /\ flow' \in {flow, "free"}
        /\ UNCHANGED <<remote, store, runtimeList, scratch, web, request, exposed>>
    BY <1>10 DEF HandleSelfUpdateAndExit
  <2>. QED
    BY <2>1, <2>2, <2>3
<1>11. CASE RunLaunch
  <2>1. game' \in BOOLEAN
    BY <1>11, Zenon DEF RunLaunch, LaunchGameClient, Alert
  <2>. QED
    BY <1>11, <2>1 DEF RunLaunch, LaunchGameClient, Alert
<1>12. CASE AlertDismissed
  <2>1. game' \in BOOLEAN
    BY <1>12, Zenon DEF AlertDismissed, Stop, TerminateAllGameProcesses
  <2>. QED
    BY <1>12, <2>1 DEF AlertDismissed, Stop, TerminateAllGameProcesses
<1>13. CASE PollManifest
  BY <1>13 DEF PollManifest, RefreshManifest, WriteVersionDat, BuildList, SyncList, Overlooked,
               Overwritten
<1>14. CASE MonitorEnds
  <2>1. game' \in BOOLEAN
    BY <1>14, Zenon DEF MonitorEnds, TerminateAllGameProcesses
  <2>. QED
    BY <1>14, <2>1 DEF MonitorEnds, TerminateAllGameProcesses
<1>15. ASSUME NEW p \in Page, RetryDeferred(p) PROVE TypeOK'
  BY <1>15 DEF RetryDeferred, Verified
<1>16. ASSUME NEW p \in Page, SkipLocalOnly(p) PROVE TypeOK'
  BY <1>16 DEF SkipLocalOnly
<1>17. ASSUME NEW p \in Page, DownloadPage(p) PROVE TypeOK'
  BY <1>17 DEF DownloadPage, Verified
<1>18. CASE DownloadSelf
  <2>1. updateSelf' \in BOOLEAN /\ wrecked' \in BOOLEAN
    BY <1>18, Zenon DEF DownloadSelf
  <2>. QED
    BY <1>18, <2>1 DEF DownloadSelf
<1>19. CASE WebRefresh
  BY <1>19 DEF WebRefresh, FetchOrReturn, WebReturns
<1>32. CASE WebReplacesMap
  BY <1>32 DEF WebReplacesMap, WriteVersionDat, FlowOwned
<1>33. CASE WebBuildsList
  <2>1. fetched \in Manifest
    BY <1>33 DEF WebBuildsList, FlowOwned
  <2>2. runtimeList' \subseteq Page /\ exposed' \subseteq Page /\ localMd5' \in Manifest
    BY <1>33, <2>1 DEF WebBuildsList, BuildList, SyncList, Overlooked, Overwritten
  <2>. QED
    BY <1>33, <2>2 DEF WebBuildsList, FetchOrReturn, WebReturns
<1>20. CASE WebSyncEnds
  <2>1. ASSUME NEW p \in Page, SyncFails(p), WebReturns, UNCHANGED <<relay, game>>,
               wrecked' = (wrecked \/ (p = SelfPage /\ files[p] # NoEntry))
        PROVE  TypeOK'
    <3>1. wrecked' \in BOOLEAN
      BY <2>1, Zenon
    <3>. QED
      BY <2>1, <3>1, SyncFailsType DEF WebReturns, SyncFails
  <2>. QED
    BY <1>20, <2>1 DEF WebSyncEnds
<1>21. CASE WebLaunch
  <2>1. game' \in BOOLEAN
    BY <1>21, Zenon DEF WebLaunch, LaunchGameClient
  <2>. QED
    BY <1>21, <2>1 DEF WebLaunch, LaunchGameClient, WebReturns
<1>22. CASE LookUp
  BY <1>22 DEF LookUp
<1>23. CASE Fetch
  <2>1. disk' \in [Page -> LocalFile] /\ exposed' \subseteq Page
    BY <1>23 DEF Fetch, Verified, FlowOwned
  <2>. QED
    BY <1>23, <2>1 DEF Fetch, WebReturns
<1>24. CASE RunClient
  BY <1>24 DEF RunClient
<1>25. ASSUME NEW p \in Page, DownloadRequest(p) PROVE TypeOK'
  BY <1>25 DEF DownloadRequest
<1>26. CASE GameExits
  <2>1. game' \in BOOLEAN
    BY <1>26, Zenon DEF GameExits
  <2>. QED
    BY <1>26, <2>1 DEF GameExits
<1>27. CASE Crash
  <2>1. updateSelf' \in BOOLEAN /\ game' \in BOOLEAN /\ wrecked' \in BOOLEAN
    BY <1>27, Zenon DEF Crash
  <2>2. /\ verdat' \in Manifest \cup {NoManifest, Torn} /\ disk' \in [Page -> LocalFile]
        /\ updateTemp' \in LocalFile /\ exposed' \subseteq Page
    BY <1>27 DEF Crash, Interrupted, Forgotten, Behind, FlowOwned
  <2>. QED
    BY <1>27, <2>1, <2>2 DEF Crash
<1>28. CASE RelayPromotes
  <2>1. relay' \in BOOLEAN /\ wrecked' \in BOOLEAN
    BY <1>28, Zenon DEF RelayPromotes
  <2>. QED
    BY <1>28, <2>1 DEF RelayPromotes
<1>29. CASE Publish
  BY <1>29 DEF Publish
<1>30. CASE UNCHANGED vars
  BY <1>30 DEF vars
<1>. QED
  BY <1>1, <1>2, <1>3, <1>4, <1>5, <1>6, <1>7, <1>8, <1>9, <1>10, <1>11, <1>12, <1>13,
     <1>14, <1>15, <1>16, <1>17, <1>18, <1>19, <1>20, <1>21, <1>22, <1>23, <1>24, <1>25, <1>26,
     <1>27, <1>28, <1>29, <1>30, <1>31, <1>32, <1>33
     DEF Next, RunStep, SyncStep, WebStep

(* The mutex has the owner that the places of Execute and the web handler  *)
(* say it has, in every interleaving (RunCoordinator.cpp:39-80,            *)
(* WebService.cpp:107-109, 306).                                           *)
LEMMA FlowStep == TypeOK /\ FlowOwned /\ [Next]_vars => FlowOwned'
<1> SUFFICES ASSUME TypeOK, FlowOwned, [Next]_vars PROVE FlowOwned'
  OBVIOUS
<1> USE DEF TypeOK, FlowOwned, Working, memory, store, relaying, scratch, request, NoFiles
<1>1. CASE Start
  BY <1>1 DEF Start
<1>2. CASE InitializeDownloadEnvironment
  BY <1>2 DEF InitializeDownloadEnvironment, Stop, TerminateAllGameProcesses
<1>3. CASE EnsureBasePackageReady
  BY <1>3 DEF EnsureBasePackageReady
<1>4. ASSUME NEW p \in Page, ExtractPart(p) \/ ExtractPage(p) PROVE FlowOwned'
  BY <1>4 DEF ExtractPart, ExtractPage, Unpacking, Scanned
<1>5. CASE ExtractionEnds
  BY <1>5 DEF ExtractionEnds
<1>6. CASE ReadVersionDat \/ LoadMd5 \/ LoadRuntimeList
  BY <1>6 DEF ReadVersionDat, LoadMd5, LoadRuntimeList
<1>31. ASSUME NEW p \in Page, LoadLine(p) PROVE FlowOwned'
  BY <1>31 DEF LoadLine
<1>7. CASE RunTakesFlow
  BY <1>7 DEF RunTakesFlow
<1>8. CASE RunRefresh
  BY <1>8 DEF RunRefresh, RefreshManifest, WriteVersionDat, BuildList, Alert
<1>9. CASE RunSyncEnds
  BY <1>9 DEF RunSyncEnds, Alert, SyncFails
<1>10. CASE HandleSelfUpdateAndExit
  BY <1>10 DEF HandleSelfUpdateAndExit, Stop, TerminateAllGameProcesses
<1>11. CASE RunLaunch
  BY <1>11 DEF RunLaunch, LaunchGameClient, Alert
<1>12. CASE AlertDismissed
  BY <1>12 DEF AlertDismissed, Stop, TerminateAllGameProcesses
<1>13. CASE PollManifest
  BY <1>13 DEF PollManifest, RefreshManifest, WriteVersionDat, BuildList
<1>14. CASE MonitorEnds
  BY <1>14 DEF MonitorEnds, TerminateAllGameProcesses
<1>15. ASSUME NEW p \in Page, RetryDeferred(p) PROVE FlowOwned'
  BY <1>15 DEF RetryDeferred
<1>16. ASSUME NEW p \in Page, SkipLocalOnly(p) PROVE FlowOwned'
  BY <1>16 DEF SkipLocalOnly, Syncing
<1>17. ASSUME NEW p \in Page, DownloadPage(p) PROVE FlowOwned'
  BY <1>17 DEF DownloadPage, Syncing
<1>18. CASE DownloadSelf
  BY <1>18 DEF DownloadSelf, Syncing
<1>19. CASE WebRefresh
  BY <1>19 DEF WebRefresh, FetchOrReturn, WebReturns
<1>32. CASE WebReplacesMap
  BY <1>32 DEF WebReplacesMap, WriteVersionDat
<1>33. CASE WebBuildsList
  BY <1>33 DEF WebBuildsList, BuildList, FetchOrReturn, WebReturns
<1>20. CASE WebSyncEnds
  BY <1>20 DEF WebSyncEnds, WebReturns, SyncFails
<1>21. CASE WebLaunch
  BY <1>21 DEF WebLaunch, LaunchGameClient, WebReturns
<1>22. CASE LookUp
  BY <1>22 DEF LookUp
<1>23. CASE Fetch
  BY <1>23 DEF Fetch, WebReturns
<1>24. CASE RunClient
  BY <1>24 DEF RunClient, Serving
<1>25. ASSUME NEW p \in Page, DownloadRequest(p) PROVE FlowOwned'
  BY <1>25 DEF DownloadRequest, Serving
<1>26. CASE GameExits
  BY <1>26 DEF GameExits
<1>27. CASE Crash
  BY <1>27 DEF Crash
<1>28. CASE RelayPromotes
  BY <1>28 DEF RelayPromotes
<1>29. CASE Publish
  BY <1>29 DEF Publish
<1>30. CASE UNCHANGED vars
  BY <1>30 DEF vars
<1>. QED
  BY <1>1, <1>2, <1>3, <1>4, <1>5, <1>6, <1>7, <1>8, <1>9, <1>10, <1>11, <1>12,
     <1>13, <1>14, <1>15, <1>16, <1>17, <1>18, <1>19, <1>20, <1>21, <1>22, <1>23, <1>24,
     <1>25, <1>26, <1>27, <1>28, <1>29, <1>30, <1>31, <1>32, <1>33
     DEF Next, RunStep, SyncStep, WebStep

(* Nobody leaves a list of files behind that no sync works through.        *)
LEMMA ListStep == TypeOK /\ FlowOwned /\ ListOwned /\ [Next]_vars => ListOwned'
<1> SUFFICES ASSUME TypeOK, FlowOwned, ListOwned, [Next]_vars PROVE ListOwned'
  OBVIOUS
<1> USE DEF FlowOwned, Working, ListOwned, Syncing, memory, store, relaying, scratch, request
<1>1. CASE Start
  BY <1>1 DEF Start
<1>2. CASE InitializeDownloadEnvironment
  BY <1>2 DEF InitializeDownloadEnvironment, Stop, TerminateAllGameProcesses
<1>3. CASE EnsureBasePackageReady
  BY <1>3 DEF EnsureBasePackageReady
<1>4. ASSUME NEW p \in Page, ExtractPart(p) \/ ExtractPage(p) PROVE ListOwned'
  BY <1>4 DEF ExtractPart, ExtractPage, Unpacking, Scanned
<1>5. CASE ExtractionEnds
  BY <1>5 DEF ExtractionEnds
<1>6. CASE ReadVersionDat \/ LoadMd5 \/ LoadRuntimeList
  BY <1>6 DEF ReadVersionDat, LoadMd5, LoadRuntimeList
<1>31. ASSUME NEW p \in Page, LoadLine(p) PROVE ListOwned'
  BY <1>31 DEF LoadLine
<1>7. CASE RunTakesFlow
  BY <1>7 DEF RunTakesFlow
<1>8. CASE RunRefresh
  BY <1>8 DEF RunRefresh, RefreshManifest, WriteVersionDat, BuildList, Alert
<1>9. CASE RunSyncEnds
  BY <1>9 DEF RunSyncEnds, Alert, SyncFails
<1>10. CASE HandleSelfUpdateAndExit
  BY <1>10 DEF HandleSelfUpdateAndExit, Stop, TerminateAllGameProcesses
<1>11. CASE RunLaunch
  BY <1>11 DEF RunLaunch, LaunchGameClient, Alert
<1>12. CASE AlertDismissed
  BY <1>12 DEF AlertDismissed, Stop, TerminateAllGameProcesses
<1>13. CASE PollManifest
  BY <1>13 DEF PollManifest, RefreshManifest, WriteVersionDat, BuildList
<1>14. CASE MonitorEnds
  BY <1>14 DEF MonitorEnds, TerminateAllGameProcesses
<1>15. ASSUME NEW p \in Page, RetryDeferred(p) PROVE ListOwned'
  BY <1>15 DEF RetryDeferred
<1>16. ASSUME NEW p \in Page, SkipLocalOnly(p) PROVE ListOwned'
  BY <1>16 DEF SkipLocalOnly, Syncing
<1>17. ASSUME NEW p \in Page, DownloadPage(p) PROVE ListOwned'
  BY <1>17 DEF DownloadPage, Syncing
<1>18. CASE DownloadSelf
  BY <1>18 DEF DownloadSelf, Syncing
<1>19. CASE WebRefresh
  BY <1>19 DEF WebRefresh, FetchOrReturn, WebReturns
<1>32. CASE WebReplacesMap
  BY <1>32 DEF WebReplacesMap, WriteVersionDat
<1>33. CASE WebBuildsList
  BY <1>33 DEF WebBuildsList, BuildList, FetchOrReturn, WebReturns
<1>20. CASE WebSyncEnds
  BY <1>20 DEF WebSyncEnds, WebReturns, SyncFails
<1>21. CASE WebLaunch
  BY <1>21 DEF WebLaunch, LaunchGameClient, WebReturns
<1>22. CASE LookUp
  BY <1>22 DEF LookUp
<1>23. CASE Fetch
  BY <1>23 DEF Fetch, WebReturns
<1>24. CASE RunClient
  BY <1>24 DEF RunClient, Serving
<1>25. ASSUME NEW p \in Page, DownloadRequest(p) PROVE ListOwned'
  BY <1>25 DEF DownloadRequest, Serving
<1>26. CASE GameExits
  BY <1>26 DEF GameExits
<1>27. CASE Crash
  BY <1>27 DEF Crash
<1>28. CASE RelayPromotes
  BY <1>28 DEF RelayPromotes
<1>29. CASE Publish
  BY <1>29 DEF Publish
<1>30. CASE UNCHANGED vars
  BY <1>30 DEF vars
<1>. QED
  BY <1>1, <1>2, <1>3, <1>4, <1>5, <1>6, <1>7, <1>8, <1>9, <1>10, <1>11, <1>12,
     <1>13, <1>14, <1>15, <1>16, <1>17, <1>18, <1>19, <1>20, <1>21, <1>22, <1>23, <1>24,
     <1>25, <1>26, <1>27, <1>28, <1>29, <1>30, <1>31, <1>32, <1>33
     DEF Next, RunStep, SyncStep, WebStep


(* The diff leaves every stale page on the new list or exposed, whatever   *)
(* line of the new map a load has overwritten: the list holds each page    *)
(* whose line changed, and the dropped ones become exposed                 *)
(* (Manifest.cpp:196-249, 770-806).                                        *)
LEMMA BuildTracks ==
  ASSUME TypeOK, runtimeList = {}, NEW m \in Manifest,
         NEW old, NEW followed \in BOOLEAN, NEW new, TrackedFor(old, Page),
         BuildList(old, new, m, followed), UNCHANGED disk
  PROVE  /\ \A p \in Tracked : Stale(p, new) \/ Stale(p, Listing[m])
                => p \in exposed' \cup runtimeList'
         /\ exposed \subseteq exposed'
<1> DEFINE hasBaseline == verdat' # NoManifest /\ old # NoFiles
           list == SyncList(old, new, hasBaseline)
<1>1. runtimeList' = IF followed THEN list ELSE {}
  BY DEF BuildList
<1>2. exposed' = exposed \cup (IF followed THEN {} ELSE list)
                   \cup (IF hasBaseline THEN {} ELSE Overlooked(new, list))
                   \cup Overwritten(new, m, list)
  BY DEF BuildList
<1>3. \A p \in Tracked : Stale(p, new) => p \in exposed \cup list
                            \cup (IF hasBaseline THEN {} ELSE Overlooked(new, list))
  <2> SUFFICES ASSUME NEW p \in Tracked, Stale(p, new), p \notin list
               PROVE  p \in exposed \cup (IF hasBaseline THEN {} ELSE Overlooked(new, list))
    OBVIOUS
  <2>1. CASE hasBaseline
    <3>1. old[p] = new[p]
      BY <2>1 DEF SyncList, Tracked, Stale
    <3>2. Stale(p, old)
      BY <3>1 DEF Stale
    <3>. QED
      BY <3>2 DEF TrackedFor, Tracked
  <2>2. CASE ~hasBaseline
    BY <2>2 DEF Overlooked, Tracked, Stale
  <2>. QED
    BY <2>1, <2>2
<1>4. ASSUME NEW p \in Tracked, Stale(p, Listing[m]) PROVE p \in exposed' \cup runtimeList'
  <2>1. CASE new[p] = Listing[m][p]
    BY <1>1, <1>2, <1>3, <1>4, <2>1 DEF Stale
  <2>2. CASE new[p] # Listing[m][p] /\ p \notin list
    BY <1>2, <1>4, <2>2 DEF Overwritten, Stale, Tracked
  <2>3. CASE p \in list
    BY <1>1, <1>2, <2>3
  <2>. QED
    BY <2>1, <2>2, <2>3
<1>. QED
  BY <1>1, <1>2, <1>3, <1>4

(* A refresh on the worker thread keeps track of the stale pages.          *)
LEMMA RefreshTracks ==
  ASSUME TypeOK, AllTracked, web = "idle", runtimeList = {}, unread = {},
         NEW followed \in BOOLEAN, RefreshManifest(followed), UNCHANGED <<disk, web, unread>>
  PROVE  AllTracked'
<1>1. TrackedFor(files, Page) /\ remote \in Manifest
  BY DEF AllTracked, MemoryTracked, TypeOK
<1>2. \A p \in Tracked : Stale(p, Listing[remote]) => p \in exposed' \cup runtimeList'
  BY <1>1, BuildTracks DEF RefreshManifest
<1>3. exposed \subseteq exposed' /\ files' = Listing[remote] /\ verdat' \in {remote, Torn, verdat}
  BY <1>1, BuildTracks DEF RefreshManifest, WriteVersionDat
<1>. QED
  BY <1>2, <1>3, ConstantsOK
     DEF AllTracked, MemoryTracked, BeforeTracked, DiskTracked, LoadTracked, TrackedFor, Stale, Tracked

(* A sync that fails exposes every page it had not reached.                *)
LEMMA SyncFailsTracks ==
  ASSUME TypeOK, AllTracked, web \notin {"write", "diff"}, web' \notin {"write", "diff"},
         NEW q \in Page, SyncFails(q), UNCHANGED scratch
  PROVE  AllTracked'
<1>1. q \in runtimeList
  BY DEF SyncFails
<1>2. \A p \in Page \ {q} : disk'[p] = disk[p]
  BY DEF SyncFails, Wreck, TypeOK
<1>3. exposed' = exposed \cup runtimeList /\ files' = files /\ verdat' = verdat
  BY DEF SyncFails
<1>. QED
  BY <1>1, <1>2, <1>3
     DEF AllTracked, MemoryTracked, BeforeTracked, DiskTracked, LoadTracked, TrackedFor, Stale,
         Tracked, scratch

(* Every step keeps track of the stale pages, for the listing in memory    *)
(* and for the one in Version.dat.                                         *)
LEMMA TrackStep ==
  TypeOK /\ FlowOwned /\ ListOwned /\ AllTracked /\ [Next]_vars => AllTracked'
<1> SUFFICES ASSUME TypeOK, FlowOwned, ListOwned, AllTracked, [Next]_vars
             PROVE  AllTracked'
  OBVIOUS
<1> USE DEF TypeOK, AllTracked, MemoryTracked, BeforeTracked, DiskTracked, LoadTracked, TrackedFor,
            Tracked, Stale, memory, store, relaying, scratch, request
<1>1. CASE Start
  BY <1>1 DEF Start
<1>2. CASE InitializeDownloadEnvironment
  BY <1>2 DEF InitializeDownloadEnvironment, Stop, TerminateAllGameProcesses
<1>3. CASE EnsureBasePackageReady
  BY <1>3 DEF EnsureBasePackageReady
<1>4. ASSUME NEW p \in Page, ExtractPart(p) \/ ExtractPage(p) PROVE AllTracked'
  <2>1. /\ \A q \in Page \ {p} : disk'[q] = disk[q]
        /\ unread = {} /\ UNCHANGED <<files, before, verdat, runtimeList, web, fetched, unread>>
        /\ exposed \subseteq exposed'
    BY <1>4 DEF ExtractPart, ExtractPage, Unpacking, FlowOwned
  <2>2. p \in exposed' \/ (files = NoFiles /\ before = NoFiles /\ verdat \notin Manifest)
    BY <1>4 DEF ExtractPart, ExtractPage, Unpacking
  <2>. QED
    BY <2>1, <2>2 DEF NoFiles
<1>5. CASE ExtractionEnds
  BY <1>5 DEF ExtractionEnds
<1>6. CASE ReadVersionDat \/ LoadMd5 \/ LoadRuntimeList
  <2>1. CASE ReadVersionDat
    <3>1. /\ loaded' \in {verdat, Torn} /\ unread' \subseteq Page
          /\ UNCHANGED <<files, before, verdat, disk, runtimeList, web, fetched, exposed>>
      BY <2>1 DEF ReadVersionDat
    <3>. QED
      BY <3>1, ConstantsOK
  <2>2. CASE LoadMd5 \/ LoadRuntimeList
    <3>1. /\ loaded' \in {loaded, NoManifest} /\ unread' \in {unread, {}}
          /\ UNCHANGED <<files, before, verdat, disk, web, fetched, exposed>>
          /\ runtimeList \subseteq runtimeList'
      BY <2>2 DEF LoadMd5, LoadRuntimeList
    <3>. QED
      BY <3>1, ConstantsOK
  <2>. QED
    BY <1>6, <2>1, <2>2
<1>31. ASSUME NEW p \in Page, LoadLine(p) PROVE AllTracked'
  <2>1. /\ files'[p] = Listing[loaded][p] /\ \A q \in Page \ {p} : files'[q] = files[q]
        /\ p \in unread /\ loaded \in Manifest /\ unread' \subseteq unread
        /\ UNCHANGED <<before, verdat, disk, runtimeList, web, fetched, exposed, loaded>>
    BY <1>31 DEF LoadLine, FlowOwned
  <2>. QED
    BY <2>1
<1>7. CASE RunTakesFlow
  BY <1>7 DEF RunTakesFlow
<1>8. CASE RunRefresh
  <2>1. runtimeList = {} /\ unread = {} /\ web = "idle"
    BY <1>8 DEF RunRefresh, FlowOwned, ListOwned, Syncing, Working
  <2>2. CASE RefreshManifest(TRUE) /\ UNCHANGED <<disk, web, scratch>>
    BY <2>1, <2>2, RefreshTracks
  <2>. QED
    BY <1>8, <2>2 DEF RunRefresh, Alert
<1>9. CASE RunSyncEnds
  <2>1. CASE \E q \in Page : SyncFails(q)
    BY <1>9, <2>1, SyncFailsTracks DEF RunSyncEnds, Alert, FlowOwned, Working
  <2>. QED
    BY <1>9, <2>1 DEF RunSyncEnds
<1>10. CASE HandleSelfUpdateAndExit
  BY <1>10 DEF HandleSelfUpdateAndExit, Stop, TerminateAllGameProcesses, NoFiles
<1>11. CASE RunLaunch
  BY <1>11 DEF RunLaunch, LaunchGameClient, Alert
<1>12. CASE AlertDismissed
  BY <1>12 DEF AlertDismissed, Stop, TerminateAllGameProcesses
<1>13. CASE PollManifest
  <2>1. runtimeList = {} /\ unread = {} /\ web = "idle"
    BY <1>13 DEF PollManifest, FlowOwned, ListOwned, Syncing, Working
  <2>2. CASE RefreshManifest(FALSE) /\ UNCHANGED <<disk, web, scratch>>
    BY <2>1, <2>2, RefreshTracks
  <2>. QED
    BY <1>13, <2>2 DEF PollManifest
<1>14. CASE MonitorEnds
  BY <1>14 DEF MonitorEnds, TerminateAllGameProcesses
<1>15. ASSUME NEW p \in Page, RetryDeferred(p) PROVE AllTracked'
  <2>1. /\ \A q \in Page \ {p} : disk'[q] = disk[q]
        /\ exposed \ {p} \subseteq exposed' /\ unread = {} /\ web = "idle"
        /\ UNCHANGED <<files, before, verdat, runtimeList, web, fetched, unread>>
    BY <1>15 DEF RetryDeferred, Verified, FlowOwned
  <2>2. p \in exposed' \/ (disk'[p] = files[p] /\ (verdat \in Manifest => Listing[verdat][p] = files[p]))
    BY <1>15 DEF RetryDeferred, Verified
  <2>. QED
    BY <2>1, <2>2
<1>16. ASSUME NEW p \in Page, SkipLocalOnly(p) PROVE AllTracked'
  BY <1>16 DEF SkipLocalOnly
<1>17. ASSUME NEW p \in Page, DownloadPage(p) PROVE AllTracked'
  <2>1. /\ \A q \in Page \ {p} : disk'[q] = disk[q]
        /\ exposed \ {p} \subseteq exposed' /\ runtimeList' = runtimeList \ {p}
        /\ web \notin {"write", "diff"} /\ disk'[p] = files[p]
        /\ UNCHANGED <<files, before, verdat, web, fetched, loaded, unread>>
    BY <1>17 DEF DownloadPage, Verified, FlowOwned, Syncing, Working
  <2>2. p \in exposed' \/ /\ verdat \in Manifest => Listing[verdat][p] = files[p]
                          /\ p \in unread => Listing[loaded][p] = files[p]
    BY <1>17 DEF DownloadPage, Verified
  <2>. QED
    BY <2>1, <2>2
<1>18. CASE DownloadSelf
  BY <1>18 DEF DownloadSelf
<1>19. CASE WebRefresh
  BY <1>19 DEF WebRefresh, FetchOrReturn, WebReturns
<1>32. CASE WebReplacesMap
  <2>1. /\ web = "write" /\ web' = "diff" /\ fetched \in Manifest
        /\ verdat' \in {fetched, Torn, verdat}
        /\ UNCHANGED <<before, disk, runtimeList, fetched, exposed, loaded, unread>>
    BY <1>32 DEF WebReplacesMap, WriteVersionDat, FlowOwned
  <2>. QED
    BY <2>1, ConstantsOK
<1>33. CASE WebBuildsList
  <2>1. /\ web = "diff" /\ web' \notin {"write", "diff"} /\ fetched \in Manifest
        /\ runtimeList = {}
        /\ UNCHANGED <<files, disk, verdat, loaded, unread>>
    BY <1>33 DEF WebBuildsList, FetchOrReturn, WebReturns, FlowOwned, ListOwned, Syncing, Working
  <2>2. /\ \A p \in Tracked : Stale(p, files) \/ Stale(p, Listing[fetched])
              => p \in exposed' \cup runtimeList'
        /\ exposed \subseteq exposed'
    <3>1. TrackedFor(before, Page) /\ (asked = SelfPage) \in BOOLEAN
      BY <2>1
    <3>2. BuildList(before, files, fetched, asked = SelfPage)
      BY <1>33 DEF WebBuildsList
    <3>. HIDE DEF AllTracked, TrackedFor, Tracked, Stale
    <3>. QED
      BY <2>1, <3>1, <3>2, BuildTracks
  <2>. QED
    BY <2>1, <2>2
<1>20. CASE WebSyncEnds
  <2>1. CASE \E q \in Page : SyncFails(q) /\ WebReturns
    BY <1>20, <2>1, SyncFailsTracks DEF WebSyncEnds, WebReturns
  <2>. QED
    BY <1>20, <2>1 DEF WebSyncEnds
<1>21. CASE WebLaunch
  BY <1>21 DEF WebLaunch, LaunchGameClient, WebReturns
<1>22. CASE LookUp
  BY <1>22 DEF LookUp
<1>23. CASE Fetch
  BY <1>23 DEF Fetch, WebReturns, Verified
<1>24. CASE RunClient
  BY <1>24 DEF RunClient
<1>25. ASSUME NEW p \in Page, DownloadRequest(p) PROVE AllTracked'
  BY <1>25 DEF DownloadRequest
<1>26. CASE GameExits
  BY <1>26 DEF GameExits
<1>27. CASE Crash
  <2>1. /\ web' = "idle" /\ files' = NoFiles /\ loaded' = NoManifest
        /\ exposed \cup runtimeList \subseteq exposed'
    BY <1>27 DEF Crash, Interrupted, Forgotten
  <2>2. CASE UNCHANGED <<verdat, disk>> /\ web # "diff"
    BY <2>1, <2>2, ConstantsOK DEF NoFiles
  <2>3. CASE UNCHANGED <<verdat, disk>> /\ Behind(fetched) \subseteq exposed'
    BY <2>1, <2>3, ConstantsOK DEF NoFiles, Behind
  <2>4. CASE /\ UNCHANGED verdat /\ web # "diff"
             /\ \E q \in exposed', c \in LocalFile : disk' = [disk EXCEPT ![q] = c]
    BY <2>1, <2>4, ConstantsOK DEF NoFiles
  <2>5. CASE UNCHANGED disk /\ \E m \in Manifest : verdat' \in {m, Torn} /\ Behind(m) \subseteq exposed'
    BY <2>1, <2>5, ConstantsOK DEF NoFiles, Behind
  <2>. QED
    BY <1>27, <2>2, <2>3, <2>4, <2>5
       DEF Crash, Interrupted, Forgotten, FlowOwned, Syncing, Working
<1>28. CASE RelayPromotes
  BY <1>28 DEF RelayPromotes
<1>29. CASE Publish
  BY <1>29 DEF Publish
<1>30. CASE UNCHANGED vars
  BY <1>30 DEF vars
<1>. QED
  BY <1>1, <1>2, <1>3, <1>4, <1>5, <1>6, <1>7, <1>8, <1>9, <1>10, <1>11, <1>12,
     <1>13, <1>14, <1>15, <1>16, <1>17, <1>18, <1>19, <1>20, <1>21, <1>22, <1>23, <1>24,
     <1>25, <1>26, <1>27, <1>28, <1>29, <1>30, <1>31, <1>32, <1>33
     DEF Next, RunStep, SyncStep, WebStep

(* A page leaves the list of Execute's own sync only once its size is      *)
(* right, and nobody else writes meanwhile (RuntimeUpdater.cpp:45-144).    *)
LEMMA SizeStep == TypeOK /\ FlowOwned /\ SyncedSizes /\ [Next]_vars => SyncedSizes'
<1> SUFFICES ASSUME TypeOK, FlowOwned, SyncedSizes, [Next]_vars PROVE SyncedSizes'
  OBVIOUS
<1> USE DEF TypeOK, FlowOwned, Working, SyncedSizes, SizeBad, Tracked, memory, store, relaying, scratch, request
<1>1. CASE Start
  BY <1>1 DEF Start
<1>2. CASE InitializeDownloadEnvironment
  BY <1>2 DEF InitializeDownloadEnvironment, Stop, TerminateAllGameProcesses
<1>3. CASE EnsureBasePackageReady
  BY <1>3 DEF EnsureBasePackageReady
<1>4. ASSUME NEW p \in Page, ExtractPart(p) \/ ExtractPage(p) PROVE SyncedSizes'
  BY <1>4 DEF ExtractPart, ExtractPage, Unpacking, Scanned
<1>5. CASE ExtractionEnds
  BY <1>5 DEF ExtractionEnds
<1>6. CASE ReadVersionDat \/ LoadMd5 \/ LoadRuntimeList
  BY <1>6 DEF ReadVersionDat, LoadMd5, LoadRuntimeList
<1>31. ASSUME NEW p \in Page, LoadLine(p) PROVE SyncedSizes'
  BY <1>31 DEF LoadLine
<1>7. CASE RunTakesFlow
  BY <1>7 DEF RunTakesFlow
<1>8. CASE RunRefresh
  BY <1>8 DEF RunRefresh, Alert, RefreshManifest, BuildList, SyncList
<1>9. CASE RunSyncEnds
  BY <1>9 DEF RunSyncEnds, Alert, SyncFails
<1>10. CASE HandleSelfUpdateAndExit
  BY <1>10 DEF HandleSelfUpdateAndExit, Stop, TerminateAllGameProcesses
<1>11. CASE RunLaunch
  BY <1>11 DEF RunLaunch, LaunchGameClient, Alert
<1>12. CASE AlertDismissed
  BY <1>12 DEF AlertDismissed, Stop, TerminateAllGameProcesses
<1>13. CASE PollManifest
  BY <1>13 DEF PollManifest, RefreshManifest, WriteVersionDat, BuildList
<1>14. CASE MonitorEnds
  BY <1>14 DEF MonitorEnds, TerminateAllGameProcesses
<1>15. ASSUME NEW p \in Page, RetryDeferred(p) PROVE SyncedSizes'
  BY <1>15 DEF RetryDeferred
<1>16. ASSUME NEW p \in Page, SkipLocalOnly(p) PROVE SyncedSizes'
  BY <1>16 DEF SkipLocalOnly
<1>17. ASSUME NEW p \in Page, DownloadPage(p) PROVE SyncedSizes'
  BY <1>17, ConstantsOK DEF DownloadPage
<1>18. CASE DownloadSelf
  BY <1>18 DEF DownloadSelf
<1>19. CASE WebRefresh
  BY <1>19 DEF WebRefresh, FetchOrReturn, WebReturns
<1>32. CASE WebReplacesMap
  BY <1>32 DEF WebReplacesMap, WriteVersionDat
<1>33. CASE WebBuildsList
  BY <1>33 DEF WebBuildsList, BuildList, FetchOrReturn, WebReturns
<1>20. CASE WebSyncEnds
  BY <1>20 DEF WebSyncEnds, WebReturns
<1>21. CASE WebLaunch
  BY <1>21 DEF WebLaunch, LaunchGameClient, WebReturns
<1>22. CASE LookUp
  BY <1>22 DEF LookUp
<1>23. CASE Fetch
  BY <1>23 DEF Fetch, WebReturns
<1>24. CASE RunClient
  BY <1>24 DEF RunClient
<1>25. ASSUME NEW p \in Page, DownloadRequest(p) PROVE SyncedSizes'
  BY <1>25 DEF DownloadRequest
<1>26. CASE GameExits
  BY <1>26 DEF GameExits
<1>27. CASE Crash
  BY <1>27 DEF Crash
<1>28. CASE RelayPromotes
  BY <1>28 DEF RelayPromotes
<1>29. CASE Publish
  BY <1>29 DEF Publish
<1>30. CASE UNCHANGED vars
  BY <1>30 DEF vars
<1>. QED
  BY <1>1, <1>2, <1>3, <1>4, <1>5, <1>6, <1>7, <1>8, <1>9, <1>10, <1>11, <1>12,
     <1>13, <1>14, <1>15, <1>16, <1>17, <1>18, <1>19, <1>20, <1>21, <1>22, <1>23, <1>24,
     <1>25, <1>26, <1>27, <1>28, <1>29, <1>30, <1>31, <1>32, <1>33
     DEF Next, RunStep, SyncStep, WebStep

-----------------------------------------------------------------------------
(* The inductive invariant holds initially.                                *)
LEMMA InitIInv == Init => IInv
<1> SUFFICES ASSUME Init PROVE IInv
  OBVIOUS
<1>1. FlowOwned /\ ListOwned /\ SyncedSizes
  BY DEF Init, FlowOwned, ListOwned, SyncedSizes, Working
<1>2. MemoryTracked /\ BeforeTracked /\ LoadTracked
  BY ConstantsOK DEF Init, MemoryTracked, BeforeTracked, LoadTracked, TrackedFor, Stale, NoFiles, Tracked
<1>3. DiskTracked
  <2>1. CASE Fresh
    BY <2>1, ConstantsOK DEF Fresh, DiskTracked
  <2>2. CASE Installed
    BY <2>2 DEF Installed, DiskTracked, TrackedFor, Stale, Tracked
  <2>. QED
    BY <2>1, <2>2 DEF Init
<1>. QED
  BY <1>1, <1>2, <1>3, TypeInit DEF IInv, AllTracked

(* Every step keeps the inductive invariant.                               *)
LEMMA NextIInv == IInv /\ [Next]_vars => IInv'
  BY TypeStep, FlowStep, ListStep, TrackStep, SizeStep DEF IInv

(* The inductive invariant, from which the theorems below follow.          *)
THEOREM Invariant == Spec => []IInv
  BY InitIInv, NextIInv, PTL DEF Spec

\* The variables keep their types: a step that reads a listing, a size or a page
\* never applies one outside its domain.
THEOREM TypeCorrect == Spec => []TypeOK
<1>1. IInv => TypeOK
  BY DEF IInv
<1>. QED
  BY <1>1, Invariant, PTL

\* Execute never creates the game client while a page has the wrong size, for any
\* pages, contents and manifests (Manifest.cpp:150-249, RunCoordinator.cpp:52-77).
THEOREM LaunchesSized == Spec => []LaunchSizes
<1>1. IInv => LaunchSizes
  <2> SUFFICES ASSUME IInv, run = "launch", NEW p \in Tracked, files[p] # NoEntry
               PROVE  ~SizeBad(p, files[p])
    BY DEF LaunchSizes
  <2>1. runtimeList = {}
    BY DEF IInv, FlowOwned, ListOwned, Syncing, Working
  <2>. QED
    BY <2>1 DEF IInv, SyncedSizes
<1>. QED
  BY <1>1, Invariant, PTL

\* A client starts on a page of another content only through one of the causes
\* that exposed records (LauncherUpdateCoordinator.cpp:387, Manifest.cpp:770-806).
THEOREM LaunchesExact == Spec => []LaunchExact
<1>1. IInv => LaunchExact
  <2> SUFFICES ASSUME IInv, "launch" \in {run, web} PROVE LaunchExact
    BY DEF LaunchExact
  <2>1. runtimeList = {}
    BY DEF IInv, FlowOwned, ListOwned, Syncing, Working
  <2>. QED
    BY <2>1 DEF IInv, AllTracked, MemoryTracked, TrackedFor, Tracked, LaunchExact, FlowOwned, Working
<1>. QED
  BY <1>1, Invariant, PTL

\* Whatever ended the last session, Version.dat lists a content that the disk does
\* not have only for an exposed page (Manifest.cpp:770-774).
THEOREM RestartsTracked == Spec => []RestartTracked
<1>1. IInv => RestartTracked
  <2> SUFFICES ASSUME IInv, run = "off" PROVE RestartTracked
    BY DEF RestartTracked
  <2>1. runtimeList = {}
    BY DEF IInv, FlowOwned, ListOwned, Syncing
  <2>. QED
    BY <2>1 DEF IInv, FlowOwned, AllTracked, DiskTracked, TrackedFor, Tracked, RestartTracked
<1>. QED
  BY <1>1, Invariant, PTL

-----------------------------------------------------------------------------
(* A step of the mutex's owner can be told from the others: it moves on    *)
(* from its place or takes a page off the list.                            *)
LEMMA OwnerMoves ==
  ASSUME OwnerStep
  PROVE  \/ run \in Working /\ run' # run
         \/ web' # web
         \/ runtimeList' # runtimeList
<1>1. RunWork => run \in Working /\ run' # run
  BY DEF RunWork, RunRefresh, RunSyncEnds, HandleSelfUpdateAndExit, RunLaunch, Alert, Working,
         LaunchGameClient
<1>2. WebStep => web' # web
  BY DEF WebStep, WebRefresh, WebReplacesMap, WebBuildsList, WebSyncEnds, WebLaunch, LookUp, Fetch,
         FetchOrReturn, WebReturns
<1>3. SyncStep \/ DownloadSelf => runtimeList' # runtimeList
  BY DEF SyncStep, SkipLocalOnly, DownloadPage, DownloadSelf
<1>. QED
  BY <1>1, <1>2, <1>3 DEF OwnerStep

(* What the action FlowAdvances says of a step.                            *)
FlowGoesOn ==
  flow # "free" =>
    \/ flow' = "free"
    \/ flow' = flow /\ Stage(flow, run', web') < Stage(flow, run, web)
    \/ /\ flow' = flow /\ Stage(flow, run', web') = Stage(flow, run, web)
       /\ \/ runtimeList' \subseteq runtimeList /\ runtimeList' # runtimeList
          \/ ~OwnerStep /\ UNCHANGED runtimeList
          \/ run = "lines" /\ run' = "ready"

(* A step of somebody else leaves the owner where it is.                   *)
LEMMA BystanderGoesOn ==
  ASSUME UNCHANGED <<flow, web, runtimeList>>,
         flow = "run" => run' = run,
         run \in Working => run' = run,
         flow \in {"free", "run", "web"}
  PROVE  FlowGoesOn
<1>1. ~OwnerStep
  BY OwnerMoves
<1>2. flow # "free" => Stage(flow, run', web') = Stage(flow, run, web)
  BY DEF Stage
<1>. QED
  BY <1>1, <1>2 DEF FlowGoesOn

(* A web handler goes on to its next stage or returns the mutex.           *)
LEMMA WebGoesOn ==
  ASSUME WebRefresh \/ WebReplacesMap \/ WebBuildsList \/ WebSyncEnds \/ LookUp
  PROVE  \/ flow' = "free"
         \/ /\ flow' = flow /\ run' = run
            /\ <<web, web'>> \in {<<"lookup", "fetch">>, <<"lookup", "refresh">>,
                                 <<"refresh", "write">>, <<"refresh", "fetch">>,
                                 <<"write", "diff">>, <<"diff", "sync">>, <<"diff", "fetch">>,
                                 <<"sync", "launch">>}
<1>1. CASE WebRefresh
  BY <1>1 DEF WebRefresh, FetchOrReturn, WebReturns
<1>2. CASE WebReplacesMap \/ LookUp
  BY <1>2 DEF WebReplacesMap, LookUp
<1>3. CASE WebBuildsList
  BY <1>3 DEF WebBuildsList, FetchOrReturn, WebReturns
<1>4. CASE WebSyncEnds
  BY <1>4 DEF WebSyncEnds, WebReturns
<1>. QED
  BY <1>1, <1>2, <1>3, <1>4

(* Every step lets the owner of the mutex go on, in every interleaving of  *)
(* the worker, the listener, the server and the user.                      *)
LEMMA FlowStepGoesOn == IInv /\ Next => FlowGoesOn
<1> SUFFICES ASSUME IInv, Next PROVE FlowGoesOn
  OBVIOUS
<1> USE DEF IInv, TypeOK, FlowOwned, Working, memory, store, relaying, scratch, request
<1>1. CASE Start \/ InitializeDownloadEnvironment
  BY <1>1 DEF Start, InitializeDownloadEnvironment, FlowGoesOn
<1>2. CASE EnsureBasePackageReady \/ ExtractionEnds
  BY <1>2, BystanderGoesOn DEF EnsureBasePackageReady, ExtractionEnds
<1>3. ASSUME NEW p \in Page, ExtractPart(p) \/ ExtractPage(p) \/ LoadLine(p) PROVE FlowGoesOn
  BY <1>3, BystanderGoesOn DEF ExtractPart, ExtractPage, Unpacking, LoadLine
<1>4. CASE ReadVersionDat \/ LoadMd5
  BY <1>4, BystanderGoesOn DEF ReadVersionDat, LoadMd5
<1>20. CASE LoadRuntimeList
  BY <1>20 DEF LoadRuntimeList, FlowGoesOn, Stage
<1>5. CASE RunTakesFlow \/ PollManifest
  BY <1>5 DEF RunTakesFlow, PollManifest, FlowGoesOn
<1>6. CASE RunRefresh
  <2>1. run = "refresh" /\ run' \in {"sync", "alert"} /\ UNCHANGED <<flow, web>>
    BY <1>6 DEF RunRefresh, Alert
  <2>. QED
    BY <2>1 DEF FlowGoesOn, Stage
<1>7. CASE RunSyncEnds
  BY <1>7 DEF RunSyncEnds, Alert, FlowGoesOn, Stage
<1>8. CASE HandleSelfUpdateAndExit \/ RunLaunch
  BY <1>8 DEF HandleSelfUpdateAndExit, RunLaunch, LaunchGameClient, Alert, FlowGoesOn, Stage
<1>9. CASE AlertDismissed
  <2>1. CASE flow = "run"
    BY <1>9, <2>1 DEF AlertDismissed, FlowGoesOn
  <2>2. CASE flow # "run"
    BY <1>9, <2>2, BystanderGoesOn DEF AlertDismissed
  <2>. QED
    BY <2>1, <2>2
<1>10. CASE MonitorEnds \/ GameExits
  BY <1>10, BystanderGoesOn DEF MonitorEnds, GameExits
<1>11. ASSUME NEW p \in Page, RetryDeferred(p) \/ DownloadRequest(p) PROVE FlowGoesOn
  BY <1>11 DEF RetryDeferred, DownloadRequest, FlowGoesOn
<1>12. ASSUME NEW p \in Page, SkipLocalOnly(p) \/ DownloadPage(p) PROVE FlowGoesOn
  BY <1>12 DEF SkipLocalOnly, DownloadPage, FlowGoesOn
<1>13. CASE DownloadSelf
  BY <1>13 DEF DownloadSelf, FlowGoesOn
<1>14. CASE WebRefresh \/ WebReplacesMap \/ WebBuildsList \/ WebSyncEnds
  BY <1>14, WebGoesOn DEF FlowGoesOn, Stage
<1>15. CASE WebLaunch \/ Fetch
  BY <1>15 DEF WebLaunch, Fetch, WebReturns, FlowGoesOn
<1>16. CASE LookUp
  BY <1>16, WebGoesOn DEF FlowGoesOn, Stage
<1>17. CASE RunClient
  BY <1>17 DEF RunClient, FlowGoesOn
<1>18. CASE Crash
  BY <1>18 DEF Crash, FlowGoesOn
<1>19. CASE RelayPromotes \/ Publish
  BY <1>19, BystanderGoesOn DEF RelayPromotes, Publish
<1>. QED
  BY <1>1, <1>2, <1>3, <1>4, <1>5, <1>6, <1>7, <1>8, <1>9, <1>10, <1>11, <1>12, <1>13, <1>14,
     <1>15, <1>16, <1>17, <1>18, <1>19, <1>20
     DEF Next, RunStep, SyncStep, WebStep

\* The owner of the mutex is at most a few stages and one list of pages from its
\* release, whatever else happens meanwhile (RunCoordinator.cpp:38-80,
\* RuntimeUpdater.cpp:41-144, LauncherUpdateCoordinator.cpp:262).
THEOREM FlowRunsOut == Spec => FlowAdvances
<1>1. IInv /\ [Next]_vars => [FlowGoesOn]_vars
  BY FlowStepGoesOn
<1>. QED
  BY <1>1, Invariant, PTL DEF Spec, FlowAdvances, FlowGoesOn

-----------------------------------------------------------------------------
(* A step keeps SelfInv.                                                   *)
LEMMA SelfStep == IInv /\ SelfInv /\ [Next]_vars => SelfInv'
<1> SUFFICES ASSUME IInv, SelfInv, [Next]_vars PROVE SelfInv'
  OBVIOUS
<1> USE ConstantsOK DEF IInv, SelfInv, memory, store, relaying
<1>1. ASSUME UNCHANGED <<updateTemp, updateSelf, relay, wrecked>>, SelfListed',
             relay' => run' = "off", run' = "off" => run = "off",
             run' \notin {"alert", "failed"} => run \notin {"alert", "failed"}
      PROVE  SelfInv'
  BY <1>1 DEF Whole
<1>2. ASSUME UNCHANGED files PROVE SelfListed'
  BY <1>2 DEF SelfListed
<1>3. ASSUME NEW m \in Manifest, files' = Listing[m] PROVE SelfListed'
  BY <1>3 DEF SelfListed
<1>4. CASE UNCHANGED vars
  BY <1>1, <1>2, <1>4 DEF vars
<1>5. CASE Start \/ InitializeDownloadEnvironment \/ EnsureBasePackageReady \/ ExtractionEnds
  BY <1>1, <1>2, <1>5 DEF Start, InitializeDownloadEnvironment, EnsureBasePackageReady, ExtractionEnds
<1>6. ASSUME NEW p \in Page, ExtractPart(p) \/ ExtractPage(p) \/ RetryDeferred(p) \/ DownloadRequest(p)
      PROVE  SelfInv'
  BY <1>1, <1>2, <1>6 DEF ExtractPart, ExtractPage, Unpacking, RetryDeferred, DownloadRequest
<1>7. ASSUME NEW p \in Page, SkipLocalOnly(p) \/ DownloadPage(p) PROVE SelfInv'
  BY <1>1, <1>2, <1>7 DEF SkipLocalOnly, DownloadPage
<1>8. CASE ReadVersionDat \/ LoadMd5 \/ LoadRuntimeList \/ RunTakesFlow
  BY <1>1, <1>2, <1>8 DEF ReadVersionDat, LoadMd5, LoadRuntimeList, RunTakesFlow
<1>9. ASSUME NEW p \in Page, LoadLine(p) PROVE SelfInv'
  <2>1. SelfListed'
    BY <1>9 DEF LoadLine, SelfListed, FlowOwned, TypeOK
  <2>. QED
    BY <1>1, <1>9, <2>1 DEF LoadLine
<1>10. CASE RunRefresh
  <2>1. SelfListed'
    BY <1>2, <1>3, <1>10 DEF RunRefresh, RefreshManifest, TypeOK
  <2>. QED
    BY <1>1, <1>10, <2>1 DEF RunRefresh, Alert
<1>11. CASE RunSyncEnds
  <2>1. CASE runtimeList = {} /\ run' = "self" /\ UNCHANGED <<store, memory, relaying>>
    BY <1>1, <1>2, <1>11, <2>1 DEF RunSyncEnds
  <2>2. CASE Alert /\ \E p \in Page : SyncFails(p)
    BY <1>2, <1>11, <2>2 DEF RunSyncEnds, Alert, SyncFails
  <2>. QED
    BY <1>11, <2>1, <2>2 DEF RunSyncEnds
<1>12. CASE DownloadSelf
  <2>1. run # "off"
    BY <1>12 DEF DownloadSelf, FlowOwned, Syncing
  <2>2. Whole'
    BY <1>12 DEF DownloadSelf, SelfListed, Whole
  <2>. QED
    BY <1>2, <1>12, <2>1, <2>2 DEF DownloadSelf
<1>13. CASE HandleSelfUpdateAndExit
  BY <1>2, <1>13 DEF HandleSelfUpdateAndExit, SelfListed, Whole, NoFiles
<1>14. CASE RunLaunch \/ AlertDismissed \/ MonitorEnds \/ GameExits \/ Publish
  BY <1>1, <1>2, <1>14 DEF RunLaunch, Alert, AlertDismissed, MonitorEnds, GameExits, Publish
<1>15. CASE PollManifest
  <2>1. SelfListed'
    BY <1>3, <1>15 DEF PollManifest, RefreshManifest, TypeOK
  <2>. QED
    BY <1>1, <1>15, <2>1 DEF PollManifest
<1>16. CASE WebRefresh \/ WebBuildsList \/ LookUp
  BY <1>1, <1>2, <1>16 DEF WebRefresh, WebBuildsList, LookUp, FetchOrReturn, WebReturns
<1>17. CASE WebReplacesMap
  <2>1. SelfListed'
    BY <1>3, <1>17 DEF WebReplacesMap, FlowOwned
  <2>. QED
    BY <1>1, <1>17, <2>1 DEF WebReplacesMap
<1>18. CASE WebSyncEnds
  <2>1. CASE UNCHANGED <<store, memory, wrecked, run>>
    BY <1>1, <1>2, <1>18, <2>1 DEF WebSyncEnds
  <2>2. ASSUME NEW p \in Page, SyncFails(p), WebReturns,
               wrecked' = (wrecked \/ (p = SelfPage /\ files[p] # NoEntry))
        PROVE  SelfInv'
    <3>1. run # "off"
      BY <1>18 DEF WebSyncEnds, FlowOwned
    <3>2. CASE p = SelfPage /\ files[p] # NoEntry
      BY <1>2, <1>18, <2>2, <3>1, <3>2 DEF WebSyncEnds, WebReturns, SyncFails
    <3>3. CASE ~(p = SelfPage /\ files[p] # NoEntry)
      BY <1>1, <1>2, <1>18, <2>2, <3>3 DEF WebSyncEnds, WebReturns, SyncFails, Wreck, TypeOK
    <3>. QED
      BY <3>2, <3>3
  <2>. QED
    BY <1>18, <2>1, <2>2 DEF WebSyncEnds, scratch
<1>19. CASE WebLaunch \/ Fetch \/ RunClient
  BY <1>1, <1>2, <1>19 DEF WebLaunch, Fetch, RunClient, WebReturns
<1>20. CASE Crash
  BY <1>20 DEF Crash, SelfListed, NoFiles
<1>21. CASE RelayPromotes
  <2>1. run = "off" /\ ~updateSelf'
    BY <1>21 DEF RelayPromotes
  <2>. QED
    BY <1>2, <1>21, <2>1 DEF RelayPromotes
<1>. QED
  BY <1>4, <1>5, <1>6, <1>7, <1>8, <1>9, <1>10, <1>11, <1>12, <1>13, <1>14, <1>15, <1>16,
     <1>17, <1>18, <1>19, <1>20, <1>21
     DEF Next, RunStep, SyncStep, WebStep

\* Whoever downloads UpdateTemp.exe, for whichever sync, what is started in the place
\* of the launcher is whole, or is what a /RunClient left that failed at it
\* (RuntimeUpdater.cpp:95-129, LauncherUpdateCoordinator.cpp:326-356).
THEOREM SelvesWhole == Spec => []SelfWhole
<1>1. Init => SelfInv
  BY ConstantsOK DEF Init, SelfInv, SelfListed, NoFiles, Whole
<1>2. IInv /\ SelfInv /\ [Next]_vars => SelfInv'
  BY SelfStep
<1>3. SelfInv => SelfWhole
  BY DEF SelfInv, Whole, SelfWhole
<1>. QED
  BY <1>1, <1>2, <1>3, Invariant, PTL DEF Spec
================================================================================
