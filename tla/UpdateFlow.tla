------------------------------ MODULE UpdateFlow ------------------------------
(***************************************************************************)
(* The launcher's update-and-launch flow: RunCoordinator on the worker     *)
(* thread, and the /RunClient and /download handlers of the local web      *)
(* service, which share the version state under m_launchFlowMutex.         *)
(*                                                                         *)
(* A file is abstracted to its content, a content to its size: the MD5 of  *)
(* a manifest line names a content.  One DownloadWithResume call is one    *)
(* step here, with the outcomes that module FileDownload derives from its  *)
(* attempts.  Process exit, kill and power loss are the action Crash.      *)
(***************************************************************************)
EXTENDS Naturals

CONSTANTS
  Page,        \* pages (relative paths) a manifest may list
  SelfPage,    \* the page of RebornLauncher.exe
  LocalOnly,   \* pages that IsRuntimeUpdateSkipped recognises
  RuntimePage, \* pages the manifest's "runtime" array names
  Content,     \* contents a file may have, listed by some manifest or not
  Size,        \* length of every content
  Manifest,    \* manifests the server may publish
  Listing,     \* Listing[m][p]: the content m gives p, or NoEntry
  BasePackage, \* content of every page inside the base package, or NoEntry
  Shipped,     \* the launcher build that a new user copies to the directory
  NoEntry,     \* "the manifest has no line for the page"
  Absent,      \* "no such file"
  NoManifest,  \* there is no Version.dat
  Torn         \* Version.dat exists and cannot be parsed

ASSUME ConstantsOK ==
  /\ SelfPage \in Page
  /\ LocalOnly \subseteq Page
  /\ RuntimePage \subseteq Page
  /\ Size \in [Content -> Nat]
  /\ Listing \in [Manifest -> [Page -> Content \cup {NoEntry}]]
  /\ BasePackage \in [Page -> Content \cup {NoEntry}]
  /\ Shipped \in Content
  /\ NoEntry \notin Content
  /\ Absent \notin Content
  /\ NoManifest \notin Manifest
  /\ Torn \notin Manifest

VARIABLES
  remote,      \* the manifest the server serves
  verdat,      \* the file Version.dat
  disk,        \* the local file of every page
  updateTemp,  \* the file UpdateTemp.exe
  dataDir,     \* does ./Data exist
  files,       \* m_versionState.files
  localMd5,    \* m_versionState.localVersionMD5, as the manifest it names
  runtimeList, \* the part of m_versionState.runtimeList that a sync has still to reach
  updateSelf,  \* m_selfUpdateState.updateSelf
  relay,       \* an UpdateTemp.exe process has been started to promote itself
  wrecked,     \* history: a /RunClient failed at UpdateTemp.exe and left it to be started
  unpacked,    \* pages the running extraction has written
  loaded,      \* what the load of Version.dat read, until it has been copied to memory
  unread,      \* pages whose lines that load has still to copy
  flow,        \* owner of m_launchFlowMutex
  run,         \* where RunCoordinator::Execute stands
  web,         \* where the web handler that owns the mutex stands
  asked,       \* the page /download asks for
  before,      \* localFilesBeforeRefresh of a web handler
  fetched,     \* the manifest that handler's refresh got
  game,        \* is a game client running
  exposed      \* history: pages whose local copy no later diff will look at

relaying == <<relay, wrecked>>
scratch  == <<unpacked, loaded, unread>>   \* what only the worker thread uses
request  == <<asked, before, fetched>>     \* what only the web handler uses
memory == <<files, localMd5, runtimeList, updateSelf>>
store  == <<verdat, disk, updateTemp, dataDir>>
vars   == <<remote, store, memory, relaying, scratch, flow, run, web, request, game, exposed>>

NoFiles == [p \in Page |-> NoEntry]
LocalFile == Content \cup {Absent}

TypeOK ==
  /\ remote \in Manifest
  /\ verdat \in Manifest \cup {NoManifest, Torn}
  /\ disk \in [Page -> LocalFile]
  /\ updateTemp \in LocalFile
  /\ dataDir \in BOOLEAN
  /\ files \in [Page -> Content \cup {NoEntry}]
  /\ localMd5 \in Manifest \cup {NoManifest, Torn}
  /\ runtimeList \subseteq Page
  /\ updateSelf \in BOOLEAN
  /\ relay \in BOOLEAN
  /\ wrecked \in BOOLEAN
  /\ unpacked \subseteq Page
  /\ loaded \in Manifest \cup {NoManifest, Torn}
  /\ unread \subseteq Page
  /\ flow \in {"free", "run", "web"}
  /\ run \in {"off", "boot", "base", "extract", "load", "read", "lines", "ready",
              "refresh", "sync", "self", "launch", "monitor", "closing", "ended", "alert", "failed"}
  /\ web \in {"idle", "refresh", "write", "diff", "sync", "launch", "lookup", "fetch"}
  /\ asked \in Page
  /\ before \in [Page -> Content \cup {NoEntry}]
  /\ fetched \in Manifest \cup {NoManifest}
  /\ game \in BOOLEAN
  /\ exposed \subseteq Page

-----------------------------------------------------------------------------
(* Comparing the disk with a manifest (Manifest.cpp).                      *)

\* DoesLocalFileMatchRemoteSize is false; a listed size of 0 asks for existence only.
SizeBad(p, c) == \/ disk[p] = Absent
                 \/ Size[c] > 0 /\ Size[disk[p]] # Size[c]

\* Variants with a bug: sizes are only checked without a baseline; the baseline is ignored.
SyncListByHash(local, new, hasBaseline) ==
  {p \in Page : new[p] # NoEntry /\ IF hasBaseline THEN local[p] # new[p] ELSE SizeBad(p, new[p])}
SyncListBySize(local, new, hasBaseline) ==
  {p \in Page : new[p] # NoEntry /\ SizeBad(p, new[p])}

\* BuildPrelaunchSyncList: sizes always; with a baseline also new and changed lines.
SyncList(local, new, hasBaseline) ==
  {p \in Page : /\ new[p] # NoEntry
                /\ \/ SizeBad(p, new[p])
                   \/ hasBaseline /\ local[p] # new[p]}

\* Pages the size-only sweep passes although their content is another one.
Overlooked(new, list) ==
  {p \in Page \ list : new[p] # NoEntry /\ disk[p] # new[p]}

\* Pages the diff passes because a load put another line over that of manifest m.
Overwritten(new, m, list) ==
  {p \in Page \ list : new[p] # Listing[m][p] /\ Listing[m][p] \notin {NoEntry, disk[p]}}

(***************************************************************************)
(* RefreshRemoteVersionManifest once the body is fetched and parsed.       *)
(* Version.dat is rewritten before anything is downloaded; a failed write  *)
(* goes unnoticed and leaves the old file or a truncated one.  followed    *)
(* says whether the caller goes on to download the list built here.        *)
(***************************************************************************)
WriteVersionDat(m) == verdat' \in IF m # localMd5 THEN {m, Torn, verdat} ELSE {verdat}

\* The list compares the map as it was with the one that replaced it; what it leaves out
\* although the copy is not the manifest's is exposed.
BuildList(old, new, m, followed) ==
  LET hasBaseline == verdat' # NoManifest /\ old # NoFiles
      list == SyncList(old, new, hasBaseline)
  IN /\ runtimeList' = IF followed THEN list ELSE {}
     /\ exposed' = exposed
          \cup (IF followed THEN {} ELSE list)
          \cup (IF hasBaseline THEN {} ELSE Overlooked(new, list))
          \cup Overwritten(new, m, list)
     /\ localMd5' = m

\* On the worker thread, under the mutex: nobody else is at the map.
RefreshManifest(followed) ==
  /\ WriteVersionDat(remote)
  /\ BuildList(files, Listing[remote], remote, followed)
  /\ files' = Listing[remote]

-----------------------------------------------------------------------------
(* RunCoordinator::Execute up to the point where it takes the mutex.       *)

Start ==
  /\ run = "off" /\ ~relay /\ disk[SelfPage] # Absent
  /\ run' = "boot"
  /\ UNCHANGED <<remote, store, memory, relaying, scratch, flow, web, request, game, exposed>>

\* LaunchGameClient once CreateProcess has succeeded: the client is tracked, and one that
\* exits within the next 100 ms only gets a warning.
LaunchGameClient == game' = TRUE

TerminateAllGameProcesses == game' = FALSE

\* Stop(): the /Stop handler ends the clients, if the request reaches it.
Stop == TerminateAllGameProcesses \/ UNCHANGED game

\* Every early return of Execute: a message box, the mutex still held if it was.
Alert ==
  /\ run' = "alert"
  /\ UNCHANGED <<remote, relaying, scratch, flow, web, request, game>>

\* Without a bootstrap there is no HTTP client, so nothing happens under the box.
InitializeDownloadEnvironment ==
  /\ run = "boot"
  /\ \/ run' = "base" /\ UNCHANGED game
     \/ run' = "failed" /\ Stop
  /\ UNCHANGED <<remote, store, memory, relaying, scratch, flow, web, request, exposed>>

\* EnsureBasePackageReady looks for ./Data only; otherwise the archive is fetched.
EnsureBasePackageReady ==
  /\ run = "base"
  /\ run' \in IF dataDir THEN {"load"} ELSE {"extract", "alert"}
  /\ UNCHANGED <<remote, store, memory, relaying, scratch, flow, web, request, game, exposed>>

\* ScanArchive: the pages that Extract7z shares out to its threads.
Scanned == {p \in Page : BasePackage[p] # NoEntry}

\* Writing at page p.  Only a diff against the handlers' map or an old Version.dat could
\* trust what is written.
Unpacking(p) ==
  /\ run = "extract" /\ p \in Scanned \ unpacked
  /\ exposed' = IF files = NoFiles /\ before = NoFiles /\ verdat \notin Manifest
                THEN exposed ELSE exposed \cup {p}
  /\ UNCHANGED <<remote, verdat, updateTemp, memory, relaying, loaded, unread,
                 flow, run, web, request, game>>

\* The file is truncated first and then written block by block; ./Data is there from the
\* first file below it.
ExtractPart(p) ==
  /\ Unpacking(p)
  /\ dataDir' \in {dataDir, TRUE}
  /\ \E c \in Content : disk' = [disk EXCEPT ![p] = c]
  /\ UNCHANGED unpacked

\* The last block; what a handler wrote to the same file meanwhile stays between the blocks.
ExtractPage(p) ==
  /\ Unpacking(p)
  /\ dataDir' = TRUE
  /\ \E c \in IF files = NoFiles THEN {BasePackage[p]} ELSE Content :
        disk' = [disk EXCEPT ![p] = c]
  /\ unpacked' = unpacked \cup {p}

\* A thread that fails leaves its page as it is, and the others finish theirs or not.
ExtractionEnds ==
  /\ run = "extract"
  /\ \/ run' = "alert"
     \/ Scanned \subseteq unpacked /\ run' = "load"
  /\ unpacked' = {}
  /\ UNCHANGED <<remote, store, memory, relaying, loaded, unread, flow, web, request, game, exposed>>

(***************************************************************************)
(* LocalVersionLoader::Execute takes no mutex: a web handler may write     *)
(* Version.dat while it is read, and replace the MD5 and the map between   *)
(* the moments at which the load overwrites them with what it has read.    *)
(* That both use one map at once is undefined; the ordered outcomes are    *)
(* here, the death of the process is Crash.                                *)
(***************************************************************************)
ReadVersionDat ==
  /\ run = "load" /\ run' = "read"
  /\ loaded' \in {verdat} \cup (IF web = "write" /\ fetched # localMd5 THEN {Torn} ELSE {})
  /\ unread' = {p \in Page : loaded' \in Manifest /\ Listing[loaded'][p] # NoEntry}
  /\ UNCHANGED <<remote, store, memory, relaying, unpacked, flow, web, request, game, exposed>>

LoadMd5 ==
  /\ run = "read" /\ run' = "lines"
  /\ localMd5' = loaded
  /\ UNCHANGED <<remote, store, files, runtimeList, updateSelf, relaying, scratch,
                 flow, web, request, game, exposed>>

LoadLine(p) ==
  /\ run = "lines" /\ p \in unread
  /\ files' = [files EXCEPT ![p] = Listing[loaded][p]]
  /\ unread' = unread \ {p}
  /\ UNCHANGED <<remote, store, localMd5, runtimeList, updateSelf, relaying, unpacked, loaded,
                 flow, run, web, request, game, exposed>>

\* The "runtime" array is appended to the list a /RunClient may be working through.
LoadRuntimeList ==
  /\ run = "lines" /\ unread = {} /\ run' = "ready"
  /\ runtimeList' = IF web = "sync" /\ loaded \in Manifest
                    THEN runtimeList \cup RuntimePage ELSE runtimeList
  /\ loaded' = NoManifest
  /\ UNCHANGED <<remote, store, files, localMd5, updateSelf, relaying, unpacked, unread,
                 flow, web, request, game, exposed>>

-----------------------------------------------------------------------------
(* Under the mutex: refresh, sync, self-update, launch.                    *)

\* Variant with a bug: a lock_guard on another mutex.
RunIgnoresFlow ==
  /\ run = "ready"
  /\ flow' = "run" /\ run' = "refresh"
  /\ UNCHANGED <<remote, store, memory, relaying, scratch, web, request, game, exposed>>

RunTakesFlow ==
  /\ run = "ready" /\ flow = "free"
  /\ flow' = "run" /\ run' = "refresh"
  /\ UNCHANGED <<remote, store, memory, relaying, scratch, web, request, game, exposed>>

RunRefresh ==
  /\ run = "refresh"
  /\ \/ /\ RefreshManifest(TRUE)
        /\ run' = "sync"
        /\ UNCHANGED <<remote, disk, updateTemp, dataDir, updateSelf, relaying, scratch,
                       flow, web, request, game>>
     \/ Alert /\ UNCHANGED <<store, memory, exposed>>

Syncing == run = "sync" \/ web = "sync"

\* A skipped page leaves the list although its file was never looked at.
SkipLocalOnly(p) ==
  /\ Syncing /\ p \in runtimeList \cap LocalOnly /\ files[p] # NoEntry
  /\ runtimeList' = runtimeList \ {p}
  /\ UNCHANGED <<remote, store, files, localMd5, updateSelf, relaying, scratch,
                 flow, run, web, request, game, exposed>>

\* A verified copy heals the page, unless Version.dat still lists another content or the
\* load of an older one is about to overwrite the line.
Verified(p) ==
  exposed' = IF \/ verdat \in Manifest /\ Listing[verdat][p] # files[p]
                \/ p \in unread /\ Listing[loaded][p] # files[p]
             THEN exposed \cup {p} ELSE exposed \ {p}

\* Variant with a bug: a local file of the right size is kept.
DownloadUnlessSized(p) ==
  /\ Syncing /\ p \in runtimeList \ (LocalOnly \cup {SelfPage}) /\ files[p] # NoEntry
  /\ disk' = IF SizeBad(p, files[p]) THEN [disk EXCEPT ![p] = files[p]] ELSE disk
  /\ runtimeList' = runtimeList \ {p}
  /\ Verified(p)
  /\ UNCHANGED <<remote, verdat, updateTemp, dataDir, files, localMd5, updateSelf,
                 relaying, scratch, flow, run, web, request, game>>

DownloadPage(p) ==
  /\ Syncing /\ p \in runtimeList \ (LocalOnly \cup {SelfPage}) /\ files[p] # NoEntry
  /\ disk' = [disk EXCEPT ![p] = files[p]]
  /\ runtimeList' = runtimeList \ {p}
  /\ Verified(p)
  /\ UNCHANGED <<remote, verdat, updateTemp, dataDir, files, localMd5, updateSelf,
                 relaying, scratch, flow, run, web, request, game>>

\* RebornLauncher.exe goes to UpdateTemp.exe, a name no manifest lists: the
\* download checks it against the length the server reports and nothing else.
DownloadSelf ==
  /\ Syncing /\ SelfPage \in runtimeList \ LocalOnly /\ files[SelfPage] # NoEntry
  /\ updateTemp' \in {c \in Content : Size[c] = Size[files[SelfPage]]}
  /\ updateSelf' = TRUE
  /\ runtimeList' = runtimeList \ {SelfPage}
  /\ wrecked' = FALSE
  /\ UNCHANGED <<remote, verdat, disk, dataDir, files, localMd5, relay, scratch,
                 flow, run, web, request, game, exposed>>

\* What a download that did not end in success may leave at page p.
Wreck(p) ==
  IF p = SelfPage
  THEN /\ updateTemp' \in LocalFile
       /\ updateSelf' = TRUE
       /\ UNCHANGED disk
  ELSE /\ \E c \in LocalFile : disk' = [disk EXCEPT ![p] = c]
       /\ UNCHANGED <<updateTemp, updateSelf>>

\* RuntimeUpdater::Execute gives up at the first page that is not in the map or that it
\* cannot download, and the pages it has not reached are forgotten with the list.
SyncFails(p) ==
  /\ p \in runtimeList /\ (p \in LocalOnly => files[p] = NoEntry)
  /\ IF files[p] = NoEntry THEN UNCHANGED <<disk, updateTemp, updateSelf>> ELSE Wreck(p)
  /\ runtimeList' = {}
  /\ exposed' = exposed \cup runtimeList
  /\ UNCHANGED <<verdat, dataDir, files, localMd5>>

\* Variant with a bug: Execute goes on after a failed DownloadRunTimeFile.
RunSyncIgnored ==
  /\ run = "sync" /\ run' = "self"
  /\ UNCHANGED <<remote, relaying, scratch, flow, web, request, game>>
  /\ \/ runtimeList = {} /\ UNCHANGED <<store, memory, exposed>>
     \/ \E p \in Page : SyncFails(p)

RunSyncEnds ==
  /\ run = "sync"
  /\ \/ /\ runtimeList = {}
        /\ run' = "self"
        /\ UNCHANGED <<remote, store, memory, relaying, scratch, flow, web, request, game, exposed>>
     \/ Alert /\ \E p \in Page : SyncFails(p)

HandleSelfUpdateAndExit ==
  /\ run = "self"
  /\ \/ /\ updateSelf /\ updateTemp # Absent  \* UpdateTemp.exe started: ExitProcess
        /\ relay' = TRUE /\ run' = "off" /\ flow' = "free"
        /\ files' = NoFiles /\ localMd5' = NoManifest /\ updateSelf' = FALSE
        /\ Stop
        /\ UNCHANGED <<remote, store, runtimeList, wrecked, scratch, web, request, exposed>>
     \/ /\ run' = "launch"                    \* nothing to do, or it did not start
        /\ updateSelf' = FALSE /\ wrecked' = FALSE
        /\ UNCHANGED <<remote, store, files, localMd5, runtimeList, relay, scratch,
                       flow, web, request, game, exposed>>

\* Variant with a bug: the monitor loop runs inside the mutex's scope.
RunLaunchLocked ==
  /\ run = "launch"
  /\ UNCHANGED <<remote, store, memory, exposed, relaying, scratch, web, request>>
  /\ LaunchGameClient /\ run' = "monitor" /\ UNCHANGED flow

RunLaunch ==
  /\ run = "launch"
  /\ UNCHANGED <<remote, store, memory, exposed>>
  /\ \/ /\ LaunchGameClient /\ run' = "monitor" /\ flow' = "free"
        /\ UNCHANGED <<relaying, scratch, web, request>>
     \/ Alert

\* FailWithMessage once the box is dismissed: Stop(), and the mutex is released.
AlertDismissed ==
  /\ run = "alert"
  /\ run' = "failed"
  /\ flow' = IF flow = "run" THEN "free" ELSE flow
  /\ Stop
  /\ UNCHANGED <<remote, store, memory, relaying, scratch, web, request, exposed>>

-----------------------------------------------------------------------------
(* MonitorClientsUntilShutdown.                                            *)

\* RefreshRemoteManifestIfChanged under try_lock, also when .md5 is unavailable.
PollManifest ==
  /\ run = "monitor" /\ game /\ flow = "free"
  /\ RefreshManifest(FALSE)
  /\ UNCHANGED <<remote, disk, updateTemp, dataDir, updateSelf, relaying, scratch,
                 flow, run, web, request, game>>

\* ProcessDeferredFileUpdates under try_lock; which pages wait is left open here.  A page
\* that has left the map is fetched without anything to verify it by.
RetryDeferred(p) ==
  /\ run = "monitor" /\ game /\ flow = "free" /\ p # SelfPage
  /\ \/ files[p] # NoEntry /\ disk' = [disk EXCEPT ![p] = files[p]] /\ Verified(p)
     \/ /\ \E c \in LocalFile : disk' = [disk EXCEPT ![p] = c]
        /\ exposed' = exposed \cup {p}
  /\ UNCHANGED <<remote, verdat, updateTemp, dataDir, memory, relaying, scratch,
                 flow, run, web, request, game>>

GameExits ==
  /\ game /\ game' = FALSE
  /\ UNCHANGED <<remote, store, memory, relaying, scratch, flow, run, web, request, exposed>>

MonitorEnds ==
  /\ \/ run = "monitor" /\ ~game /\ run' = "closing" /\ UNCHANGED game
     \/ run = "closing" /\ run' = "ended" /\ TerminateAllGameProcesses
  /\ UNCHANGED <<remote, store, memory, relaying, scratch, flow, web, request, exposed>>

-----------------------------------------------------------------------------
(* The web handlers.  Before the environment is initialised there is no    *)
(* HTTP client and a request changes nothing; once run is cleared the      *)
(* listener is gone.                                                       *)

Serving == run \notin {"off", "boot", "failed"}

RunClient ==
  /\ Serving /\ web = "idle" /\ flow = "free"
  /\ flow' = "web" /\ web' = "refresh"
  /\ UNCHANGED <<remote, store, memory, relaying, scratch, run, request, game, exposed>>

DownloadRequest(p) ==
  /\ Serving /\ web = "idle" /\ flow = "free" /\ p # SelfPage
  /\ flow' = "web" /\ web' = "lookup" /\ asked' = p
  /\ UNCHANGED <<remote, store, memory, relaying, scratch, run, before, fetched, game, exposed>>

WebReturns ==
  /\ web' = "idle" /\ flow' = "free"
  /\ asked' = SelfPage /\ before' = NoFiles /\ fetched' = NoManifest
  /\ UNCHANGED <<remote, scratch, run>>

\* A /download goes on after the refresh, failed or not, if the page is in the map.
FetchOrReturn ==
  IF asked # SelfPage /\ files'[asked] # NoEntry
  THEN /\ web' = "fetch" /\ before' = NoFiles /\ fetched' = NoManifest
       /\ UNCHANGED <<remote, scratch, flow, run, asked>>
  ELSE WebReturns

(***************************************************************************)
(* The refresh of a handler, in the steps between which the worker's load  *)
(* of Version.dat may read the file or write the map: the map is copied    *)
(* when the manifest is there, Version.dat and the map are replaced, the   *)
(* list is built and the MD5 set.                                          *)
(***************************************************************************)
WebRefresh ==
  /\ web = "refresh"
  /\ UNCHANGED <<store, memory, relaying, game, exposed>>
  /\ \/ /\ web' = "write" /\ before' = files /\ fetched' = remote
        /\ UNCHANGED <<remote, scratch, flow, run, asked>>
     \/ FetchOrReturn

WebReplacesMap ==
  /\ web = "write" /\ web' = "diff"
  /\ WriteVersionDat(fetched)
  /\ files' = Listing[fetched]
  /\ UNCHANGED <<remote, disk, updateTemp, dataDir, localMd5, runtimeList, updateSelf, relaying,
                 scratch, flow, run, request, game, exposed>>

WebBuildsList ==
  /\ web = "diff"
  /\ UNCHANGED <<store, files, updateSelf, relaying, game>>
  /\ BuildList(before, files, fetched, asked = SelfPage)
  /\ IF asked = SelfPage
     THEN /\ web' = "sync" /\ before' = NoFiles /\ fetched' = NoManifest
          /\ UNCHANGED <<remote, scratch, flow, run, asked>>
     ELSE FetchOrReturn

\* updateSelf outlives a sync that failed at the launcher itself.
WebSyncEnds ==
  /\ web = "sync" /\ UNCHANGED <<relay, game>>
  /\ \/ /\ runtimeList = {}
        /\ web' = "launch"
        /\ UNCHANGED <<remote, store, memory, wrecked, scratch, flow, run, request, exposed>>
     \/ \E p \in Page : /\ SyncFails(p) /\ WebReturns
                       /\ wrecked' = (wrecked \/ (p = SelfPage /\ files[p] # NoEntry))

WebLaunch ==
  /\ web = "launch"
  /\ LaunchGameClient \/ UNCHANGED game
  /\ WebReturns
  /\ UNCHANGED <<store, memory, relaying, exposed>>

\* Variant with a bug: a page that is still missing after the refresh is fetched.
LookUpUnchecked ==
  /\ web = "lookup" /\ web' = "fetch"
  /\ UNCHANGED <<remote, store, memory, relaying, scratch, flow, run, request, game, exposed>>

\* executeClientDownload: a page missing from the map triggers a refresh.
LookUp ==
  /\ web = "lookup"
  /\ web' = IF files[asked] # NoEntry THEN "fetch" ELSE "refresh"
  /\ UNCHANGED <<remote, store, memory, relaying, scratch, flow, run, request, game, exposed>>

Fetch ==
  /\ web = "fetch"
  /\ \/ disk' = [disk EXCEPT ![asked] = files[asked]] /\ Verified(asked)
     \/ /\ \E c \in LocalFile : disk' = [disk EXCEPT ![asked] = c]
        /\ exposed' = exposed \cup {asked}
     \/ UNCHANGED <<disk, exposed>>               \* busy: deferred to the retry queue
  /\ WebReturns
  /\ UNCHANGED <<verdat, updateTemp, dataDir, memory, relaying, game>>

-----------------------------------------------------------------------------
(* The end of the process, the relay of a self-update, the server.         *)

\* Pages that manifest m lists and that are not what it lists.
Behind(m) == {p \in Page : Listing[m][p] \notin {NoEntry, disk[p]}}

\* The work that is forgotten: the rest of the list, or all of it if it was not yet built.
Forgotten == runtimeList \cup (IF web = "diff" THEN Behind(fetched) ELSE {})

\* What the interrupted file operation leaves, when there is one.
Interrupted ==
  \/ UNCHANGED <<verdat, disk, updateTemp>> /\ exposed' = exposed \cup Forgotten
  \/ /\ \E p \in (IF Syncing THEN runtimeList \ (LocalOnly \cup {SelfPage}) ELSE {}) \cup
                 (IF web = "fetch" THEN {asked} ELSE {}),
           c \in LocalFile : /\ disk' = [disk EXCEPT ![p] = c]
                             /\ exposed' = exposed \cup runtimeList \cup {p}
     /\ UNCHANGED <<verdat, updateTemp>>
  \/ /\ Syncing /\ SelfPage \in runtimeList \ LocalOnly
     /\ updateTemp' \in LocalFile
     /\ exposed' = exposed \cup runtimeList
     /\ UNCHANGED <<verdat, disk>>
  \/ /\ \E m \in (IF web = "write" THEN {fetched} ELSE {}) \cup
                 (IF run = "refresh" \/ (run = "monitor" /\ flow = "free") THEN {remote} ELSE {}) :
           /\ m # localMd5
           /\ verdat' \in {m, Torn}
           /\ exposed' = exposed \cup runtimeList \cup Behind(m)
     /\ UNCHANGED <<disk, updateTemp>>

\* The launcher exits or dies; the game client may go with it (power loss).
Crash ==
  /\ run # "off"
  /\ Interrupted
  /\ run' = "off" /\ web' = "idle" /\ flow' = "free"
  /\ files' = NoFiles /\ localMd5' = NoManifest
  /\ runtimeList' = {} /\ updateSelf' = FALSE /\ wrecked' = FALSE
  /\ unpacked' = {} /\ loaded' = NoManifest /\ unread' = {}
  /\ asked' = SelfPage /\ before' = NoFiles /\ fetched' = NoManifest
  /\ (game' = FALSE \/ UNCHANGED game)
  /\ UNCHANGED <<remote, dataDir, relay>>

\* UpdateTemp.exe deletes RebornLauncher.exe, then copies itself to that name.
RelayPromotes ==
  /\ relay /\ relay' = FALSE /\ wrecked' = FALSE
  /\ \/ /\ disk' = [disk EXCEPT ![SelfPage] = updateTemp]
        /\ updateTemp' = Absent
     \/ /\ disk' = [disk EXCEPT ![SelfPage] = Absent]
        /\ UNCHANGED updateTemp
  /\ UNCHANGED <<remote, verdat, dataDir, memory, scratch, flow, run, web, request, game, exposed>>

Publish ==
  /\ remote' \in Manifest \ {remote}
  /\ UNCHANGED <<store, memory, relaying, scratch, flow, run, web, request, game, exposed>>

-----------------------------------------------------------------------------
Fresh ==      \* only the launcher itself has been copied to the directory
  /\ verdat = NoManifest /\ dataDir = FALSE
  /\ disk = [[p \in Page |-> Absent] EXCEPT ![SelfPage] = Shipped]

Installed ==  \* a directory some earlier session left up to date
  /\ verdat \in Manifest /\ dataDir = TRUE
  /\ disk = [p \in Page |-> CASE Listing[verdat][p] # NoEntry -> Listing[verdat][p]
                              [] Listing[verdat][p] = NoEntry /\ p = SelfPage -> Shipped
                              [] OTHER -> IF BasePackage[p] # NoEntry THEN BasePackage[p]
                                          ELSE Absent]

Init ==
  /\ remote \in Manifest
  /\ Fresh \/ Installed
  /\ updateTemp = Absent
  /\ files = NoFiles /\ localMd5 = NoManifest /\ runtimeList = {} /\ updateSelf = FALSE
  /\ relay = FALSE /\ wrecked = FALSE
  /\ unpacked = {} /\ loaded = NoManifest /\ unread = {}
  /\ asked = SelfPage /\ before = NoFiles /\ fetched = NoManifest
  /\ flow = "free" /\ run = "off" /\ web = "idle" /\ game = FALSE /\ exposed = {}

RunStep ==
  \/ Start \/ InitializeDownloadEnvironment \/ EnsureBasePackageReady
  \/ (\E p \in Page : ExtractPart(p) \/ ExtractPage(p)) \/ ExtractionEnds
  \/ ReadVersionDat \/ LoadMd5 \/ (\E p \in Page : LoadLine(p)) \/ LoadRuntimeList
  \/ RunTakesFlow \/ RunRefresh \/ RunSyncEnds \/ HandleSelfUpdateAndExit \/ RunLaunch
  \/ AlertDismissed \/ PollManifest \/ MonitorEnds \/ \E p \in Page : RetryDeferred(p)

SyncStep == \E p \in Page : SkipLocalOnly(p) \/ DownloadPage(p)

WebStep == WebRefresh \/ WebReplacesMap \/ WebBuildsList \/ WebSyncEnds \/ WebLaunch \/ LookUp \/ Fetch

Next ==
  \/ RunStep \/ SyncStep \/ DownloadSelf \/ WebStep
  \/ RunClient \/ (\E p \in Page : DownloadRequest(p))
  \/ GameExits \/ Crash \/ RelayPromotes \/ Publish

Spec == Init /\ [][Next]_vars

-----------------------------------------------------------------------------
(* Properties.                                                             *)

Tracked == Page \ (LocalOnly \cup {SelfPage})

\* The local copy of p is not the one the listing L names.
Stale(p, L) == L[p] \notin {NoEntry, disk[p]}

(* The prelaunch queue blocks the launch: when Execute is about to create  *)
(* the game client every page of the manifest is on disk with the          *)
(* manifest's size, whatever crashed, failed or ran before                 *)
(* (Manifest.cpp:150-249, RunCoordinator.cpp:52-77).                       *)
LaunchSizes ==
  run = "launch" => \A p \in Tracked : files[p] # NoEntry => ~SizeBad(p, files[p])

(* A client never starts on a page whose content is not the manifest's,    *)
(* unless a diff that listed the page was dropped (poll, failed sync,      *)
(* crash), never had a baseline, or met the worker's load of an older      *)
(* Version.dat: "exposed" records exactly those causes (Manifest.cpp:      *)
(* 770-806, LauncherUpdateCoordinator.cpp:387, LocalVersionLoader.cpp:64). *)
LaunchExact ==
  "launch" \in {run, web} => \A p \in Tracked : Stale(p, files) => p \in exposed

(* What a restart trusts: Version.dat never lists a content the local copy *)
(* does not have, except for the same causes (Manifest.cpp:770-774).       *)
RestartTracked ==
  run = "off" /\ verdat \in Manifest =>
    \A p \in Tracked : Stale(p, Listing[verdat]) => p \in exposed

(* The launcher that is started to replace this one is a complete build:   *)
(* UpdateTemp.exe has the length some manifest gives the launcher, whoever *)
(* downloaded it, when and for which of the syncs.  The one exception is   *)
(* what a /RunClient left that failed at it and that no later sync has     *)
(* downloaded again: its updateSelf is still set when Execute gets there   *)
(* (RuntimeUpdater.cpp:95-129, LauncherUpdateCoordinator.cpp:326-356).     *)
SelfWhole ==
  relay => /\ updateTemp # Absent
           /\ \/ wrecked
              \/ \E m \in Manifest : /\ Listing[m][SelfPage] # NoEntry
                                     /\ Size[updateTemp] = Size[Listing[m][SelfPage]]

(* The mutex is never kept forever, so a /RunClient or /download that      *)
(* waits for it is served, except behind an error box nobody dismisses     *)
(* (RunCoordinator.cpp:39-80, WebService.cpp:109, 306).                    *)
FlowReleased == flow # "free" ~> flow = "free" \/ run = "alert"

-----------------------------------------------------------------------------
(* Fairness: every wait inside the mutex has a timeout (8 s to connect,    *)
(* 30 or 60 s to read), so the thread that owns it takes its next step.    *)
(* Nothing is assumed of requests, crashes, the user or the server.        *)
RunWork == RunRefresh \/ RunSyncEnds \/ HandleSelfUpdateAndExit \/ RunLaunch

OwnerStep == RunWork \/ WebStep \/ SyncStep \/ DownloadSelf

FairSpec == Spec /\ WF_vars(OwnerStep)

\* How far the owner of the mutex still has to go.
Stage(owner, r, w) ==
  CASE owner = "run" -> (CASE r = "refresh" -> 4 [] r = "sync" -> 3 [] r = "self" -> 2
                           [] r = "launch" -> 1 [] OTHER -> 0)
    [] owner = "web" -> (CASE w = "lookup" -> 6 [] w = "refresh" -> 5 [] w = "write" -> 4
                           [] w = "diff" -> 3 [] w = "sync" -> 2
                           [] w \in {"launch", "fetch"} -> 1 [] OTHER -> 0)
    [] OTHER -> 0

(* Every step of the mutex's owner brings its release closer: a later      *)
(* stage or a page less to sync, whatever the server answers; and nobody   *)
(* else adds to its work, but the worker, once, when it loads Version.dat  *)
(* without the mutex during a sync of /RunClient (RunCoordinator.cpp:38-80,*)
(* RuntimeUpdater.cpp:41-144, LauncherUpdateCoordinator.cpp:262).          *)
FlowAdvances ==
  [][flow # "free" =>
       \/ flow' = "free"
       \/ flow' = flow /\ Stage(flow, run', web') < Stage(flow, run, web)
       \/ /\ flow' = flow /\ Stage(flow, run', web') = Stage(flow, run, web)
          /\ \/ runtimeList' \subseteq runtimeList /\ runtimeList' # runtimeList
             \/ ~OwnerStep /\ UNCHANGED runtimeList
             \/ run = "lines" /\ run' = "ready"]_vars

-----------------------------------------------------------------------------
(* The inductive invariant behind LaunchSizes, LaunchExact and             *)
(* RestartTracked.                                                         *)

Working == {"refresh", "sync", "self", "launch"}

\* Who owns the mutex, that nobody serves before the environment is ready, that a
\* /download only fetches a page of the map, and what a refresh and a load hold.
FlowOwned ==
  /\ run \in Working => flow = "run"
  /\ flow = "run" => run \in Working \cup {"alert"}
  /\ web # "idle" <=> flow = "web"
  /\ run \in {"off", "boot"} => flow = "free" /\ files = NoFiles
  /\ web = "fetch" => files[asked] # NoEntry
  /\ web \in {"write", "diff"} => fetched \in Manifest
  /\ web \notin {"write", "diff"} => before = NoFiles
  /\ unread # {} => run \in {"read", "lines"} /\ loaded \in Manifest
  /\ \A p \in unread : Listing[loaded][p] # NoEntry

\* The list is only non-empty while somebody works through it.
ListOwned == runtimeList # {} => Syncing

\* Every stale page is still listed or is exposed, for each listing the next diff may use
\* as its baseline: the map, Version.dat, and the Version.dat a load has read.  While a
\* handler has replaced the map and not yet built the list, it is the map it replaced.
TrackedFor(L, pages) == \A p \in Tracked \cap pages : Stale(p, L) => p \in exposed \cup runtimeList

MemoryTracked == web # "diff" => TrackedFor(files, Page)
BeforeTracked == web \in {"write", "diff"} => TrackedFor(before, Page)
DiskTracked ==
  verdat \in Manifest /\ (web = "diff" => verdat # fetched) => TrackedFor(Listing[verdat], Page)
LoadTracked ==
  loaded \in Manifest /\ (web = "diff" => loaded # fetched) => TrackedFor(Listing[loaded], unread)

\* What Execute has synced has the right size; nobody else writes meanwhile.
SyncedSizes ==
  run \in {"sync", "self", "launch"} =>
    \A p \in Tracked \ runtimeList : files[p] # NoEntry => ~SizeBad(p, files[p])

AllTracked == MemoryTracked /\ BeforeTracked /\ DiskTracked /\ LoadTracked

IInv == TypeOK /\ FlowOwned /\ ListOwned /\ AllTracked /\ SyncedSizes

-----------------------------------------------------------------------------
(* The inductive invariant behind SelfWhole: what is listed for the        *)
(* launcher comes from a manifest, and while updateSelf may still start    *)
(* UpdateTemp.exe nobody but a failed /RunClient has left a wreck there.   *)

Whole == /\ updateTemp # Absent
         /\ \E m \in Manifest : /\ Listing[m][SelfPage] # NoEntry
                                /\ Size[updateTemp] = Size[Listing[m][SelfPage]]

SelfListed == files[SelfPage] = NoEntry \/ \E m \in Manifest : files[SelfPage] = Listing[m][SelfPage]

SelfInv == /\ SelfListed
           /\ relay => run = "off" /\ updateTemp # Absent /\ (wrecked \/ Whole)
           /\ run = "off" => ~updateSelf
           /\ updateSelf /\ run \notin {"alert", "failed"} => wrecked \/ Whole
=============================================================================
