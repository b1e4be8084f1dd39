# RebornLauncher: TLA+ specifications and proofs

RebornLauncher is a Windows launcher for a game: it installs and updates the
game's files from an HTTP server, starts game clients, and serves the files a
running client finds outdated. These modules model its update flow, its
downloads, the requests of its clients, the hook inside the clients that makes
those requests, its processes and how they replace each other, and the tool that
makes a release with the extraction that installs it. TLC checks them on small
instances; TLAPS proves their safety properties for every value of the constants.
Source paths are relative to the repository; line numbers are those of the
commit the modules were translated from.

## The system

### Processes and threads

| Actor | Code | What it does |
|---|---|---|
| worker thread | `RunCoordinator.cpp`, `LauncherUpdateCoordinator.cpp` | boots, refreshes the manifest, syncs files, replaces the launcher, starts the first client, monitors clients until the last one exits |
| web thread and handlers | `WebService.cpp` | serves `/download`, `/RunClient`, `/Stop` on localhost:12345 from a thread pool, one async download worker |
| UI thread | `RebornLauncher.cpp` | window, tray, start of further clients, shutdown |
| chunk threads | `ChunkExecutor.cpp` | download the base package |
| game client | `CryptoLoader/dllmain.cpp` inside it | checks the MD5 of every file the game opens, asks the launcher for outdated ones |
| second launcher | `RebornLauncher.cpp` | forwards its start to the running one, takes over from one that hangs, relays self-updates |
| UpdateForge | `UpdateForge/*.cpp` | offline tool that builds the manifest and the packages |

`m_launchFlowMutex` serialises the worker's update, `/RunClient`, `/download`,
the async worker, and (by `try_lock`) the monitor's poll and retries.

### Components

**Update and launch flow.** State: `Version.dat` and the files on disk,
`m_versionState` (file map, MD5 of the local manifest, runtime list),
`updateSelf`, the mutex, the processes. Operations: the steps of
`RunCoordinator::Execute`, `RefreshRemoteVersionManifest`, `DownloadRunTimeFile`,
`HandleSelfUpdateAndExit`, the monitor loop's poll, `/RunClient`, `/download`.
Hard: the manifest becomes the baseline before its files have been downloaded;
polls, failed syncs and kills drop what a diff found; handlers run before the
boot is over, and the load of `Version.dat` takes no mutex. Correct when: no client
starts on a file that is missing or of the wrong size; a stale file at launch has a
known cause; what replaces the launcher is a whole build; the mutex is always
released.

**Base package download.** State: archive, temp file, progress file, chunk states
shared by threads. Operations: size probe and mirror choice, resume, range
requests of several threads into one stream, saves of the progress, single-stream
fallback, replacement, verification, extraction. Hard: snapshots written outside
the lock, kills between write and save, servers that answer a range otherwise
than asked, retries, chunk counts that do not divide. Correct when: progress never claims bytes
the temp file does not hold; a resumed download is the archive; every call ends.

**File download.** State: the local file, the response stream, two attempts.
Operations: busy check, size probe, resume or restart, verification, reset,
deferral. Hard: a local file of another version or length, servers without ranges,
cut bodies and error pages, clients holding the file, kills. Correct when: a
success is the listed content; without a fault the call does not fail; a resumed
file has no block out of place; every call ends.

**File requests and deferred updates.** State: async queue and key set, deferred
queue and path set, the call under the mutex. Operations: `/download` in both
modes, the async worker, `EnqueueDeferredFileUpdate`,
`ProcessDeferredFileUpdates`, poll and `/RunClient` as the writers of the map.
Hard: take, retry and requeue against new requests for the same page; a map
replaced between lookup and verification; queues whose worker stalls; tasks that
outlive their manifest. Correct when: no request uses an outdated URL, no
postponed file is lost, and what can still be saved is saved.

**Web service listener and shutdown.** State: `m_runtimeState.run`,
`m_activeWebServer`, the recovery flag, the tracked game processes. Operations:
listen, restart, `/Stop`, `Stop()`, `RequestWebServiceRecovery`, launch and
termination of clients. Hard: a stop that reaches no listener, a recovery flag
consumed by another stop, a client launched while all are being terminated, the
HTTP client destroyed under a download.

**Single instance, relaunch and relay.** State: the named mutex, the running
launcher processes, the files of the two install locations. Operations:
forwarding a start to `/RunClient` with retries, killing a launcher that does not
answer, relocation, promotion of `UpdateTemp.exe`. Hard: a request that times
out but is served later, delete before copy, two processes exchanging the mutex.

**CryptoLoader hook.** State: the MD5 cache, the version map read from shared
memory, the time of the last request. Operations: the hooked file check, the
request to the launcher, the worker that refreshes the map. Hard: stale cache
entries, cooldown, a blocking request inside the game's file access.

**Archive extraction.** State: the entries, the common directory of the `.exe`
files, the threads with their parts of the archive, a flag for a failure.
Operations: scan, partition, one extraction per thread, join. Hard: shares that do
not divide, a thread that fails while others write, a kill that leaves a part.
Correct when: an extraction that reports success has put every entry in its place.

**UpdateForge.** State: the version folders, the task list of the pool with its
shared index, the results, `Version.dat` and its hash, the archive. Operations:
Generate (enumerate, hash in threads, write), Compare and Pack. Hard: folders that
change while threads read them, files that cannot be read, writes nobody looks at,
a window closed meanwhile. Correct when: what is reported as generated or packed
describes the folders.

**Bootstrap configuration** (`Manifest.cpp:253-577`): fetches and decodes where
the server is. **Path keys** (`Manifest.cpp:108-139`, `WebService.cpp:44-90`):
slash and case conventions of pages. **P2P client and controller**: candidate
downloads from peers, settings. **Shared mappings** (`Mapping.cpp`): the
version map offered to clients. **Window, tray, splash, logging, hashing, sprites**: presentation and wrappers of
library calls.

## Modules

| Module | Models | Proofs |
|---|---|---|
| `UpdateFlow` | update and launch flow, crashes, relay, web handlers as seen by it | `UpdateFlowProofs` |
| `ChunkDownload` | base package download | `ChunkDownloadProofs` |
| `DownloadContract` | what a caller of `DownloadWithResume` may rely on | |
| `FileDownload` | one `DownloadWithResume` call, step by step | `FileDownloadProofs` |
| `FileRequests` | requests, async queue, deferred queue | `FileRequestsProofs` |
| `SingleInstance` | launcher processes, `/RunClient` requests, takeover, the web listener | `SingleInstanceProofs` |
| `CryptoLoaderHook` | the hook in a game client, the shared MD5 map, the downloads it asks for | `CryptoLoaderHookProofs` |
| `Relay` | relocation, `UpdateTemp.exe` and its promotion, as processes over files | `RelayProofs` |
| `Files` | pages and contents of a release | |
| `UpdateForge` | Generate with its worker and thread pool, Compare and Pack | |
| `Archive` | `Extract7z`: scan, prefix, partition, threads | |
| `Release` | composes `UpdateForge` and `Archive`: folders, archive, install directory | `ReleaseProofs` |
| `MC...` | instances for TLC, restricted environments, the properties that fail | |

`UpdateFlow` takes a `DownloadWithResume` call as one step with the outcomes of
`DownloadContract`; `FileDownload` implements that contract (property `KeepsContract`,
theorem `CallsKeepContract`). `FileRequests` has the writes and the end of every
call, and all its callers together implement the contract once more for every file
(`CallsContracted`, theorem `AllCallsContracted`). `RelayPromotes` of
`UpdateFlow` is one step for what `Relay` does in ten. In all modules a content
stands for its bytes and its MD5, a page for its normalised path.

### UpdateFlow

`run` is the program counter of `Execute` (boot, base package, extraction, load,
refresh, sync, self-update, launch, monitor, error box), `web` that of the handler
that owns the mutex. `disk`, `verdat`, `updateTemp` and `dataDir` survive a `Crash`; the
rest is memory. `runtimeList` holds what a running sync has still to reach; it is empty
outside a sync, because every sync rebuilds it. `SyncList` is
`BuildPrelaunchSyncList` with and without a baseline; `WriteVersionDat` (which may fail
or be cut) comes before any download. A call of `DownloadWithResume` that goes wrong
leaves any content (`Wreck`). `RetryDeferred` may retry any page, also one that has left
the map, which covers the deferred queue of `FileRequests`. Entries without an MD5 are
not modelled: UpdateForge always writes one (`UpdateForge.cpp:1654`).

The worker takes the mutex only after the load, while handlers are served from the base
package on. What is not under the mutex is therefore in steps:

- The load: `ReadVersionDat` reads the file (a broken one, if a handler is writing it),
  `LoadMd5` sets the MD5, `LoadLine` copies one line at a time (`loaded`, `unread`),
  `LoadRuntimeList` appends the `runtime` array to the list, also under a sync.
- The refresh of a handler: `WebRefresh` fetches and copies the map (`before`,
  `fetched`), `WebReplacesMap` writes `Version.dat` and replaces the map,
  `WebBuildsList` diffs and sets the MD5. A whole `/RunClient` or any part of it may
  fall between two steps of the load, and the other way round. The worker's own refresh and the
  poll are one step (`RefreshManifest`), since they run under the mutex and with no load about.
- The extraction: `ExtractPart` truncates a page and writes a part of it, `ExtractPage`
  writes its last block, `ExtractionEnds` leaves what a failed thread wrote, `./Data` included.
  `Archive` has the threads.

Two threads in one `unordered_map` at once are undefined behaviour; the model has the
ordered outcomes, and the death of the process as `Crash`.

`exposed` is a history variable: the pages whose difference was dropped by a poll, a
failed or killed sync, or a diff without a baseline, or that were written under a
baseline they do not match: extracted after a handler's refresh, or diffed or
downloaded while the load puts an older line over the handler's (`Overwritten`,
`Verified`). `wrecked` says that a `/RunClient` failed at `UpdateTemp.exe` and left it to
be started.

Runs. `update_flow`: three pages, two manifests, an image replaced by one of
equal size and a new data file; everything may fail, be killed or requested at
any moment (642,672 states, 2 minutes). `self_update`: a new launcher build together with
a page that is reserved, with requests, failures, kills and relays (5,734,420 states, 2
minutes). `poll_drops_list` restricts the
environment to polling and shows how a client is launched on an old file of equal
size, against the documented policy. Two contents of one size and one of another
are what the size checks can and cannot tell apart; two manifests give one
update, and `Crash` and the retained `Version.dat` chain several.

Fairness: the owner of the mutex goes on (`OwnerStep`), since connections
time out after 8 s and reads after 30 or 60 s. Nothing is assumed of requests,
users, crashes, the load or the server.

Proved: `TypeCorrect`, `LaunchesSized`, `LaunchesExact`, `RestartsTracked`,
`SelvesWhole`, without any assumption on the environment. They
need who owns the mutex in which phase, and what a refresh and a load hold (`FlowOwned`),
that the list is empty when nobody syncs (`ListOwned`), and that every stale page is exposed or still
listed (`AllTracked`): for the map in memory (`MemoryTracked`), for the copy a handler took of it
(`BeforeTracked`), for `Version.dat` (`DiskTracked`) and for what the load has read of it and not
yet copied (`LoadTracked`), since each may be the baseline of the next diff. Between the
replacement of the map and the diff, it is the map that was replaced.
`SyncedSizes` carries the size check through a sync. `SelvesWhole` needs
`SelfInv`: while `updateSelf` is set and `Execute` goes on,
`UpdateTemp.exe` is whole or `wrecked`, and the entry of the launcher in the file map is
that of some manifest. The exception is real: `updateSelf` is set before the download
(`RuntimeUpdater.cpp:100`) and kept when it fails, so the worker later starts what a
failed `/RunClient` left. `FlowRunsOut` is the safety half of `FlowReleased`: every step of
the mutex's owner leaves fewer stages or fewer listed pages before its release, and
nobody else adds any, but the worker when it loads `Version.dat` under a sync of
`/RunClient`, once.

Known behaviour without a run of its own: a kill between the write of `Version.dat`
(`Manifest.cpp:770`) and the end of the sync leaves files of equal size outdated for
good, because the next start takes the new manifest for its baseline
(`RestartTracked` counts them as exposed); a `/RunClient` served before
`LoadLocalVersionState` diffs by size only; one served during it may launch on files newer or
older than the map, which the load has overwritten with the older `Version.dat`; a kill or
a failure inside `Extract7z` leaves `./Data`, so the rest of the package is never extracted.

### ChunkDownload

Positions of the file stand for its blocks; a block is one call of the receiver.
Every worker has its chunk, its response and its snapshot; `buffer` is the last
write that has not been flushed, which a kill may lose. Responses are the range
asked for, the whole file, or an error page, and may end anywhere. `spoilt` is a
history flag for the causes under which the code does not protect the temp file:
a body that is not the range (written before its status is known,
`ChunkExecutor.cpp:131`), a lost buffer, a temp file rebuilt under an old progress
file. Mirrors share one archive and one progress file. Failures to delete the temp
or progress file after the fallback are left out; two overlapping writes of the
progress file are abstracted to the old, the new or none, so a parsable mix of both, which
the code does not exclude (`ChunkState.cpp:73-92`), is left out.

Runs. `chunk_replies`: three blocks in chunks of two, so one chunk takes two blocks and
the last is shorter, two workers with two attempts at a chunk, every kind of answer,
kills, with fairness (669,477 states, 2 minutes). A response that ends early, is empty or
is an error page is therefore followed by a second request of the same chunk, from where its
count stands. `SpoiltOnce` bounds the run: what one call has spoilt is not taken up by
another one. Nothing is lost of the call that spoils it, which goes on to its end under
`ExecutorEnds`; the other properties say nothing of a spoilt temp file, and the proofs have no
such bound. `chunk_stale_progress`: without kills, P2P or failing saves the code still reports a
download whose archive is not the server's. Two workers are enough to interleave
requests, writes, snapshots and saves of different chunks, which is all they
share; one mirror is enough for them, since the next one starts with workers of its own.

Fairness: some worker goes on, or the join that follows them, because reads time out after
30 s.

Proved: `TypeCorrect`, `ArchiveExact`, `Accounted` and `ResumeSafe`
for any size, chunk size, number of threads, attempts and mirrors, and that a
late snapshot in the progress file never claims more than the state (`NeverAhead`, a
conjunct of `IInv`; theorem `SnapshotsLag`). `CallsRunOut` is the safety half of
`ExecutorEnds`: every step ends the call, goes on to a later mirror or step, or
brings one worker closer to the end of its chunks without setting another back
(`CallAdvances`). The invariant says that workers keep to their own chunks (`Turn`), write where the
count of their chunk stands (`Placed`), never count past a chunk's length
(`CountsFit`), and that what any count claims is in the file or its buffer
(`Kept`).

### DownloadContract and FileDownload

The contract has the file of one page and the calls for it: the file changes only under
a call while no client keeps it from being written (`Write`), a call completes no
content but that of its URL, success means the listed content, of the length the URL
reports (`Deliver`), and only a caller that allows it is told of a postponed file, which
a client holds (`Postpone`). A call that fails, or is killed, promises nothing more of
the file (`Fail`).

A URL contains the time stamp of its content, so what it serves never changes,
while the manifest used for verification may list another content (a deferred task
of an older manifest). `FileDownload` has the steps of `DownloadWithResume` and
`DownloadHttp`: busy check, probe of the remote size, choice of offset, answer,
blocks into the open stream, end, verification, reset, second attempt. `lock` is a
client's handle: none, one that shares writing, one that excludes it; it may
change between any two steps. `Kill` may come anywhere. The P2P branch is left
out: no caller passes `allowP2P`. Responses are assumed to be framed (length or
chunks), so a cut body is noticed; `Longest` bounds how often an error page is
appended; sizes are not narrowed to `int`.

Run `file_download`: contents of one, three and no blocks, call after call on
what the last one left (93,828 states). It checks `FailsOnlyOnFault`, `CleanResume`, the
refinement `KeepsContract` and `CallReturns` under weak fairness of the call's
steps (connections and reads time out).

Proved: all of these except `CallReturns`, of which `CallRunsOut` has the safety half: a
running call has at most `2 * Length + 12` steps of its own to go, and each leaves
fewer, whatever servers and clients do. `Stream` ties the open stream and its
offset to the local file, `Placed` says which blocks are where while a clean file
is written, `Sized` that a known size is the length of the URL's content, which the contract needs
for `Deliver`, `Fresh` that a second
attempt after a rejected file starts from nothing.

### FileRequests

Starts with a client running and the monitor looping. Spellings of a page resolve
to the page or to nothing, and have a normalised key; the async queue holds
spellings, its set keys. The deferred queue is a set of tasks, because which task
is due depends on ticks and not on order, with the separate set of paths. A call
is one record (page, URL, may it be deferred) from the lookup to one of its
outcomes: saved, failed with whatever it left, deferred. In between `Writes` puts into
the local file what a response or a reset leaves: all of the content, or something
broken. `/RunClient` makes its calls one after the other under the mutex
(`LaunchStarts`, `LaunchFetches`). `waiting` remembers the URL of a postponed file that
no retry has saved, `ended` how the last call for a page ended.

Runs. `file_requests`: one page that is replaced and then dropped, asked for by its
spelling, by one no manifest lists, and a page that does not exist (61,398
states, with liveness). One page suffices for the liveness properties, which speak of
one page at a time; an instance with two pages of which one is replaced (3,758,660
states) satisfies the same invariants. Known
behaviour without a run of its own: a deferred task keeps the URL of its manifest
(`DownloadResume.cpp:388`, `444`) and fails for ever once the listing has changed, so
`DeferredArrives` speaks of pages whose listing stays. Such a retry first writes the old
content over what another request may have saved meanwhile, and then fails its
verification. In this commit only external clients can send
asynchronous requests: CryptoLoader waits for its downloads and the runtime
update never defers (`RuntimeUpdater.cpp:105`).

Fairness: owners of the mutex go on (timeouts), and a `/RunClient` ends because its list
of pages is finite (strong fairness of `RunClientEnds`, as the model does not count the
pages); the worker gets the mutex because
its rivals release it and the monitor sleeps between its tries; a deferred task
comes due at least every 15 s; the server does not cut every retry of a
page (strong fairness of `RetryCompletes`). `DeferredArrives` only speaks of files the clients let go of.

Proved: `CallsOwned`, `UrlsFresh`, `DeferredKept` and the refinement
`AllCallsContracted`, for queues of any length. The refinement rests on the mutex: the
listing a call is verified against stands still while it runs, because whoever replaces
the map needs the mutex. The invariant ties keys to the queue and the request being served (`QueueKeyed`),
paths to tasks with at most one task per page (`DeferredKeyed`), and the owner of
the mutex to its call (`FlowOwned`).

### SingleInstance

Launcher processes of one directory. `role` is what `wWinMain` has made of a
process, `handle` the processes with a handle of the named mutex (it exists as
long as one of them does), `step` where a request stands: asking, waiting,
recovering the service, terminating the others, closing and creating the mutex.
`flow` is `m_launchFlowMutex` of each launcher and `queue` the `/RunClient`
handlers that wait for it; a handler outlives the client that gave up on it,
and its late answer reaches nobody. `listener` is the loop of
`WebServiceThread`: between two servers, about to listen, listening, and stopped
but waiting for its handlers. The handler's work is in `UpdateFlow`; here it
answers 200 or an error. Only `/RunClient` handlers are counted: the listener also
waits for those of `/download`, which only makes `Drained` later. A process may end or be killed at any step, one that
has ended may start again, and a process that may not be opened survives the
takeover. Left out: failures of `CreateMutex`, the foreground message to the
running window, the games terminated by `/Stop`.

Runs. `single_instance`: two processes, two attempts of a second start, one of
a click before and after the recovery, two at the mutex, and two waiting
handlers per requester (53,826 states, with liveness). Each bound leaves a first and
a last attempt where the code tells them apart; three processes with one attempt
each satisfy the invariants (854,031 states). `healthy_killed`: although attempts
time out only while the mutex is held by somebody at work, the second launcher
terminates a launcher that has taken its request and is updating.

Fairness: requests time out after 2 s, so `GivesUp` comes; waits in the takeover
are bounded; handlers get the mutex because its owners release it; the port does
not stay taken for ever. Nothing is assumed of users, new processes or error
boxes: a worker at a box keeps the mutex, and `ServiceReturns` excludes it.

Proved: `TypeCorrect` and `OneLauncher`, for any number of processes. The
invariant says that the launcher has its handle and only a second launcher takes
over (`RolesKept`), that an attempt is left whenever one is made (`AttemptLeft`),
that only the launcher serves and its worker updates under the mutex
(`ServiceOwned`), and that who waits is queued or served where it waits
(`RequestsKept`, `ServedWaits`). `RequestsRunOut` is the safety half of `RequestEnds`:
phases, attempts and processes to terminate only get fewer, whatever other processes do
(`RequestAdvances`).

### CryptoLoaderHook

A game client with its threads, the launcher's shared MD5 map and its mutex.
`call[t]` is a call of `HandleHookedFileCheck`: the step it has reached and what it
knows (did the file exist on entry, expected MD5, stamp, hash). A `stamp` stands for
size and write time and is assumed to tell every change apart. `section` is the
payload in shared memory; it exists while the launcher (`held`) or the client's
worker (`opened`) has a handle. `coming` is the manifest whose payload is being
copied: a scan during the copy finds in each line the old or the new MD5 of any line
(half of one and half of another may make a whole one), none, or half of one. `cache`, `map` and `recent` are the hook's verdicts, its parsed map, and the
files in their cooldown. `flow` and `job` are the launcher's mutex and the download
under it; `others` are requests that no thread of this client waits for, among them
those it gave up.

Left out: files that are not `.img` and paths outside the game's directory pass the
hook untouched, so `Page` has only the others; normalisation of paths; attaching the
hook. The refresh by a thread of the game is one step, while the worker's is two (open,
scan), since only an open handle is seen by others. A payload longer than the section
that a client keeps alive would be copied past its end (`Mapping.cpp:185`);
the model assumes that payloads fit. `MaxStamp` bounds how often a download is left
halfway; manifests are published in ascending order.

Runs. `crypto_hook`: one thread, one file, a manifest and its successor, every initial
content of the file, with fairness and deadlock checked (230,712 states, 3.5 minutes). `PublishesNew` bounds
it: a manifest that has not changed is not published once more. With it republished the
invariants hold as well (924,048 states, without liveness), and the proofs have no such
bound. One file is
enough, because cache and cooldown of different files do not interact,
other downloads of the launcher are in `others`, and what a line may hold of another one's is
in the proofs. Known behaviour without a run of its own: a second thread that
opens the file within 3 s of the first goes on with the old file while the first
waits for the download (the cooldown, `dllmain.cpp:341`), although
`2026-02-14-102031-cryptoloader-img-sync-download.md:23` says "Hook path must not
continue before requested `.img` download is finished".

Fairness: threads run and calls end by their timeouts; the mutex is released, so
handlers get it; launcher, server and file are not out of reach for ever; the
cooldown ends. Strong fairness of `Hashes`, `Asks` and `FetchEnds("ok")` says that a
repeated attempt succeeds at last. Nothing is assumed of manifests, of other clients or
of what the game opens: `UpdatesArrive` speaks of files the game keeps opening.

Proved: `TypeCorrect`, `VerdictsSound`, `OnlyPublishedTrusted`, `OwnAnswers` and
`ChecksRunOut`, for any number of threads, files and manifests. A verdict stays true for its stamp because metadata are read before the
hash: stamps in the cache and in calls are of the past (`StampsPast`), and a hash
taken under a stamp that is still the file's is of the file as it is (`HashFresh`).
`TrustsPublished` says that what the cache lets pass is a content published since the
game was started, of this or another file, although a scan may meet a payload that is being copied: every line in
the section, the map, a call or a verdict is of one published manifest or cut
(`Origins`), and a cut one matches no file. `AnswersOwn` says that OK is the answer of
the thread's own download, since only one request is served (`ServedOwns`);
`HookAdvances` that a check takes at most eight steps of its thread.

### Relay

The processes that hand over to each other by `--cleanup-pid` and `--cleanup-path`, and
the files they are started from. `file` is what every place holds (a place is the
install directory or another one, with a name): a build, cut short, or nothing.
`step` is where a process stands: `boot`, `cleanup`, `clear`, `copy`, `copying` and
`launch` are `HandleCleanupRelay` and `RelocateLauncherIfNeeded` call by call
(`TerminateVictim`, `DeleteOld`, `ClearTarget`, `CopySelf`, `CopyEnds`, `LaunchTarget`);
`guard` is the mutex of `wWinMain`, as far as two launchers never pass it together
(`SingleInstance` has the rest); `main`, `sync`, `fetching` and `handover` are
`Refresh`, the branch of `DownloadRunTimeFile` for the launcher's page, and
`HandleSelfUpdateAndExit`; `box` is the error box that ends a process. `image` is
the file a process runs from, `victim` and `cleanup` the process and the file it is
to remove, `target` what it copies itself to, `want` the build its sync downloads,
`shortcut` the one on the desktop, `offered` the newest build on the server.
`promoted` and `quiet` are history: the newest build that `UpdateTemp.exe` brought to
its place, and whether anything was killed or failed since the last start by hand.
Windows protects the image of a running process and a file being written (`InUse`);
deletions give up silently. A process may be killed, and a copy or a download fail,
at every step; a launcher may be started by hand from any file at any time.

Run `relay`: two processes, three names (the launcher's, `UpdateTemp.exe`, one a
browser made), two builds, one downloaded copy (388,747 states, 2.5 minutes). Two
processes make every hand-over; the proofs cover more. `Refresh` may begin a self-update
also when the file is the offered build already, as a changed line of the manifest does.

Fairness: each process goes on and ends, since deletions are retried for 2 or 4 s
and waits for a terminated process take 5 s. Nobody has to dismiss a box, start a
launcher, or publish. `UpdateEnds` and `RelocationEnds` speak of hand-overs in which
nothing is killed and nothing fails (`quiet`).

Proved: `LauncherRemains`, `NeverDowngraded` and `RelayShortens`, for any number of
processes, names and builds. A launcher is left because whoever deletes or writes one runs from another
(`ImagesWhole`), and no target is the image of a process (`DeleteFileWithRetry`,
`CopySelf`). No update is undone because nobody copies to `UpdateTemp.exe`
(`TargetsNamed`), a file is written by one process (`Exclusive`), and what stands
there, or is about to, lies between the promoted and the offered build (`Newer`). The relay goes
round in no circle (`Nearer`): who replaces a launcher is nearer to the install
directory and the canonical name (`Distance`), so three copies are the most that follow a
start, if no self-update begins.

Known behaviour without a run of its own: the shortcut of a launcher relocated under
another name keeps that name, and its file is deleted by the promotion
(`2026-02-15-1833-launcher-relocation-and-res-trim.md:16` promises a shortcut after the
relocation), so `RelocationEnds` says no more of it than where it points; a
launcher started by hand from `UpdateTemp.exe` is not switched back by the
updates it finds (line 17 says that `UpdateTemp.exe` switches back to
`RebornLauncher.exe`), so `UpdateEnds` leaves it out; an `UpdateTemp.exe` that is in use and
as long as the listed build is taken for it.

### Release

`UpdateForge` and `Archive` share a page (a sequence of names) and a content
(`Files`); `Release` lets the launcher download what was packed and extract it.

`UpdateForge`: `tree` is the version folders, `app` the window (`m_hWorker`, the modal
dialog), `stage` the detached worker of Generate: `Enumerate` builds `latest`, the
threads of the pool take a task (`Takes`, the `fetch_add` on the index, with the size)
and finish it (`Hashes`), `JoinsPool`, then `Version.dat` is opened, written, read back
and hashed (`OpensDat`, `WritesDat`, `WritesMd5`). `DiffDialogRunPack` compares two
folders, `CreateChangedFilesArchive7z` reads the changed files and packs them.
Meanwhile `Edits` copies or removes files and `Closes` ends the tool. `touched`,
`omitted` and `faulty` record why a reported manifest may differ from the folders;
`origin` is what the two folders held when the archive was begun.

`Archive`: `pool` is `Extract7z` from the scan to the join, `at` and `pos` are the
threads with the entry each is at, `disk` the install directory, `data` the existence of
`./Data`, which decides whether a package is extracted at all. `ExtractRootPrefix`,
`Target`, `Threads`, `PerThread`, `First` and `Last` are the code's functions of the
archive. A thread opens and truncates a file before it writes it; each may fail at
every entry, and the launcher may be killed. `Spawn` has the partition's
overshoot: when `(T-1) * ceil(n/T)` exceeds `n`, the batch of a thread lies partly or
wholly past the end of the entries, and reading it is undefined: the launcher dies, or
the thread gets entries that no archive has and fails.

Run `release`: folders of two versions and one without a number, seven pages, contents of
two sizes, a pool of two threads, four extracting threads, two acts of the developer (287,533
states, 2.5 minutes). Compared with the first version the folder without a number has six
files to pack, which the threads share as two, two and two, the fourth without any: the
extraction can succeed. Compared with the second version it has five, so the fourth thread
begins past the end. Of the three files in which the versions differ two have one place
once `bin` is cut off, so two threads write one file. Two acts (`MaxActs`) are a run and what
disturbs it: files edited while they are hashed or packed, or an archive packed and
then installed. One file can be packed cut short (`Unreadable`). The manifest's time and its
`runtime` list, which no property reads, are left out of `Enumerate` and `WritesDat`
(`UpdateForge.cpp:1600-1605`, `1658-1661`, `1698-1702`).

Fairness: the worker with its pool and the extraction with its threads go on; nothing is
assumed of the developer.

Proved: `ManifestIsExact`, `PackIsInstalled`, `FilesApart`, `Batches`, `BatchesStayInside` and
`WorkRunsOut`, for any folders, pages, threads and entries. For the manifest, the enumeration has found the newest version of each
page (`LatestNewest`), every page is in exactly one of the task list, a thread and the
results (`OnePlace`, `NoneLost`), what was read is of the file that was found
(`ReadRight`), and each stage leaves its file (`Stages`). For the archive, `Packing`
says what it carries, `Phases` and `ThreadInv` that every thread keeps to its batch
and that what it has passed is on the disk; `Batches` shows that the
batches together are all entries and are disjoint, whatever the remainder, and
`BatchesStayInside` that an archive of at least `(Hw-1)^2` files is divided without the
overshoot. `PackInstalls` speaks of archives whose files have places of their own;
`FilesApart` says when that is so: always if every file lies under the directory that
is cut off, so above all if nothing is cut (`Under`). `WorkRunsOut` is the safety
half of `WorkEnds`: what the pool, the worker and the extracting threads have left only
shrinks.

Known behaviour without a run of its own: files that cannot be read, and what comes
after a path that cannot be made relative, are missing from a manifest reported as
generated; a `Version.dat` that cannot be opened and a failed write of
`Version.dat.md5` go unnoticed; deleted files are not packed; a file that cannot be read
to its end is packed cut short with success; an archive whose scan breaks off at a
damaged header is taken to end there (`VerifyArchiveReadable` has read it to its end
before, so the model leaves it out); a failed extraction that has made `./Data` is never
completed. `currentDownloadProgress`, a plain integer that all threads increase, is
only displayed and left out. Folders are assumed to have no negative number.

## What is proved, and from what

The theorems hold for every value of the constants under the assumptions named in
the modules (`ConstantsOK`, `LengthsOK`, `NamesOK` and so on): sets are disjoint
from the markers for absence, functions have the stated domains, sizes are
natural numbers. Each `IInv` is an invariant of a run, so TLC has checked on the
instance what the proof shows in general; it begins with the module's `TypeOK`,
which is no property of its own. Every invariant and action property of the passing
runs is proved, and both refinements of `DownloadContract`.

Liveness under fairness is out of the prover's reach, but the reason why these systems
come to an end is not: `FlowRunsOut`, `CallsRunOut`, `CallRunsOut`, `RequestsRunOut`,
`ChecksRunOut`, `RelayShortens` and `WorkRunsOut` state that a measure of what is left
shrinks with every step of the component and that nobody else raises it, for every
value of the constants. What they leave to TLC is that the component can always take
another step (`ENABLED`) and that the scheduler lets it. Model-checked only: `FlowReleased`, `ExecutorEnds`, `CallReturns`,
`DeferredArrives`, `AsyncServed`, `RequestEnds`, `ServiceReturns`, `MapCatchesUp`,
`UpdatesArrive`, `UpdateEnds`, `RelocationEnds`, `WorkEnds`. The invariants, action
properties and measures that are proved but listed by no run were checked by TLC on the
instances of the runs before they were proved.

## Plan

1. `UpdateFlow`, with its proofs: done.
2. `ChunkDownload`, with its proofs: done.
3. `DownloadContract`, `FileDownload`, with its proofs: done.
4. `FileRequests`, with its proofs: done.
5. `SingleInstance`, with its proofs: done.
6. `CryptoLoaderHook`, with its proofs: done.
7. `Relay`, with its proofs: done.
8. `Files`, `UpdateForge`, `Archive`, `Release`, with their proofs: done.
9. `GameTracking`: launch and termination of clients by the worker, `/RunClient`,
   `/Stop` and the monitor's end. Property: every running client is tracked. Not done:
   the code terminates what it knows of at one moment, so the property fails for
   the client launched in between (`LauncherUpdateCoordinator.cpp:376`), and without it
   the module would only keep a list.
10. `DownloadContract` for the calls of all requests together (`FileRequests`): done.
11. What the hook trusts and what it is told (`CryptoLoaderHook`), and the measures behind
   the liveness properties: done.
12. Left: that `UpdateEnds` needs no more hand-overs than `Nearer` counts, also across a
   self-update; a bound on the executor's steps in numbers, as `CallRunsOut` has it.
13. Refinement of `RelayPromotes` of `UpdateFlow` by `Relay`. Not done: `UpdateFlow` has
   one launcher process and its crash, `Relay` several that overlap; the mapping
   would have to hide steps of a process that `UpdateFlow` has already ended.

## Not modelled

The list of game-process handles (item 9). Path keys (`NormalizeManifestPathKey`,
`NormalizeLocalOnlyPathKey`) and the decoding of the bootstrap configuration: functions
from strings to strings, with no state; the models identify a page with its key.
The P2P client's loop over candidates and the settings dialog: an attempt that
succeeds or fails, which is one step of `ChunkDownload`. UpdateForge's buttons that
encrypt and decrypt a JSON text, its saved settings, layout and progress display: they
share no state with its runs. Drawing, sprites, window tracking, logging, dialogs and
the wording of messages. Hash and encryption functions (a content is its hash). The
legacy `CryptoLoader/FileManager.cpp` and `FileSystemHook.cpp`, and
`WriteDataToMapping`, which nothing calls.
