----------------------------- MODULE FileRequests -----------------------------
(***************************************************************************)
(* What becomes of the files a running game client asks for: the /download *)
(* handler, the queue of asynchronous requests and its worker, the queue   *)
(* of deferred files that the monitor loop retries, and the manifest that  *)
(* polls and /RunClient replace in between, all under m_launchFlowMutex.   *)
(*                                                                         *)
(* A DownloadWithResume call is one record, any number of writes and one   *)
(* outcome, those that DownloadContract allows; FileDownload has its       *)
(* steps.  The deferred queue is a set: which task is due is a matter of   *)
(* ticks, not of order.                                                    *)
(***************************************************************************)
EXTENDS Integers, Sequences

CONSTANTS
  Page,     \* pages the manifests may list
  Name,     \* pages as clients spell them
  PageOf,   \* the page a spelling resolves to, or NoPage
  Key,      \* spellings with one kind of slash and one case
  KeyOf,    \* NormalizeAsyncQueueKey
  Content,  \* contents; each has a URL of its own
  Size,     \* their lengths
  Latest,   \* manifests are published in the order 1 .. Latest
  Listing,  \* Listing[m][p]: the content manifest m gives p, or NoEntry
  NoPage, NoEntry, NoTask,
  Broken    \* a missing, partial or foreign file

Manifest == 1 .. Latest
Task == [page : Page, url : Content]
Call == [page : Page, url : Content, deferrable : BOOLEAN]

ASSUME ConstantsOK ==
  /\ PageOf \in [Name -> Page \cup {NoPage}] /\ NoPage \notin Page
  /\ KeyOf \in [Name -> Key]
  /\ Size \in [Content -> Nat]
  /\ Latest \in Nat \ {0}
  /\ Listing \in [Manifest -> [Page -> Content \cup {NoEntry}]]
  /\ NoEntry \notin Content /\ Broken \notin Content /\ NoTask \notin Name \cup Call

VARIABLES
  remote,   \* the manifest the server serves
  files,    \* m_versionState.files, as the manifest it was read from
  local,    \* the local file of every page
  busy,     \* pages whose file a client keeps from being written
  flow,     \* owner of m_launchFlowMutex
  queue,    \* asyncQueue
  queued,   \* asyncQueuedPages
  worker,   \* where the async worker stands
  task,     \* the request it took from the queue, or NoTask
  call,     \* the DownloadWithResume call that runs, or NoTask
  ended,    \* history: how the last call for a page ended
  deferred, \* deferredUpdateQueue
  paths,    \* deferredQueuedPaths
  monitor,  \* is MonitorClientsUntilShutdown looping
  game,     \* is a client running
  waiting   \* history: the URL of a postponed call that no retry has saved, or NoEntry

async == <<queue, queued, worker, task>>
calls == <<call, ended>>
retries == <<deferred, paths>>
vars == <<remote, files, local, busy, flow, async, calls, retries, monitor, game, waiting>>

TypeOK ==
  /\ remote \in Manifest /\ files \in Manifest
  /\ local \in [Page -> Content \cup {Broken}]
  /\ busy \subseteq Page
  /\ flow \in {"free", "async", "sync", "retry", "launch"}
  /\ queue \in Seq(Name) /\ queued \subseteq Key
  /\ worker \in {"wait", "lock", "fetch", "erase"}
  /\ task \in Name \cup {NoTask}
  /\ call \in Call \cup {NoTask}
  /\ ended \in [Page -> {"none", "ok", "deferred", "failed"}]
  /\ deferred \subseteq Task /\ paths \subseteq Page
  /\ monitor \in BOOLEAN /\ game \in BOOLEAN
  /\ waiting \in [Page -> Content \cup {NoEntry}]

Listed(p) == Listing[files][p]

-----------------------------------------------------------------------------
(* The deferred queue (DownloadResume.cpp).                                *)

\* Variants with a bug: a page already queued keeps its URL, or is queued again.
EnqueueOnce(p, url) ==
  /\ deferred' = IF p \in paths THEN deferred ELSE deferred \cup {[page |-> p, url |-> url]}
  /\ paths' = paths \cup {p}
EnqueueAgain(p, url) ==
  /\ deferred' = deferred \cup {[page |-> p, url |-> url]}
  /\ paths' = paths \cup {p}

\* EnqueueDeferredFileUpdate: a task of the page gets the new URL.
Enqueue(p, url) ==
  /\ deferred' = {t \in deferred : t.page # p} \cup {[page |-> p, url |-> url]}
  /\ paths' = paths \cup {p}

\* requeueTask: a task that was queued meanwhile takes precedence.
Requeue(p, url) ==
  /\ deferred' = IF p \in paths THEN deferred ELSE deferred \cup {[page |-> p, url |-> url]}
  /\ paths' = paths \cup {p}

\* Variant with a bug: the path stays in the set while the task is out.
TakeKeepsPath(t) == deferred' = deferred \ {t} /\ UNCHANGED paths

Take(t) == deferred' = deferred \ {t} /\ paths' = paths \ {t.page}

-----------------------------------------------------------------------------
(* The running DownloadWithResume call.                                    *)

Empty == {c \in Content : Size[c] = 0}

\* A part of the content, all of it, or nothing: what a response and a reset leave.
Writes ==
  LET p == call.page IN
  /\ call # NoTask /\ p \notin busy
  /\ \E c \in {call.url, Broken} \cup Empty : local' = [local EXCEPT ![p] = c]
  /\ UNCHANGED <<remote, files, busy, flow, async, calls, retries, monitor, game, waiting>>

Ends(how) ==
  /\ call' = NoTask /\ ended' = [ended EXCEPT ![call.page] = how] /\ UNCHANGED local

\* A broken file may be of any length; the length 0 of a URL is not checked.
Fits(c, url) == c \in Content /\ Size[url] > 0 => Size[c] = Size[url]

\* Variant with a bug: the length is enough.
VerifiesSize == Fits(local[call.page], call.url)

Verifies ==
  /\ Fits(local[call.page], call.url)
  /\ Listed(call.page) # NoEntry => local[call.page] = Listed(call.page)

Saves == Verifies /\ Ends("ok")

Fails == Ends("failed")

Defers == /\ call.deferrable /\ call.page \in busy
          /\ Enqueue(call.page, call.url)
          /\ waiting' = [waiting EXCEPT ![call.page] = call.url]
          /\ Ends("deferred")

-----------------------------------------------------------------------------
(* executeClientDownload.                                                  *)

Lists(m, n) == PageOf[n] # NoPage /\ Listing[m][PageOf[n]] # NoEntry

\* A page missing from the map triggers a refresh, which may fail.
Finds(n) ==
  \/ Lists(files, n) /\ UNCHANGED files
  \/ ~Lists(files, n) /\ Lists(remote, n) /\ files' = remote

FindsNothing(n) ==
  /\ ~Lists(files, n)
  /\ \/ UNCHANGED files
     \/ ~Lists(remote, n) /\ files' = remote

Starts(n, mayDefer) ==
  call' = [page |-> PageOf[n], url |-> Listing[files'][PageOf[n]], deferrable |-> mayDefer]

\* Variant with a bug: the spelling, not the key, is remembered.
RequestAsyncSpelled(n) ==
  /\ n \notin queued
  /\ queue' = Append(queue, n) /\ queued' = queued \cup {n}
  /\ UNCHANGED <<remote, files, local, busy, flow, worker, task, calls, retries, monitor, game, waiting>>

\* /download?mode=async: a page queued or being served is not queued again.
RequestAsync(n) ==
  /\ KeyOf[n] \notin queued
  /\ queue' = Append(queue, n) /\ queued' = queued \cup {KeyOf[n]}
  /\ UNCHANGED <<remote, files, local, busy, flow, worker, task, calls, retries, monitor, game, waiting>>

WorkerPops ==
  /\ worker = "wait" /\ queue # <<>>
  /\ task' = Head(queue) /\ queue' = Tail(queue) /\ worker' = "lock"
  /\ UNCHANGED <<remote, files, local, busy, flow, queued, calls, retries, monitor, game, waiting>>

\* Variant with a bug: the early return for an unknown page keeps the mutex.
WorkerStartsLocked ==
  /\ worker = "lock" /\ flow = "free" /\ flow' = "async"
  /\ \/ Finds(task) /\ Starts(task, TRUE) /\ worker' = "fetch"
     \/ FindsNothing(task) /\ worker' = "erase" /\ UNCHANGED call
  /\ UNCHANGED <<remote, local, busy, queue, queued, task, ended, retries, monitor, game, waiting>>

WorkerStarts ==
  /\ worker = "lock" /\ flow = "free"
  /\ \/ Finds(task) /\ Starts(task, TRUE) /\ worker' = "fetch" /\ flow' = "async"
     \/ FindsNothing(task) /\ worker' = "erase" /\ UNCHANGED <<flow, call>>
  /\ UNCHANGED <<remote, local, busy, queue, queued, task, ended, retries, monitor, game, waiting>>

WorkerFetches ==
  /\ worker = "fetch" /\ worker' = "erase" /\ flow' = "free"
  /\ \/ (Saves \/ Fails) /\ UNCHANGED <<retries, waiting>>
     \/ Defers
  /\ UNCHANGED <<remote, files, busy, queue, queued, task, monitor, game>>

\* The mutex is free already: a request in this gap is told ALREADY_QUEUED.
WorkerErases ==
  /\ worker = "erase" /\ worker' = "wait"
  /\ queued' = queued \ {KeyOf[task]} /\ task' = NoTask
  /\ UNCHANGED <<remote, files, local, busy, flow, queue, calls, retries, monitor, game, waiting>>

\* The blocking /download, from the moment its handler has the mutex.
RequestSync(n) ==
  /\ flow = "free"
  /\ \/ Finds(n) /\ Starts(n, FALSE) /\ flow' = "sync"
     \/ FindsNothing(n) /\ UNCHANGED <<flow, call>>
  /\ UNCHANGED <<remote, local, busy, async, ended, retries, monitor, game, waiting>>

SyncFetches ==
  /\ flow = "sync" /\ flow' = "free"
  /\ Saves \/ Fails
  /\ UNCHANGED <<remote, files, busy, async, retries, monitor, game, waiting>>

-----------------------------------------------------------------------------
(* The monitor loop: both its duties under try_lock.                       *)

\* Variant with a bug: the poll does not try the mutex.
PollAnyTime ==
  /\ monitor /\ game /\ flow # "retry"
  /\ files' = remote
  /\ UNCHANGED <<remote, local, busy, flow, async, calls, retries, monitor, game, waiting>>

PollManifest ==
  /\ monitor /\ game /\ flow = "free"
  /\ files' = remote
  /\ UNCHANGED <<remote, local, busy, flow, async, calls, retries, monitor, game, waiting>>

\* ProcessDeferredFileUpdates; a file that is busy goes back to the queue at once.
RetryStarts(t) ==
  /\ monitor /\ game /\ flow = "free" /\ t \in deferred /\ t.page \notin busy
  /\ Take(t)
  /\ call' = [page |-> t.page, url |-> t.url, deferrable |-> FALSE] /\ flow' = "retry"
  /\ UNCHANGED <<remote, files, local, busy, async, ended, monitor, game, waiting>>

RetrySaves ==
  /\ flow = "retry" /\ flow' = "free" /\ Saves
  /\ waiting' = [waiting EXCEPT ![call.page] = NoEntry]
  /\ UNCHANGED <<remote, files, busy, async, retries, monitor, game>>

RetryFails ==
  /\ flow = "retry" /\ flow' = "free" /\ Fails /\ Requeue(call.page, call.url)
  /\ UNCHANGED <<remote, files, busy, async, monitor, game, waiting>>

\* No client is left, so nobody looks at the deferred queue any more.
MonitorEnds ==
  /\ monitor /\ ~game /\ flow # "retry" /\ monitor' = FALSE
  /\ UNCHANGED <<remote, files, local, busy, flow, async, calls, retries, game, waiting>>

-----------------------------------------------------------------------------
(* The rest of the system.                                                 *)

\* /RunClient refreshes, syncs the pages its diff finds (module UpdateFlow), one call
\* after the other, and launches; a call that fails ends it.
RunClient ==
  /\ flow = "free" /\ flow' = "launch" /\ files' = remote
  /\ UNCHANGED <<remote, local, busy, async, calls, retries, monitor, game, waiting>>

LaunchStarts(p) ==
  /\ flow = "launch" /\ call = NoTask /\ Listed(p) # NoEntry
  /\ call' = [page |-> p, url |-> Listed(p), deferrable |-> FALSE]
  /\ UNCHANGED <<remote, files, local, busy, flow, async, ended, retries, monitor, game, waiting>>

LaunchFetches ==
  /\ flow = "launch" /\ call # NoTask
  /\ \/ Saves /\ UNCHANGED flow
     \/ Fails /\ flow' = "free"
  /\ UNCHANGED <<remote, files, busy, async, retries, monitor, game, waiting>>

RunClientEnds ==
  /\ flow = "launch" /\ call = NoTask /\ flow' = "free" /\ game' \in {game, TRUE}
  /\ UNCHANGED <<remote, files, local, busy, async, calls, retries, monitor, waiting>>

Opens(p) ==
  /\ game /\ p \notin busy /\ busy' = busy \cup {p}
  /\ UNCHANGED <<remote, files, local, flow, async, calls, retries, monitor, game, waiting>>

Closes(p) ==
  /\ p \in busy /\ busy' = busy \ {p}
  /\ UNCHANGED <<remote, files, local, flow, async, calls, retries, monitor, game, waiting>>

GameExits ==
  /\ game /\ game' = FALSE /\ busy' = {}
  /\ UNCHANGED <<remote, files, local, flow, async, calls, retries, monitor, waiting>>

Publish ==
  /\ remote < Latest /\ remote' = remote + 1
  /\ UNCHANGED <<files, local, busy, flow, async, calls, retries, monitor, game, waiting>>

Init ==
  /\ remote = 1 /\ files = 1
  /\ local \in [Page -> Content \cup {Broken}]
  /\ busy = {} /\ flow = "free"
  /\ queue = <<>> /\ queued = {} /\ worker = "wait" /\ task = NoTask
  /\ call = NoTask /\ ended = [p \in Page |-> "none"] /\ deferred = {} /\ paths = {}
  /\ monitor = TRUE /\ game = TRUE
  /\ waiting = [p \in Page |-> NoEntry]

Next ==
  \/ \E n \in Name : RequestAsync(n) \/ RequestSync(n)
  \/ WorkerPops \/ WorkerStarts \/ WorkerFetches \/ WorkerErases \/ SyncFetches \/ Writes
  \/ PollManifest \/ (\E t \in Task : RetryStarts(t)) \/ RetrySaves \/ RetryFails
  \/ MonitorEnds
  \/ RunClient \/ (\E p \in Page : LaunchStarts(p)) \/ LaunchFetches \/ RunClientEnds
  \/ (\E p \in Page : Opens(p) \/ Closes(p)) \/ GameExits \/ Publish

Spec == Init /\ [][Next]_vars

-----------------------------------------------------------------------------
(* Fairness.  A call under the mutex is bounded by its timeouts, a sync    *)
(* by its list of pages.  The mutex gets to the worker because its rivals  *)
(* let go of it: the monitor sleeps between two tries.  A task is due      *)
(* again and again, at most 15 s apart, and the server does not cut every  *)
(* retry of a page for ever.                                               *)
RetryCompletes(p) ==
  /\ flow = "retry" /\ Writes
  /\ call.page = p /\ local'[p] = call.url

FairSpec ==
  /\ Spec
  /\ WF_vars(WorkerPops) /\ SF_vars(WorkerStarts) /\ WF_vars(WorkerFetches)
  /\ WF_vars(WorkerErases) /\ WF_vars(SyncFetches)
  /\ WF_vars(LaunchFetches) /\ SF_vars(RunClientEnds)
  /\ WF_vars(RetrySaves \/ RetryFails) /\ WF_vars(MonitorEnds)
  /\ \A t \in Task : SF_vars(RetryStarts(t))
  /\ \A p \in Page : SF_vars(RetryCompletes(p))

-----------------------------------------------------------------------------
(* Properties.                                                             *)

(* A request is verified against the listing its URL was built from: no    *)
(* poll, /RunClient or other request changes the map under a running       *)
(* /download or sync (WebService.cpp:107-161,                              *)
(* LauncherUpdateCoordinator.cpp:386).                                     *)
FreshUrl ==
  flow \in {"async", "sync", "launch"} /\ call # NoTask => call.url = Listed(call.page)

(* A postponed file is not lost while the monitor loops: its newest URL is *)
(* in the deferred queue or in the retry that runs, through every take,    *)
(* requeue and request in between (DownloadResume.cpp:369-449).            *)
NoDeferredLost ==
  \A p \in Page : waiting[p] # NoEntry =>
    \/ [page |-> p, url |-> waiting[p]] \in deferred
    \/ flow = "retry" /\ call.page = p /\ call.url = waiting[p]

(* A file that is postponed and still listed with that content gets it, as *)
(* soon as the clients keep off the file, unless the last client exits     *)
(* (DownloadResume.cpp:369-449, LauncherUpdateCoordinator.cpp:394-400).    *)
DeferredArrives ==
  \A p \in Page : <>[](p \notin busy) =>
    \A v \in Content :
      (waiting[p] = v /\ Listed(p) = v ~> local[p] = v \/ Listed(p) # v \/ ~monitor)

(* The calls for one page, as those of a single DownloadWithResume.        *)
Running(p) == call # NoTask /\ call.page = p
Copy(c) == c
Asked(p) ==
  IF Running(p)
  THEN [url |-> call.url, listed |-> Listed(p), deferrable |-> call.deferrable]
  ELSE NoTask
Of(p) == INSTANCE DownloadContract
           WITH Version <- Content, File <- Content \cup {Broken}, NoRequest <- NoTask,
                file <- local[p], request <- Asked(p),
                outcome <- IF Running(p) THEN "running" ELSE ended[p],
                busy <- p \in busy

(* To the file of every page all calls together, whoever makes them, are   *)
(* one caller after the other of a single DownloadWithResume: the file     *)
(* changes only under a call for it while nobody holds it, success means   *)
(* the listed content, and the listing a call is verified against stands   *)
(* still until it ends (DownloadResume.cpp:111-367, WebService.cpp:102,    *)
(* LauncherUpdateCoordinator.cpp:386-400).                                 *)
CallsContracted ==
  /\ \A p \in Page : Of(p)!Init
  /\ [][\A p \in Page : [Of(p)!Next]_(Of(p)!vars)]_vars

(* Every asynchronous request is taken from the queue and its page can be  *)
(* asked for again (WebService.cpp:216-249).                               *)
AsyncServed == \A k \in Key : k \in queued ~> k \notin queued

-----------------------------------------------------------------------------
(* The inductive invariant.                                                *)

FlowOwned ==
  /\ flow \in {"async", "sync", "retry"} => call # NoTask
  /\ flow = "free" => call = NoTask
  /\ worker = "fetch" <=> flow = "async"
  /\ task # NoTask <=> worker # "wait"

\* The set of keys is that of the queue and of the request being served.
Serving == IF task = NoTask THEN {} ELSE {KeyOf[task]}
QueueKeyed ==
  /\ queued = Serving \cup {KeyOf[queue[i]] : i \in 1 .. Len(queue)}
  /\ \A i \in 1 .. Len(queue) : KeyOf[queue[i]] \notin Serving
  /\ \A i, j \in 1 .. Len(queue) : KeyOf[queue[i]] = KeyOf[queue[j]] => i = j

\* One task per page, and its path in the set.
DeferredKeyed ==
  /\ paths = {t.page : t \in deferred}
  /\ \A s, t \in deferred : s.page = t.page => s = t
  /\ flow = "retry" => call.page \notin paths

IInv == TypeOK /\ FlowOwned /\ QueueKeyed /\ DeferredKeyed /\ FreshUrl /\ NoDeferredLost
=============================================================================
