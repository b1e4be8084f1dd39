---------------------------- MODULE CryptoLoaderHook ----------------------------
(***************************************************************************)
(* The hook that CryptoLoader puts before GetFileAttributesA in a game     *)
(* client: threads of the game check the .img files they open against the  *)
(* MD5 map the launcher publishes in shared memory, and have the launcher  *)
(* download what is missing or outdated.  The launcher replaces the        *)
(* section while it is read, and one download runs at a time.              *)
(*                                                                         *)
(* Pages are .img files of the game's directory: other names pass through. *)
(* A stamp stands for size and write time, which tell every change apart.  *)
(***************************************************************************)
EXTENDS Naturals

CONSTANTS
  Thread,   \* threads of the game
  Page, Content,
  Manifest, \* what is published, one after the other
  Listing,  \* Listing[m][p]: the content, or its MD5, that manifest m lists for p
  First,    \* manifest the launcher starts the game under
  NoEntry, Torn, Absent, Partial, NoManifest, NoPage, NoStamp, NoCache,
  MaxStamp  \* bound of the model: changes after which downloads stop to fail halfway

Md5 == Content \cup {Torn}
Scan == [Page -> Md5 \cup {NoEntry}]
Payload == [Page -> Content \cup {NoEntry}]
Blank == [p \in Page |-> NoEntry]

ASSUME ConstantsOK ==
  /\ Manifest \subseteq Nat /\ First \in Manifest /\ NoManifest \notin Manifest
  /\ NoPage \notin Page /\ Listing \in [Manifest -> Payload]
  /\ {NoEntry, Torn, Absent, Partial} \cap Content = {} /\ Torn \notin {NoEntry, Absent, Partial}
  /\ Absent # Partial /\ NoStamp \notin Nat /\ MaxStamp \in Nat
  /\ NoCache \notin [stamp : Nat, want : Md5, match : BOOLEAN]

VARIABLES
  listed,   \* launcher: manifest of m_versionState.files
  section,  \* shared memory: the payload
  held,     \* shared memory: the launcher has a handle of it (mappingVersion)
  opened,   \* shared memory: the worker of the client has one
  coming,   \* launcher: manifest whose payload is being copied, or NoManifest
  flow,     \* launcher: what the owner of m_launchFlowMutex does
  job,      \* launcher: page of the /download that owns it, or NoPage
  others,   \* launcher: pages whose handlers wait for it, but not for a thread
  disk, stamp, \* files: content, size and write time
  map,      \* client: g_mapFiles
  cache,    \* client: g_fileCheckCache
  recent,   \* client: pages requested within kDownloadRequestCooldownMs
  call,     \* threads: the call of HandleHookedFileCheck
  req       \* threads: the request: none, queued, served, or its outcome

launcher == <<listed, section, held, coming, flow, job>>
files == <<disk, stamp>>
vars == <<launcher, opened, others, files, map, cache, recent, call, req>>

\* What a call knows: the file, whether it existed when the hook was entered, its
\* expected MD5, its stamp and its hash.
Idle == [step |-> "idle", page |-> NoPage, exists |-> FALSE, want |-> NoEntry,
         seen |-> NoStamp, got |-> Absent]

Step == {"idle", "find", "again", "meta", "check", "hash", "note", "gate", "ask"}
Calls == [step : Step, page : Page \cup {NoPage}, exists : BOOLEAN, want : Md5 \cup {NoEntry},
          seen : Nat \cup {NoStamp}, got : Content \cup {Absent, Partial}]

TypeOK ==
  /\ listed \in Manifest /\ section \in Payload /\ held \in BOOLEAN /\ opened \in BOOLEAN
  /\ coming \in Manifest \cup {NoManifest}
  /\ flow \in {"free", "copy", "fetch"} /\ job \in Page \cup {NoPage} /\ others \subseteq Page
  /\ disk \in [Page -> Content \cup {Absent, Partial}] /\ stamp \in [Page -> Nat]
  /\ map \in Scan
  /\ cache \in [Page -> [stamp : Nat, want : Md5, match : BOOLEAN] \cup {NoCache}]
  /\ recent \subseteq Page
  /\ call \in [Thread -> Calls]
  /\ req \in [Thread -> {"none", "queued", "served", "ok", "failed"}]

At(t, s) == call[t].step = s
Goes(t, to) == call' = [call EXCEPT ![t].step = to]
Leaves(t) == call' = [call EXCEPT ![t] = Idle]

\* From here the call needs only the page.
ToGate(t) == call' = [call EXCEPT ![t] = [Idle EXCEPT !.step = "gate", !.page = call[t].page]]

-----------------------------------------------------------------------------
(* The shared memory.                                                      *)

\* A section lives as long as somebody has a handle.
Exists == held \/ opened

\* What a scan may find: during a copy a line may be cut or missing, and its MD5 may be
\* that of any old or new line that is found where its own is expected.
Found(scan) ==
  IF coming = NoManifest THEN scan = section
  ELSE \A p \in Page : \/ scan[p] \in {NoEntry, Torn}
                       \/ \E q \in Page : scan[p] \in {section[q], Listing[coming][q]}

\* WriteVersionToMapping closes its handle and creates the section by name: a section
\* that a client has open is found again with what it holds.  No lines, no section.
Recreates ==
  /\ flow = "free"
  /\ \E m \in Manifest :
       /\ m >= listed
       /\ \/ /\ Listing[m] # Blank /\ coming' = m /\ flow' = "copy" /\ held' = TRUE
             /\ section' = IF opened THEN section ELSE Blank
             /\ UNCHANGED listed
          \/ /\ Listing[m] # Blank /\ listed' = m /\ held' = FALSE
             /\ UNCHANGED <<coming, flow, section>>
          \/ Listing[m] = Blank /\ listed' = m /\ UNCHANGED <<coming, flow, section, held>>
  /\ UNCHANGED <<opened, job, others, files, map, cache, recent, call, req>>

\* The new list is used as soon as its payload is there.
Copies ==
  /\ flow = "copy" /\ section' = Listing[coming] /\ listed' = coming
  /\ coming' = NoManifest /\ flow' = "free"
  /\ UNCHANGED <<held, opened, job, others, files, map, cache, recent, call, req>>

\* RefreshVersionMapFromSharedMemory: the lines that were found are the new map. Files
\* that are not modelled have lines as well, but when there is none nothing changes.
Swaps == \E scan \in Scan : Found(scan) /\ map' = scan
FindsNone == Found(Blank) /\ UNCHANGED map

\* Variant with a bug: the worker is done once it has a map.
WorkerOpensOnce ==
  /\ map = Blank /\ ~opened /\ Exists /\ opened' = TRUE
  /\ UNCHANGED <<launcher, others, files, map, cache, recent, call, req>>

\* VersionMapRefreshWorkerProc, which the client's first check has started.
WorkerOpens ==
  /\ ~opened /\ Exists /\ opened' = TRUE
  /\ UNCHANGED <<launcher, others, files, map, cache, recent, call, req>>

WorkerScans ==
  /\ opened /\ opened' = FALSE /\ (Swaps \/ FindsNone)
  /\ UNCHANGED <<launcher, others, files, cache, recent, call, req>>

-----------------------------------------------------------------------------
(* The hook.                                                               *)

\* GetFileAttributesA is called, and the check begins with its result.
Looks(t, p) ==
  /\ At(t, "idle")
  /\ call' = [call EXCEPT ![t] =
                [Idle EXCEPT !.step = "find", !.page = p, !.exists = (disk[p] # Absent)]]
  /\ UNCHANGED <<launcher, opened, others, files, map, cache, recent, req>>

Lists(t) == map[call[t].page] # NoEntry

\* TryGetExpectedMd5ByKey; a file that did not exist is requested at once.
Expects(t) ==
  /\ At(t, "find") \/ At(t, "again")
  /\ Lists(t)
  /\ IF call[t].exists
     THEN call' = [call EXCEPT ![t].step = "meta", ![t].want = map[call[t].page]]
     ELSE ToGate(t)
  /\ UNCHANGED <<launcher, opened, others, files, map, cache, recent, req>>

\* The map is refreshed for a file it does not list (in one step: what an open handle of
\* the section does is seen with the worker).  A file is passed through when the refresh
\* fails, and when it is still not listed.
Refreshes(t) ==
  /\ At(t, "find") /\ ~Lists(t)
  /\ \/ Exists /\ Swaps /\ Goes(t, "again")
     \/ Exists /\ FindsNone /\ Leaves(t)
     \/ ~Exists /\ Leaves(t) /\ UNCHANGED map
  /\ UNCHANGED <<launcher, opened, others, files, cache, recent, req>>

NotListed(t) ==
  /\ At(t, "again") /\ ~Lists(t) /\ Leaves(t)
  /\ UNCHANGED <<launcher, opened, others, files, map, cache, recent, req>>

\* The file may be gone by now, and its attributes may be unreadable.
ReadsMetadata(t) ==
  /\ At(t, "meta")
  /\ \/ disk[call[t].page] = Absent /\ ToGate(t)
     \/ /\ disk[call[t].page] # Absent
        /\ call' = [call EXCEPT ![t].step = "check", ![t].seen = stamp[call[t].page]]
     \/ Goes(t, "hash")
  /\ UNCHANGED <<launcher, opened, others, files, map, cache, recent, req>>

\* Variant with a bug: the cached verdict is kept when the expected MD5 changes.
HitAnyMd5(t) == LET entry == cache[call[t].page] IN
  entry # NoCache /\ entry.stamp = call[t].seen

\* TryGetCachedMd5Result.
Hit(t) == LET entry == cache[call[t].page] IN
  entry # NoCache /\ entry.want = call[t].want /\ entry.stamp = call[t].seen

Checks(t) ==
  /\ At(t, "check")
  /\ IF ~Hit(t) THEN Goes(t, "hash")
     ELSE IF cache[call[t].page].match THEN Leaves(t) ELSE ToGate(t)
  /\ UNCHANGED <<launcher, opened, others, files, map, cache, recent, req>>

\* ComputeFileMd5.  A file that changed since the metadata was read may be hashed in part.
Hashes(t) ==
  /\ At(t, "hash") /\ disk[call[t].page] # Absent
  /\ \E content \in {disk[call[t].page], Partial} :
       /\ content = disk[call[t].page] \/ stamp[call[t].page] # call[t].seen
       /\ call' = [call EXCEPT ![t].step = "note", ![t].got = content]
  /\ UNCHANGED <<launcher, opened, others, files, map, cache, recent, req>>

\* The file is gone or cannot be read.
HashFails(t) ==
  /\ At(t, "hash") /\ Leaves(t)
  /\ UNCHANGED <<launcher, opened, others, files, map, cache, recent, req>>

\* UpdateCachedMd5Result, unless the metadata could not be read.
Caches(t, at) ==
  cache' = [cache EXCEPT ![call[t].page] =
              [stamp |-> at, want |-> call[t].want, match |-> call[t].got = call[t].want]]

Verdict(t) ==
  /\ IF call[t].got = call[t].want THEN Leaves(t) ELSE ToGate(t)
  /\ UNCHANGED <<launcher, opened, others, files, map, recent, req>>

\* Variant with a bug: the metadata is read after the hash.
NotesLate(t) == At(t, "note") /\ Caches(t, stamp[call[t].page]) /\ Verdict(t)

\* Variant with a bug: a verdict is cached under metadata that could not be read.
NotesAnyway(t) == At(t, "note") /\ Caches(t, call[t].seen) /\ Verdict(t)

Notes(t) ==
  /\ At(t, "note")
  /\ IF call[t].seen = NoStamp THEN UNCHANGED cache ELSE Caches(t, call[t].seen)
  /\ Verdict(t)

\* ShouldRequestDownloadNow, then the request, which the launcher may not take.
Passes(t) == At(t, "gate") /\ call[t].page \notin recent /\ recent' = recent \cup {call[t].page}

Asks(t) ==
  /\ Passes(t) /\ Goes(t, "ask") /\ req' = [req EXCEPT ![t] = "queued"]
  /\ UNCHANGED <<launcher, opened, others, files, map, cache>>

Unreachable(t) ==
  Passes(t) /\ Leaves(t) /\ UNCHANGED <<launcher, opened, others, files, map, cache, req>>

Suppressed(t) ==
  /\ At(t, "gate") /\ call[t].page \in recent /\ Leaves(t)
  /\ UNCHANGED <<launcher, opened, others, files, map, cache, recent, req>>

CooldownEnds(p) ==
  /\ p \in recent /\ recent' = recent \ {p}
  /\ UNCHANGED <<launcher, opened, others, files, map, cache, call, req>>

Answered(t) ==
  /\ At(t, "ask") /\ req[t] \in {"ok", "failed"}
  /\ req' = [req EXCEPT ![t] = "none"] /\ Leaves(t)
  /\ UNCHANGED <<launcher, opened, others, files, map, cache, recent>>

\* After 120 s, or when the connection breaks; the handler does not notice.
GivesUp(t) ==
  /\ At(t, "ask") /\ req[t] \in {"queued", "served"}
  /\ others' = IF req[t] = "queued" THEN others \cup {call[t].page} ELSE others
  /\ req' = [req EXCEPT ![t] = "none"] /\ Leaves(t)
  /\ UNCHANGED <<launcher, opened, files, map, cache, recent>>

-----------------------------------------------------------------------------
(* The launcher's downloads.                                               *)

\* Another client asks, or an update of the launcher's own has the file.
OtherAsks(p) ==
  /\ p \notin others /\ others' = others \cup {p}
  /\ UNCHANGED <<launcher, opened, files, map, cache, recent, call, req>>

Serves(t) ==
  /\ flow = "free" /\ req[t] = "queued"
  /\ flow' = "fetch" /\ job' = call[t].page /\ req' = [req EXCEPT ![t] = "served"]
  /\ UNCHANGED <<listed, section, held, coming, opened, others, files, map, cache, recent, call>>

ServesOther(p) ==
  /\ flow = "free" /\ p \in others
  /\ flow' = "fetch" /\ job' = p /\ others' = others \ {p}
  /\ UNCHANGED <<listed, section, held, coming, opened, files, map, cache, recent, call, req>>

\* A file is written in place, or deleted before it is fetched again.
FetchWrites ==
  /\ flow = "fetch" /\ Listing[listed][job] # NoEntry /\ stamp[job] < MaxStamp
  /\ \E content \in {Partial, Absent} : disk' = [disk EXCEPT ![job] = content]
  /\ stamp' = [stamp EXCEPT ![job] = @ + 1]
  /\ UNCHANGED <<launcher, opened, others, map, cache, recent, call, req>>

Fetched ==
  /\ Listing[listed][job] # NoEntry
  /\ disk' = [disk EXCEPT ![job] = Listing[listed][job]]
  /\ stamp' = IF disk' = disk THEN stamp ELSE [stamp EXCEPT ![job] = @ + 1]

FetchEnds(outcome) ==
  /\ flow = "fetch" /\ flow' = "free" /\ job' = NoPage
  /\ (outcome = "ok" /\ Fetched) \/ (outcome = "failed" /\ UNCHANGED files)
  /\ req' = [t \in Thread |-> IF req[t] = "served" THEN outcome ELSE req[t]]
  /\ UNCHANGED <<listed, section, held, coming, opened, others, map, cache, recent, call>>

-----------------------------------------------------------------------------
Init ==
  /\ listed = First /\ section = Listing[First] /\ held = (Listing[First] # Blank)
  /\ opened = FALSE /\ coming = NoManifest /\ flow = "free" /\ job = NoPage /\ others = {}
  /\ disk \in [Page -> Content \cup {Absent, Partial}] /\ stamp = [p \in Page |-> 0]
  /\ map = Blank /\ cache = [p \in Page |-> NoCache] /\ recent = {}
  /\ call = [t \in Thread |-> Idle] /\ req = [t \in Thread |-> "none"]

Hook(t) ==
  \/ Expects(t) \/ Refreshes(t) \/ NotListed(t) \/ ReadsMetadata(t) \/ Checks(t) \/ Hashes(t)
  \/ HashFails(t) \/ Notes(t) \/ Asks(t) \/ Unreachable(t) \/ Suppressed(t) \/ Answered(t)

Next ==
  \/ Recreates \/ Copies \/ WorkerOpens \/ WorkerScans
  \/ \E t \in Thread : Hook(t) \/ GivesUp(t) \/ Serves(t) \/ \E p \in Page : Looks(t, p)
  \/ \E p \in Page : CooldownEnds(p) \/ OtherAsks(p) \/ ServesOther(p)
  \/ FetchWrites \/ \E outcome \in {"ok", "failed"} : FetchEnds(outcome)

Spec == Init /\ [][Next]_vars

(* Fairness: the threads of the client run, calls under the mutex end by   *)
(* their timeouts, the handlers that wait for it get it, the launcher and  *)
(* the server are not out of reach for ever, files can be read and written *)
(* at last, and the cooldown ends.                                         *)
(* Nothing is assumed of manifests, other clients and what the game opens. *)
FairSpec ==
  /\ Spec
  /\ WF_vars(WorkerOpens \/ WorkerScans) /\ WF_vars(Copies \/ FetchEnds("failed"))
  /\ SF_vars(FetchEnds("ok"))
  /\ \A t \in Thread : WF_vars(Hook(t)) /\ SF_vars(Hashes(t)) /\ SF_vars(Asks(t)) /\ SF_vars(Serves(t))
  /\ \A p \in Page : WF_vars(CooldownEnds(p)) /\ SF_vars(ServesOther(p))

-----------------------------------------------------------------------------
(* Properties.                                                             *)

(* A cached verdict is true of the file as it is, as long as its size and  *)
(* write time are those it was cached under: no thread that hashes while   *)
(* the launcher replaces the file leaves a verdict that a later check      *)
(* trusts (dllmain.cpp:295-334, 582-611).                                  *)
CacheSound ==
  \A p \in Page :
    cache[p] # NoCache /\ cache[p].stamp = stamp[p] => (cache[p].match <=> disk[p] = cache[p].want)

(* Whatever a scan made of a payload that was being replaced, the map      *)
(* becomes the published one while that stays (dllmain.cpp:462-510).       *)
Published(m) == held /\ coming = NoManifest /\ section = Listing[m]
MapCatchesUp == \A m \in Manifest : []<>(Published(m) => map = Listing[m])

(* A file that the game keeps opening is brought up to date: neither the   *)
(* cache nor the cooldown nor requests that were given up hold it back for *)
(* ever (dllmain.cpp:295-346, 545-626).                                    *)
UpdatesArrive ==
  \A p \in Page :
    []<>(\E t \in Thread : At(t, "find") /\ call[t].page = p)
      => []<>(Published(listed) => disk[p] = Listing[listed][p] \/ Listing[listed][p] = NoEntry)

-----------------------------------------------------------------------------
(* The inductive invariant.                                                *)

\* A call past "idle" has its page, and one that looks at the file expects something of it.
CallKnows == \A t \in Thread :
  /\ ~At(t, "idle") => call[t].page \in Page
  /\ call[t].step \in {"meta", "check", "hash", "note"} => call[t].want \in Md5
  /\ req[t] # "none" => At(t, "ask")

\* Cached and remembered stamps are of the past.
StampsPast ==
  /\ \A p \in Page : cache[p] # NoCache => cache[p].stamp <= stamp[p]
  /\ \A t \in Thread : ~At(t, "idle") /\ call[t].seen # NoStamp
                         => call[t].seen <= stamp[call[t].page]

\* A hash is of the file as it is, if its stamp has not changed since.
HashFresh == \A t \in Thread :
  At(t, "note") /\ call[t].seen = stamp[call[t].page] => call[t].got = disk[call[t].page]

\* The owner of the mutex has its manifest or its page.
FlowOwned ==
  /\ flow = "copy" <=> coming # NoManifest
  /\ flow = "fetch" <=> job # NoPage

IInv == TypeOK /\ CallKnows /\ StampsPast /\ HashFresh /\ FlowOwned /\ CacheSound
-----------------------------------------------------------------------------
(* What the client expects of its files, and what an answer tells it.      *)

Newest == IF coming = NoManifest THEN listed ELSE coming

\* A line of a manifest that was published since the game was started, or a cut one.
OfManifest(md5) ==
  \E m \in Manifest, q \in Page : First <= m /\ m <= Newest /\ Listing[m][q] = md5
Expectable(md5) == md5 = Torn \/ OfManifest(md5)

\* Every line in the section, in the map, in a call and in a verdict has such an origin.
Origins ==
  /\ First <= listed /\ (coming # NoManifest => listed <= coming)
  /\ \A p \in Page : section[p] = NoEntry \/ OfManifest(section[p])
  /\ \A p \in Page : map[p] = NoEntry \/ Expectable(map[p])
  /\ \A t \in Thread : call[t].step \in {"meta", "check", "hash", "note"}
                         => Expectable(call[t].want)
  /\ \A p \in Page : cache[p] # NoCache => Expectable(cache[p].want)

(* A verdict that lets a file pass unasked is for a content the launcher   *)
(* has published, of this or another file: however the scan and the copy   *)
(* of the payload overlap, no line that was cut, and none of no manifest,  *)
(* passes a file (Mapping.cpp:159-199, dllmain.cpp:462-510, 582-611).      *)
TrustsPublished ==
  \A p \in Page :
    cache[p] # NoCache /\ cache[p].match /\ cache[p].stamp = stamp[p] => OfManifest(disk[p])

\* The download under the mutex is that of the thread which is being served.
ServedOwns ==
  /\ \A t \in Thread : req[t] = "served" => flow = "fetch" /\ job = call[t].page
  /\ \A t, u \in Thread : req[t] = "served" /\ req[u] = "served" => t = u

(* A thread is told of its own download: the answer OK means that its file *)
(* has just become the listed one, also when the download of a request     *)
(* given up earlier ends at the same time as others wait                   *)
(* (dllmain.cpp:386-434, WebService.cpp:102-214).                          *)
AnswersOwn ==
  [][\A t \in Thread : req[t] = "served" /\ req'[t] = "ok" =>
       /\ disk'[call[t].page] = Listing[listed][call[t].page]
       /\ \A u \in Thread \ {t} : req'[u] = req[u]]_vars

Rank(c) ==
  CASE c.step = "find" -> 8 [] c.step = "again" -> 7 [] c.step = "meta" -> 6
    [] c.step = "check" -> 5 [] c.step = "hash" -> 4 [] c.step = "note" -> 3
    [] c.step = "gate" -> 2 [] c.step = "ask" -> 1 [] OTHER -> 0

(* A check of a file takes at most eight steps of its thread: it asks the  *)
(* launcher once, hashes once and refreshes the map once, and nobody else  *)
(* sends it back (dllmain.cpp:545-626).                                    *)
HookAdvances ==
  [][\A t \in Thread :
       ~At(t, "idle") /\ call'[t] # call[t] => Rank(call'[t]) < Rank(call[t])]_vars
=============================================================================
