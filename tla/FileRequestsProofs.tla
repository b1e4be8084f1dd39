--------------------------- MODULE FileRequestsProofs ---------------------------
(***************************************************************************)
(* Proofs about FileRequests, for every set of pages, spellings, contents  *)
(* and manifests and for queues of any length.                             *)
(***************************************************************************)
EXTENDS FileRequests, SequenceTheorems, TLAPS

(* What a request resolves to is a call with a content of the manifest.    *)
LEMMA FoundCall ==
  ASSUME TypeOK, NEW n \in Name, NEW mayDefer \in BOOLEAN, Finds(n), Starts(n, mayDefer)
  PROVE  /\ call' \in Call /\ call' # NoTask /\ files' \in Manifest
         /\ call'.url = Listing[files'][call'.page]
  <1>1. files' \in Manifest /\ Lists(files', n)  BY DEF Finds, TypeOK
  <1>2. PageOf[n] \in Page  BY <1>1, ConstantsOK DEF Lists
  <1>3. Listing[files'][PageOf[n]] \in Content  BY <1>1, <1>2, ConstantsOK DEF Lists
  <1>4. call' \in Call  BY <1>2, <1>3 DEF Starts, Call
  <1>5. call' # NoTask  BY <1>4, ConstantsOK
  <1>6. call'.url = Listing[files'][call'.page]  BY DEF Starts
  <1> QED  BY <1>1, <1>4, <1>5, <1>6

(* The end of a call keeps the types.                                      *)
LEMMA EndTypes ==
  ASSUME TypeOK, call \in Call
  PROVE  /\ Saves \/ Fails \/ Defers =>
             /\ call' = NoTask /\ local' = local
             /\ ended' \in [Page -> {"none", "ok", "deferred", "failed"}]
         /\ Defers => /\ deferred' \subseteq Task /\ paths' \subseteq Page
                      /\ waiting' \in [Page -> Content \cup {NoEntry}]
  <1>0. call.page \in Page /\ call.url \in Content  BY DEF Call
  <1>1. ASSUME Saves \/ Fails \/ Defers
        PROVE  /\ call' = NoTask /\ local' = local
               /\ ended' \in [Page -> {"none", "ok", "deferred", "failed"}]
    <2>1. Ends("ok") \/ Ends("failed") \/ Ends("deferred")  BY <1>1 DEF Saves, Fails, Defers
    <2> QED  BY <1>0, <2>1 DEF Ends, TypeOK
  <1>2. ASSUME Defers
        PROVE  /\ deferred' \subseteq Task /\ paths' \subseteq Page
               /\ waiting' \in [Page -> Content \cup {NoEntry}]
    BY <1>0, <1>2 DEF Defers, Enqueue, Task, TypeOK
  <1> QED  BY <1>1, <1>2
-----------------------------------------------------------------------------
(* Type correctness rests on the owner of the mutex having a call.         *)
LEMMA TypeStep ==
  ASSUME TypeOK, FlowOwned, [Next]_vars
  PROVE  TypeOK'
  <1>a. call # NoTask => call \in Call  BY DEF TypeOK
  <1>1. ASSUME NEW n \in Name, RequestAsync(n) PROVE TypeOK'
    BY <1>1, ConstantsOK DEF RequestAsync, TypeOK, retries, calls
  <1>2. ASSUME NEW n \in Name, RequestSync(n) PROVE TypeOK'
    <2>1. CASE Finds(n) /\ Starts(n, FALSE) /\ flow' = "sync"
      BY <1>2, <2>1, FoundCall DEF RequestSync, TypeOK, async, retries
    <2>2. CASE FindsNothing(n) /\ UNCHANGED <<flow, call>>
      BY <1>2, <2>2 DEF RequestSync, FindsNothing, TypeOK, async, retries
    <2> QED  BY <1>2, <2>1, <2>2 DEF RequestSync
  <1>3. CASE WorkerPops
    BY <1>3, HeadTailProperties DEF WorkerPops, TypeOK, retries, calls
  <1>4. CASE WorkerStarts
    <2>1. task \in Name  BY <1>4 DEF WorkerStarts, TypeOK, FlowOwned
    <2>2. CASE Finds(task) /\ Starts(task, TRUE) /\ worker' = "fetch" /\ flow' = "async"
      BY <1>4, <2>1, <2>2, FoundCall DEF WorkerStarts, TypeOK, retries
    <2>3. CASE FindsNothing(task) /\ worker' = "erase" /\ UNCHANGED <<flow, call>>
      BY <1>4, <2>3 DEF WorkerStarts, FindsNothing, TypeOK, retries
    <2> QED  BY <1>4, <2>2, <2>3 DEF WorkerStarts
  <1>5. CASE WorkerFetches
    <2>1. call \in Call  BY <1>5, <1>a DEF WorkerFetches, FlowOwned
    <2>2. /\ call' = NoTask /\ local' = local
          /\ ended' \in [Page -> {"none", "ok", "deferred", "failed"}]
          /\ deferred' \subseteq Task /\ paths' \subseteq Page
          /\ waiting' \in [Page -> Content \cup {NoEntry}]
      BY <1>5, <2>1, EndTypes DEF WorkerFetches, TypeOK, retries
    <2> QED  BY <1>5, <2>2 DEF WorkerFetches, TypeOK
  <1>6. CASE WorkerErases  BY <1>6 DEF WorkerErases, TypeOK, retries, calls
  <1>7. CASE SyncFetches
    <2>1. call \in Call  BY <1>7, <1>a DEF SyncFetches, FlowOwned
    <2> QED  BY <1>7, <2>1, EndTypes DEF SyncFetches, TypeOK, async, retries
  <1>8. CASE Writes
    <2>1. call.url \in Content  BY <1>8, <1>a DEF Writes, Call
    <2>2. PICK c \in Content \cup {Broken} : local' = [local EXCEPT ![call.page] = c]
      BY <1>8, <2>1 DEF Writes, Empty
    <2>3. local' \in [Page -> Content \cup {Broken}]  BY <2>2 DEF TypeOK
    <2> QED  BY <1>8, <2>3 DEF Writes, TypeOK, async, retries, calls
  <1>9. CASE PollManifest  BY <1>9 DEF PollManifest, TypeOK, async, retries, calls
  <1>10. ASSUME NEW t \in Task, RetryStarts(t) PROVE TypeOK'
    BY <1>10 DEF RetryStarts, Take, Task, Call, TypeOK, async
  <1>11. CASE RetrySaves
    <2>1. call \in Call  BY <1>11, <1>a DEF RetrySaves, FlowOwned
    <2> QED  BY <1>11, <2>1, EndTypes DEF RetrySaves, TypeOK, async, retries
  <1>12. CASE RetryFails
    <2>1. call \in Call  BY <1>12, <1>a DEF RetryFails, FlowOwned
    <2>2. deferred' \subseteq Task /\ paths' \subseteq Page
      BY <1>12, <2>1 DEF RetryFails, Requeue, Task, Call, TypeOK
    <2> QED  BY <1>12, <2>1, <2>2, EndTypes DEF RetryFails, TypeOK, async
  <1>13. CASE MonitorEnds  BY <1>13 DEF MonitorEnds, TypeOK, async, retries, calls
  <1>14. CASE RunClient  BY <1>14 DEF RunClient, TypeOK, async, retries, calls
  <1>15. ASSUME NEW p \in Page, LaunchStarts(p) PROVE TypeOK'
    <2>1. Listed(p) \in Content  BY <1>15, ConstantsOK DEF LaunchStarts, TypeOK, Listed
    <2>2. call' \in Call  BY <1>15, <2>1 DEF LaunchStarts, Call
    <2> QED  BY <1>15, <2>2 DEF LaunchStarts, TypeOK, async, retries
  <1>16. CASE LaunchFetches
    <2>1. call \in Call  BY <1>16, <1>a DEF LaunchFetches
    <2> QED  BY <1>16, <2>1, EndTypes DEF LaunchFetches, TypeOK, async, retries
  <1>17. CASE RunClientEnds  BY <1>17 DEF RunClientEnds, TypeOK, async, retries, calls
  <1>18. ASSUME NEW p \in Page, Opens(p) \/ Closes(p) PROVE TypeOK'
    BY <1>18 DEF Opens, Closes, TypeOK, async, retries, calls
  <1>19. CASE GameExits  BY <1>19 DEF GameExits, TypeOK, async, retries, calls
  <1>20. CASE Publish  BY <1>20, ConstantsOK DEF Publish, Manifest, TypeOK, async, retries, calls
  <1>21. CASE UNCHANGED vars  BY <1>21 DEF vars, TypeOK, async, retries, calls
  <1> QED  BY <1>1, <1>2, <1>3, <1>4, <1>5, <1>6, <1>7, <1>8, <1>9, <1>10, <1>11, <1>12,
              <1>13, <1>14, <1>15, <1>16, <1>17, <1>18, <1>19, <1>20, <1>21 DEF Next

(* The steps that neither start nor end a request or a retry, nor touch a  *)
(* queue.                                                                  *)
Aside == \/ PollManifest \/ MonitorEnds \/ RunClient \/ RunClientEnds \/ GameExits \/ Publish
         \/ \E p \in Page : Opens(p) \/ Closes(p) \/ LaunchStarts(p)
         \/ LaunchFetches \/ Writes

LEMMA AsideKeeps ==
  ASSUME Aside
  PROVE  /\ UNCHANGED <<queue, queued, worker, task, deferred, paths, waiting>>
         /\ flow' # flow => {flow, flow'} = {"free", "launch"}
         /\ call' # call => flow = "launch"
  BY DEF Aside, PollManifest, MonitorEnds, RunClient, RunClientEnds, GameExits, Publish,
         Opens, Closes, LaunchStarts, LaunchFetches, Writes, async, retries, calls

(* The steps of the monitor and of the blocking request leave the worker.  *)
LEMMA FlowStep ==
  ASSUME TypeOK, FlowOwned, [Next]_vars
  PROVE  FlowOwned'
  <1>1. ASSUME NEW n \in Name, RequestAsync(n) PROVE FlowOwned'
    BY <1>1 DEF RequestAsync, FlowOwned, calls
  <1>2. ASSUME NEW n \in Name, RequestSync(n) PROVE FlowOwned'
    <2>1. CASE Finds(n) /\ Starts(n, FALSE) /\ flow' = "sync"
      BY <1>2, <2>1, FoundCall DEF RequestSync, FlowOwned, async
    <2>2. CASE UNCHANGED <<flow, call>>  BY <1>2, <2>2 DEF RequestSync, FlowOwned, async
    <2> QED  BY <1>2, <2>1, <2>2 DEF RequestSync
  <1>3. CASE WorkerPops
    BY <1>3, HeadTailProperties, ConstantsOK DEF WorkerPops, FlowOwned, TypeOK, calls
  <1>4. CASE WorkerStarts
    <2>1. task \in Name  BY <1>4 DEF WorkerStarts, TypeOK, FlowOwned
    <2>2. CASE Finds(task) /\ Starts(task, TRUE) /\ worker' = "fetch" /\ flow' = "async"
      BY <1>4, <2>1, <2>2, FoundCall DEF WorkerStarts, FlowOwned
    <2>3. CASE worker' = "erase" /\ UNCHANGED <<flow, call>>
      BY <1>4, <2>3 DEF WorkerStarts, FlowOwned
    <2> QED  BY <1>4, <2>2, <2>3 DEF WorkerStarts
  <1>5. CASE WorkerFetches
    BY <1>5 DEF WorkerFetches, Saves, Fails, Defers, Ends, FlowOwned
  <1>6. CASE WorkerErases  BY <1>6 DEF WorkerErases, FlowOwned, calls
  <1>7. CASE SyncFetches  BY <1>7 DEF SyncFetches, Saves, Fails, Ends, FlowOwned, async
  <1>8. ASSUME NEW t \in Task, RetryStarts(t) PROVE FlowOwned'
    <2>1. call' # NoTask
      <3>1. call' \in Call  BY <1>8 DEF RetryStarts, Call, Task
      <3> QED  BY <3>1, ConstantsOK
    <2> QED  BY <1>8, <2>1 DEF RetryStarts, FlowOwned, async
  <1>9. CASE RetrySaves \/ RetryFails
    BY <1>9 DEF RetrySaves, RetryFails, Saves, Fails, Ends, FlowOwned, async
  <1>10. CASE Aside
    <2>1. UNCHANGED <<worker, task>> /\ (flow' = "async" <=> flow = "async")
      BY <1>10, AsideKeeps
    <2>2. flow' \in {"async", "sync", "retry"} => flow' = flow /\ call' = call
      BY <1>10, AsideKeeps
    <2>3. flow' = "free" => call' = NoTask
      BY <1>10 DEF Aside, PollManifest, MonitorEnds, RunClient, RunClientEnds, GameExits, Publish,
           Opens, Closes, LaunchStarts, LaunchFetches, Saves, Fails, Ends, Writes, calls, FlowOwned
    <2> QED  BY <2>1, <2>2, <2>3 DEF FlowOwned
  <1>11. CASE UNCHANGED vars  BY <1>11 DEF vars, FlowOwned, async, calls
  <1> QED  BY <1>1, <1>2, <1>3, <1>4, <1>5, <1>6, <1>7, <1>8, <1>9, <1>10, <1>11
           DEF Next, Aside

(* asyncQueuedPages holds the keys of the queue and of the request that is *)
(* being served, each once.                                                *)
LEMMA QueueStep ==
  ASSUME TypeOK, FlowOwned, QueueKeyed, [Next]_vars
  PROVE  QueueKeyed'
  <1>a. Len(queue) \in Nat  BY LenProperties DEF TypeOK
  <1>1. ASSUME NEW n \in Name, RequestAsync(n) PROVE QueueKeyed'
    <2>1. /\ Len(queue') = Len(queue) + 1 /\ queue'[Len(queue) + 1] = n
          /\ \A i \in 1 .. Len(queue) : queue'[i] = queue[i]
      BY <1>1, AppendProperties DEF RequestAsync, TypeOK
    <2>2. Serving' = Serving /\ KeyOf[n] \notin queued /\ queued' = queued \cup {KeyOf[n]}
      BY <1>1 DEF RequestAsync, Serving
    <2>3. \A i \in 1 .. Len(queue) : KeyOf[queue[i]] \in queued
      BY DEF QueueKeyed
    <2>4. 1 .. Len(queue') = (1 .. Len(queue)) \cup {Len(queue) + 1}  BY <1>a, <2>1
    <2>5. queued' = Serving' \cup {KeyOf[queue'[i]] : i \in 1 .. Len(queue')}
      BY <1>a, <2>1, <2>2, <2>4 DEF QueueKeyed
    <2>6. \A i \in 1 .. Len(queue') : KeyOf[queue'[i]] \notin Serving'
      BY <1>a, <2>1, <2>2, <2>4 DEF QueueKeyed
    <2>7. \A i, j \in 1 .. Len(queue') : KeyOf[queue'[i]] = KeyOf[queue'[j]] => i = j
      BY <1>a, <2>1, <2>2, <2>3, <2>4 DEF QueueKeyed
    <2> QED  BY <2>5, <2>6, <2>7 DEF QueueKeyed
  <1>2. CASE WorkerPops
    <2>1. /\ Len(queue') = Len(queue) - 1 /\ Len(queue) >= 1 /\ task' = queue[1]
          /\ \A i \in 1 .. Len(queue') : queue'[i] = queue[i + 1]
      BY <1>2, HeadTailProperties DEF WorkerPops, TypeOK
    <2>2. task = NoTask /\ task' # NoTask /\ queued' = queued
      BY <1>2, HeadTailProperties, ConstantsOK DEF WorkerPops, FlowOwned, TypeOK
    <2>3. Serving = {} /\ Serving' = {KeyOf[queue[1]]}  BY <2>1, <2>2 DEF Serving
    <2>4. queued' = Serving' \cup {KeyOf[queue'[i]] : i \in 1 .. Len(queue')}
      <3>1. ASSUME NEW k \in queued'
            PROVE  k \in Serving' \cup {KeyOf[queue'[i]] : i \in 1 .. Len(queue')}
        <4>1. PICK i \in 1 .. Len(queue) : k = KeyOf[queue[i]]
          BY <2>2, <2>3, <3>1 DEF QueueKeyed
        <4>2. CASE i = 1  BY <2>3, <4>1, <4>2
        <4>3. CASE i # 1
          <5>1. i - 1 \in 1 .. Len(queue') /\ queue'[i - 1] = queue[i]
            BY <1>a, <2>1, <4>3
          <5> QED  BY <4>1, <5>1
        <4> QED  BY <4>2, <4>3
      <3>2. ASSUME NEW i \in 1 .. Len(queue') PROVE KeyOf[queue'[i]] \in queued'
        <4>1. i + 1 \in 1 .. Len(queue) /\ queue'[i] = queue[i + 1]  BY <1>a, <2>1
        <4> QED  BY <2>2, <4>1 DEF QueueKeyed
      <3>3. KeyOf[queue[1]] \in queued'  BY <1>a, <2>1, <2>2 DEF QueueKeyed
      <3> QED  BY <2>3, <3>1, <3>2, <3>3
    <2>5. \A i \in 1 .. Len(queue') : KeyOf[queue'[i]] \notin Serving'
      BY <1>a, <2>1, <2>3 DEF QueueKeyed
    <2>6. \A i, j \in 1 .. Len(queue') : KeyOf[queue'[i]] = KeyOf[queue'[j]] => i = j
      BY <1>a, <2>1 DEF QueueKeyed
    <2> QED  BY <2>4, <2>5, <2>6 DEF QueueKeyed
  <1>3. CASE WorkerErases
    <2>1. task # NoTask  BY <1>3 DEF WorkerErases, FlowOwned
    <2>2. /\ Serving = {KeyOf[task]} /\ Serving' = {}
          /\ queue' = queue /\ queued' = queued \ {KeyOf[task]}
      BY <1>3, <2>1 DEF WorkerErases, Serving
    <2> QED  BY <2>2 DEF QueueKeyed
  <1>4. CASE \/ \E n \in Name : RequestSync(n)
             \/ WorkerStarts \/ WorkerFetches \/ SyncFetches
             \/ \E t \in Task : RetryStarts(t)
             \/ RetrySaves \/ RetryFails \/ Aside \/ UNCHANGED vars
    <2>1. UNCHANGED <<queue, queued, task>>
      BY <1>4, AsideKeeps DEF RequestSync, WorkerStarts, WorkerFetches, SyncFetches,
           RetryStarts, RetrySaves, RetryFails, vars, async
    <2> QED  BY <2>1 DEF QueueKeyed, Serving
  <1> QED  BY <1>1, <1>2, <1>3, <1>4 DEF Next, Aside

(* One task per page, and deferredQueuedPaths the pages of the queue.      *)
LEMMA DeferredStep ==
  ASSUME TypeOK, FlowOwned, DeferredKeyed, [Next]_vars
  PROVE  DeferredKeyed'
  <1>1. CASE WorkerFetches
    <2>1. flow' = "free"  BY <1>1 DEF WorkerFetches
    <2>2. CASE Defers
      <3> DEFINE p == call.page
                 new == [page |-> p, url |-> call.url]
      <3>1. /\ deferred' = {t \in deferred : t.page # p} \cup {new}
            /\ paths' = paths \cup {p}
        BY <2>2 DEF Defers, Enqueue
      <3>2. new.page = p  OBVIOUS
      <3> HIDE DEF new, p
      <3> QED  BY <2>1, <3>1, <3>2 DEF DeferredKeyed
    <2>3. CASE UNCHANGED retries  BY <2>1, <2>3 DEF DeferredKeyed, retries
    <2> QED  BY <1>1, <2>2, <2>3 DEF WorkerFetches
  <1>2. ASSUME NEW t \in Task, RetryStarts(t) PROVE DeferredKeyed'
    <2>1. /\ deferred' = deferred \ {t} /\ paths' = paths \ {t.page} /\ t \in deferred
          /\ call'.page = t.page
      BY <1>2 DEF RetryStarts, Take
    <2> QED  BY <2>1 DEF DeferredKeyed
  <1>3. CASE RetryFails
    <2> DEFINE p == call.page
               new == [page |-> p, url |-> call.url]
    <2>1. flow' = "free" /\ p \notin paths
      BY <1>3 DEF RetryFails, DeferredKeyed
    <2>2. deferred' = deferred \cup {new} /\ paths' = paths \cup {p}
      BY <1>3, <2>1 DEF RetryFails, Requeue
    <2>3. new.page = p  OBVIOUS
    <2> HIDE DEF new, p
    <2> QED  BY <2>1, <2>2, <2>3 DEF DeferredKeyed
  <1>4. CASE \/ \E n \in Name : RequestAsync(n) \/ RequestSync(n)
             \/ WorkerPops \/ WorkerStarts \/ WorkerErases \/ SyncFetches \/ RetrySaves
             \/ Aside \/ UNCHANGED vars
    <2>1. UNCHANGED <<deferred, paths>>
      BY <1>4, AsideKeeps DEF RequestAsync, RequestSync, WorkerPops, WorkerStarts,
           WorkerErases, SyncFetches, RetrySaves, vars, retries
    <2>2. flow' = "retry" => flow = "retry" /\ call' = call
      BY <1>4, AsideKeeps DEF RequestAsync, RequestSync, WorkerPops, WorkerStarts,
           WorkerErases, SyncFetches, RetrySaves, calls, vars
    <2> QED  BY <2>1, <2>2 DEF DeferredKeyed
  <1> QED  BY <1>1, <1>2, <1>3, <1>4 DEF Next, Aside

(* While a request has the mutex nothing replaces the map.                 *)
LEMMA FreshUrlStep ==
  ASSUME TypeOK, FlowOwned, FreshUrl, [Next]_vars
  PROVE  FreshUrl'
  <1>1. ASSUME NEW n \in Name, RequestSync(n) PROVE FreshUrl'
    <2>1. CASE Finds(n) /\ Starts(n, FALSE)
      <3>1. FALSE \in BOOLEAN  OBVIOUS
      <3>2. call'.url = Listing[files'][call'.page]  BY <2>1, <3>1, FoundCall
      <3> QED  BY <3>2 DEF FreshUrl, Listed
    <2>2. CASE UNCHANGED <<flow, call>>  BY <1>1, <2>2 DEF RequestSync, FreshUrl
    <2> QED  BY <1>1, <2>1, <2>2 DEF RequestSync
  <1>2. CASE WorkerStarts
    <2>1. task \in Name  BY <1>2 DEF WorkerStarts, TypeOK, FlowOwned
    <2>2. CASE Finds(task) /\ Starts(task, TRUE)
      <3>1. TRUE \in BOOLEAN  OBVIOUS
      <3>2. call'.url = Listing[files'][call'.page]  BY <2>1, <2>2, <3>1, FoundCall
      <3> QED  BY <3>2 DEF FreshUrl, Listed
    <2>3. CASE UNCHANGED <<flow, call>>  BY <1>2, <2>3 DEF WorkerStarts, FreshUrl
    <2> QED  BY <1>2, <2>2, <2>3 DEF WorkerStarts
  <1>3. CASE WorkerFetches \/ SyncFetches \/ RetrySaves \/ RetryFails \/ LaunchFetches
    <2>1. call' = NoTask
      BY <1>3 DEF WorkerFetches, SyncFetches, RetrySaves, RetryFails, LaunchFetches,
           Saves, Fails, Defers, Ends
    <2> QED  BY <2>1 DEF FreshUrl
  <1>4. ASSUME NEW t \in Task, RetryStarts(t) PROVE FreshUrl'
    BY <1>4 DEF RetryStarts, FreshUrl
  <1>5. CASE PollManifest \/ RunClient
    <2>1. call' = NoTask  BY <1>5 DEF PollManifest, RunClient, FlowOwned, calls
    <2> QED  BY <2>1 DEF FreshUrl
  <1>6. ASSUME NEW p \in Page, LaunchStarts(p) PROVE FreshUrl'
    BY <1>6 DEF LaunchStarts, FreshUrl, Listed
  <1>7. CASE \/ \E n \in Name : RequestAsync(n)
             \/ WorkerPops \/ WorkerErases \/ MonitorEnds \/ RunClientEnds \/ Writes
             \/ (\E p \in Page : Opens(p) \/ Closes(p)) \/ GameExits \/ Publish
             \/ UNCHANGED vars
    <2>1. UNCHANGED <<files, call>> /\ flow' \in {flow, "free"}
      BY <1>7 DEF RequestAsync, WorkerPops, WorkerErases, MonitorEnds, RunClientEnds, Writes,
           Opens, Closes, GameExits, Publish, vars, calls
    <2> QED  BY <2>1 DEF FreshUrl, Listed
  <1> QED  BY <1>1, <1>2, <1>3, <1>4, <1>5, <1>6, <1>7 DEF Next

(* A postponed URL moves between the queue and the retry, and no step      *)
(* drops it.                                                               *)
LEMMA LostStep ==
  ASSUME TypeOK, FlowOwned, DeferredKeyed, NoDeferredLost, [Next]_vars
  PROVE  NoDeferredLost'
  <1>1. CASE WorkerFetches
    <2>1. flow # "retry" /\ call.page \in Page
      BY <1>1 DEF WorkerFetches, FlowOwned, TypeOK, Call
    <2>2. CASE Defers
      <3>1. deferred' = {t \in deferred : t.page # call.page}
                          \cup {[page |-> call.page, url |-> call.url]}
        BY <2>2 DEF Defers, Enqueue
      <3>2. waiting' = [waiting EXCEPT ![call.page] = call.url]  BY <2>2 DEF Defers
      <3>3. ASSUME NEW p \in Page, waiting'[p] # NoEntry
            PROVE  [page |-> p, url |-> waiting'[p]] \in deferred'
        <4>1. CASE p = call.page  BY <3>1, <3>2, <4>1 DEF TypeOK
        <4>2. CASE p # call.page
          <5>1. waiting'[p] = waiting[p]  BY <3>2, <4>2 DEF TypeOK
          <5>2. [page |-> p, url |-> waiting[p]] \in deferred
            BY <2>1, <3>3, <5>1 DEF NoDeferredLost
          <5> QED  BY <3>1, <4>2, <5>1, <5>2
        <4> QED  BY <4>1, <4>2
      <3> QED  BY <3>3 DEF NoDeferredLost
    <2>3. CASE UNCHANGED <<retries, waiting>>
      BY <2>1, <2>3 DEF NoDeferredLost, retries
    <2> QED  BY <1>1, <2>2, <2>3 DEF WorkerFetches
  <1>2. ASSUME NEW t \in Task, RetryStarts(t) PROVE NoDeferredLost'
    <2>1. /\ deferred' = deferred \ {t} /\ t \in deferred /\ waiting' = waiting
          /\ call'.page = t.page /\ call'.url = t.url /\ flow' = "retry" /\ flow = "free"
      BY <1>2 DEF RetryStarts, Take
    <2>2. ASSUME NEW p \in Page, waiting[p] # NoEntry,
                 [page |-> p, url |-> waiting[p]] \notin deferred'
          PROVE  t.page = p /\ t.url = waiting[p]
      <3>1. [page |-> p, url |-> waiting[p]] \in deferred
        BY <2>1, <2>2 DEF NoDeferredLost
      <3>2. t = [page |-> p, url |-> waiting[p]]  BY <2>1, <2>2, <3>1
      <3> QED  BY <3>2
    <2> QED  BY <2>1, <2>2 DEF NoDeferredLost
  <1>3. CASE RetrySaves
    <2>1. /\ waiting' = [waiting EXCEPT ![call.page] = NoEntry] /\ deferred' = deferred
          /\ flow = "retry"
      BY <1>3 DEF RetrySaves, retries
    <2>2. ASSUME NEW p \in Page, waiting'[p] # NoEntry
          PROVE  [page |-> p, url |-> waiting'[p]] \in deferred'
      <3>1. p # call.page /\ waiting'[p] = waiting[p]  BY <2>1, <2>2 DEF TypeOK
      <3> QED  BY <2>1, <2>2, <3>1 DEF NoDeferredLost
    <2> QED  BY <2>2 DEF NoDeferredLost
  <1>4. CASE RetryFails
    <2>1. call.page \notin paths /\ flow = "retry"  BY <1>4 DEF RetryFails, DeferredKeyed
    <2>2. /\ deferred' = deferred \cup {[page |-> call.page, url |-> call.url]}
          /\ waiting' = waiting
      BY <1>4, <2>1 DEF RetryFails, Requeue
    <2> QED  BY <2>2 DEF NoDeferredLost
  <1>5. CASE \/ \E n \in Name : RequestAsync(n) \/ RequestSync(n)
             \/ WorkerPops \/ WorkerStarts \/ WorkerErases \/ SyncFetches
             \/ Aside \/ UNCHANGED vars
    <2>1. UNCHANGED <<deferred, waiting>>
      BY <1>5, AsideKeeps DEF RequestAsync, RequestSync, WorkerPops, WorkerStarts,
           WorkerErases, SyncFetches, vars, retries
    <2>2. flow = "retry" => flow' = "retry" /\ call' = call
      BY <1>5, AsideKeeps DEF RequestAsync, RequestSync, WorkerPops, WorkerStarts,
           WorkerErases, SyncFetches, vars, calls
    <2> QED  BY <2>1, <2>2 DEF NoDeferredLost
  <1> QED  BY <1>1, <1>2, <1>3, <1>4, <1>5 DEF Next, Aside
-----------------------------------------------------------------------------
(* Both queues start empty.                                                *)
LEMMA InitIInv == Init => IInv
  <1> SUFFICES ASSUME Init PROVE IInv  OBVIOUS
  <1>1. TypeOK  BY ConstantsOK, EmptySeq DEF Init, TypeOK, Manifest
  <1>2. FlowOwned  BY DEF Init, FlowOwned
  <1>3. QueueKeyed  BY EmptySeq DEF Init, QueueKeyed, Serving
  <1>4. DeferredKeyed /\ FreshUrl /\ NoDeferredLost
    BY DEF Init, DeferredKeyed, FreshUrl, NoDeferredLost
  <1> QED  BY <1>1, <1>2, <1>3, <1>4 DEF IInv

(* Every step keeps the inductive invariant.                               *)
LEMMA NextIInv == IInv /\ [Next]_vars => IInv'
  BY TypeStep, FlowStep, QueueStep, DeferredStep, FreshUrlStep, LostStep DEF IInv

(* The inductive invariant, from which the theorems below follow.          *)
THEOREM Invariant == Spec => []IInv
  BY InitIInv, NextIInv, PTL DEF Spec

(* Type correctness, and who has a call: whoever downloads under the mutex *)
(* has one, a free mutex leaves none behind, and the worker thread owns    *)
(* the mutex exactly while it fetches, past early returns and the gap      *)
(* between unlock and erase (WebService.cpp:102-249).             *)
THEOREM CallsOwned == Spec => [](TypeOK /\ FlowOwned)
  <1>1. IInv => TypeOK /\ FlowOwned  BY DEF IInv
  <1> QED  BY <1>1, Invariant, PTL

(* No poll, /RunClient or other request changes the map under a running    *)
(* /download (WebService.cpp:107-161).                                     *)
THEOREM UrlsFresh == Spec => []FreshUrl
  <1>1. IInv => FreshUrl  BY DEF IInv
  <1> QED  BY <1>1, Invariant, PTL

(* A postponed file is never lost between the deferred queue, the set of   *)
(* its paths and the retry (DownloadResume.cpp:369-449).                   *)
THEOREM DeferredKept == Spec => []NoDeferredLost
  <1>1. IInv => NoDeferredLost  BY DEF IInv
  <1> QED  BY <1>1, Invariant, PTL
-----------------------------------------------------------------------------
(* What a step means for the calls: one starts while none runs, the        *)
(* running one writes or ends, a client opens or closes files, or nothing  *)
(* a call depends on changes.                                              *)
CallStarts == call = NoTask /\ call' \in Call /\ UNCHANGED <<local, busy, ended>>
CallEnds ==
  /\ call # NoTask /\ UNCHANGED busy
  /\ \/ Verifies /\ Ends("ok")
     \/ Ends("failed")
     \/ call.deferrable /\ call.page \in busy /\ Ends("deferred")
Holds == busy' \subseteq Page /\ UNCHANGED <<local, files, call, ended>>
Beside == UNCHANGED <<local, busy, call, ended>> /\ (call # NoTask => UNCHANGED files)

LEMMA StepShape ==
  ASSUME IInv, IInv', [Next]_vars
  PROVE  CallStarts \/ Writes \/ CallEnds \/ Holds \/ Beside
  <1>a. TypeOK /\ FlowOwned /\ TypeOK'  BY DEF IInv
  <1>1. ASSUME NEW n \in Name, RequestAsync(n) PROVE Beside
    BY <1>1 DEF RequestAsync, Beside, calls
  <1>2. ASSUME NEW n \in Name, RequestSync(n) PROVE CallStarts \/ Beside
    <2>1. call = NoTask /\ UNCHANGED <<local, busy, ended>>
      BY <1>2, <1>a DEF RequestSync, FlowOwned
    <2>2. CASE Finds(n) /\ Starts(n, FALSE)
      BY <1>a, <2>1, <2>2, FoundCall DEF CallStarts
    <2>3. CASE UNCHANGED call  BY <2>1, <2>3 DEF Beside
    <2> QED  BY <1>2, <2>2, <2>3 DEF RequestSync
  <1>3. CASE WorkerPops \/ WorkerErases
    BY <1>3 DEF WorkerPops, WorkerErases, Beside, calls
  <1>4. CASE WorkerStarts
    <2>1. call = NoTask /\ UNCHANGED <<local, busy, ended>> /\ task \in Name
      BY <1>4, <1>a DEF WorkerStarts, FlowOwned, TypeOK
    <2>2. CASE Finds(task) /\ Starts(task, TRUE)
      BY <1>a, <2>1, <2>2, FoundCall DEF CallStarts
    <2>3. CASE UNCHANGED call  BY <2>1, <2>3 DEF Beside
    <2> QED  BY <1>4, <2>2, <2>3 DEF WorkerStarts
  <1>5. CASE WorkerFetches
    BY <1>5, <1>a DEF WorkerFetches, FlowOwned, Saves, Fails, Defers, CallEnds
  <1>6. CASE SyncFetches \/ RetrySaves \/ RetryFails \/ LaunchFetches
    BY <1>6, <1>a DEF SyncFetches, RetrySaves, RetryFails, LaunchFetches, FlowOwned,
         Saves, Fails, CallEnds
  <1>7. CASE PollManifest \/ MonitorEnds \/ RunClient \/ RunClientEnds \/ Publish
    BY <1>7, <1>a DEF PollManifest, MonitorEnds, RunClient, RunClientEnds, Publish, FlowOwned,
         Beside, calls
  <1>8. ASSUME NEW t \in Task, RetryStarts(t) PROVE CallStarts
    BY <1>8, <1>a DEF RetryStarts, FlowOwned, Task, Call, CallStarts
  <1>9. ASSUME NEW p \in Page, LaunchStarts(p) PROVE CallStarts
    <2>1. call' # NoTask /\ call' \in Call \cup {NoTask}
      <3>1. Listed(p) \in Content  BY <1>9, <1>a, ConstantsOK DEF LaunchStarts, TypeOK, Listed
      <3>2. call' \in Call  BY <1>9, <3>1 DEF LaunchStarts, Call
      <3> QED  BY <3>2, ConstantsOK
    <2> QED  BY <1>9, <2>1 DEF LaunchStarts, CallStarts
  <1>10. ASSUME NEW p \in Page, Opens(p) \/ Closes(p) PROVE Holds
    BY <1>10, <1>a DEF Opens, Closes, TypeOK, Holds, calls
  <1>11. CASE GameExits  BY <1>11 DEF GameExits, Holds, calls
  <1>12. CASE UNCHANGED vars  BY <1>12 DEF vars, Beside, calls
  <1> QED  BY <1>1, <1>2, <1>3, <1>4, <1>5, <1>6, <1>7, <1>8, <1>9, <1>10, <1>11, <1>12
           DEF Next

(* For one page every step is a step of its contract or a stutter.         *)
LEMMA StepContracted ==
  ASSUME IInv, IInv', [Next]_vars, NEW p \in Page
  PROVE  [Of(p)!Next]_(Of(p)!vars)
  <1>a. TypeOK /\ TypeOK'  BY DEF IInv
  <1>b. ended[p] # "running"  BY <1>a DEF TypeOK
  <1>1. ASSUME UNCHANGED <<local, busy, ended>>, Running(p)' = Running(p), Asked(p)' = Asked(p)
        PROVE  UNCHANGED Of(p)!vars
    BY <1>1 DEF Of!vars
  <1>2. ASSUME ~Running(p), ~Running(p)', UNCHANGED <<local, busy, ended>>
        PROVE  UNCHANGED Of(p)!vars
    <2>1. Asked(p)' = NoTask /\ Asked(p) = NoTask  BY <1>2 DEF Asked
    <2>2. Running(p)' = Running(p)  BY <1>2 DEF Running
    <2> QED  BY <1>1, <1>2, <2>1, <2>2
  <1>3. CASE CallStarts
    <2>1. ~Running(p) /\ UNCHANGED <<local, busy, ended>> /\ call' \in Call
      BY <1>3 DEF CallStarts, Running
    <2>2. CASE Running(p)'
      <3>1. Listed(p)' \in Content \cup {NoEntry}
        BY <1>a, ConstantsOK DEF TypeOK, Listed
      <3>2. Asked(p)' \in Of(p)!Request
        BY <2>1, <2>2, <3>1 DEF Asked, Of!Request, Call
      <3>3. Of(p)!Call  BY <1>b, <2>1, <2>2, <3>2 DEF Of!Call
      <3> QED  BY <3>3 DEF Of!Next
    <2>3. CASE ~Running(p)'  BY <1>2, <2>1, <2>3
    <2> QED  BY <2>2, <2>3
  <1>4. CASE Writes
    <2>1. /\ UNCHANGED <<files, busy, call, ended>> /\ call \in Call /\ call.page \notin busy
          /\ \E c \in {call.url, Broken} \cup Empty : local' = [local EXCEPT ![call.page] = c]
      BY <1>4, <1>a DEF Writes, calls, TypeOK
    <2>2. Running(p)' = Running(p) /\ Asked(p)' = Asked(p) /\ (p \in busy)' = (p \in busy)
      BY <2>1 DEF Running, Asked, Listed
    <2>3. CASE Running(p)
      <3>1. p = call.page /\ Asked(p).url = call.url /\ call.url \in Content
        BY <2>1, <2>3 DEF Running, Asked, Call
      <3>2. local'[p] \in {call.url, Broken} \cup Empty  BY <1>a, <2>1, <3>1 DEF TypeOK
      <3>3. local'[p] \in Content \cup {Broken}  BY <3>1, <3>2 DEF Empty
      <3>4. \A v \in Content : local'[p] = Copy(v) =>
               local'[p] = local[p] \/ v = Asked(p).url \/ v \in Empty
        BY <3>1, <3>2, ConstantsOK DEF Copy
      <3>5. Of(p)!Write  BY <2>1, <2>2, <2>3, <3>1, <3>3, <3>4 DEF Of!Write
      <3> QED  BY <3>5 DEF Of!Next
    <2>4. CASE ~Running(p)
      <3>1. p # call.page  BY <1>4, <2>4 DEF Writes, Running
      <3>2. local'[p] = local[p]  BY <1>a, <2>1, <3>1 DEF TypeOK
      <3> QED  BY <2>1, <2>2, <3>2 DEF Of!vars
    <2> QED  BY <2>3, <2>4
  <1>5. CASE CallEnds
    <2>1. /\ call' = NoTask /\ UNCHANGED <<local, busy>> /\ call \in Call
          /\ \E how \in {"ok", "deferred", "failed"} : ended' = [ended EXCEPT ![call.page] = how]
      BY <1>5, <1>a DEF CallEnds, Ends, TypeOK
    <2>2. ~Running(p)'  BY <2>1 DEF Running
    <2>3. CASE Running(p)
      <3>1. /\ p = call.page /\ Asked(p).url = call.url /\ Asked(p).listed = Listed(p)
            /\ Asked(p).deferrable = call.deferrable /\ Asked(p)' = NoTask
        BY <2>2, <2>3 DEF Running, Asked
      <3>2. \A how : Ends(how) => Of(p)!End(how)
        <4> SUFFICES ASSUME NEW how, Ends(how) PROVE Of(p)!End(how)
          OBVIOUS
        <4>1. ended'[p] = how  BY <1>a, <3>1 DEF Ends, TypeOK
        <4> QED  BY <2>1, <2>2, <2>3, <3>1, <4>1 DEF Of!End
      <3>3. CASE Verifies /\ Ends("ok")
        <4>1. Of(p)!Deliver  BY <3>1, <3>2, <3>3 DEF Verifies, Of!Deliver, Copy
        <4> QED  BY <4>1 DEF Of!Next
      <3>4. CASE Ends("failed")
        <4>1. Of(p)!Fail  BY <3>2, <3>4 DEF Of!Fail
        <4> QED  BY <4>1 DEF Of!Next
      <3>5. CASE call.deferrable /\ call.page \in busy /\ Ends("deferred")
        <4>1. Of(p)!Postpone  BY <3>1, <3>2, <3>5 DEF Of!Postpone
        <4> QED  BY <4>1 DEF Of!Next
      <3> QED  BY <1>5, <3>3, <3>4, <3>5 DEF CallEnds
    <2>4. CASE ~Running(p)
      <3>1. p # call.page  BY <1>5, <2>4 DEF CallEnds, Running
      <3>2. ended'[p] = ended[p]  BY <1>a, <2>1, <3>1 DEF TypeOK
      <3>3. Asked(p)' = NoTask /\ Asked(p) = NoTask  BY <2>2, <2>4 DEF Asked
      <3> QED  BY <2>1, <2>2, <2>4, <3>2, <3>3 DEF Of!vars
    <2> QED  BY <2>3, <2>4
  <1>6. CASE Holds
    <2>1. Running(p)' = Running(p) /\ Asked(p)' = Asked(p)
      BY <1>6 DEF Holds, Running, Asked, Listed
    <2>2. Of(p)!Hold  BY <1>6, <2>1 DEF Holds, Of!Hold
    <2> QED  BY <2>2 DEF Of!Next
  <1>7. CASE Beside
    <2>1. Running(p)' = Running(p) /\ Asked(p)' = Asked(p)
      BY <1>7 DEF Beside, Running, Asked, Listed
    <2> QED  BY <1>1, <1>7, <2>1 DEF Beside
  <1> QED  BY <1>3, <1>4, <1>5, <1>6, <1>7, StepShape

(* The requests, retries and syncs of all callers together are for every   *)
(* file the calls of one caller that its contract describes, for all pages *)
(* and queues of any length (DownloadResume.cpp:111-367).                  *)
THEOREM AllCallsContracted == Spec => CallsContracted
  <1>1. Init => \A p \in Page : Of(p)!Init
    <2> SUFFICES ASSUME Init, NEW p \in Page PROVE Of(p)!Init
      OBVIOUS
    <2>1. ~Running(p) /\ ended[p] = "none"  BY DEF Init, Running
    <2>2. Asked(p) = NoTask  BY <2>1 DEF Asked
    <2>3. local[p] \in Content \cup {Broken}  BY DEF Init
    <2> QED  BY <2>1, <2>2, <2>3 DEF Of!Init
  <1>2. IInv /\ IInv' /\ [Next]_vars => [\A p \in Page : [Of(p)!Next]_(Of(p)!vars)]_vars
    BY StepContracted
  <1> QED  BY <1>1, <1>2, Invariant, PTL DEF Spec, CallsContracted
=============================================================================
