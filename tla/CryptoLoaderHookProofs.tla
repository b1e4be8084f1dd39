------------------------- MODULE CryptoLoaderHookProofs -------------------------
(***************************************************************************)
(* Proofs about CryptoLoaderHook, for any number of threads and files.     *)
(***************************************************************************)
EXTENDS CryptoLoaderHook, TLAPS

(* What the helpers make of a call is a call.                              *)
LEMMA IdleType == Idle \in Calls
  BY DEF Idle, Calls, Step

LEMMA GateType ==
  ASSUME NEW p \in Page \cup {NoPage}
  PROVE  [Idle EXCEPT !.step = "gate", !.page = p] \in Calls
  BY DEF Idle, Calls, Step

LEMMA StepType ==
  ASSUME NEW c \in Calls, NEW s \in Step
  PROVE  [c EXCEPT !.step = s] \in Calls
  BY DEF Calls

LEMMA CallTypes ==
  ASSUME TypeOK, NEW t \in Thread
  PROVE  /\ Leaves(t) => call' \in [Thread -> Calls]
         /\ ToGate(t) => call' \in [Thread -> Calls]
         /\ \A s \in Step : Goes(t, s) => call' \in [Thread -> Calls]
  <1>1. call[t] \in Calls /\ call[t].page \in Page \cup {NoPage}  BY DEF TypeOK, Calls
  <1>2. Leaves(t) => call' \in [Thread -> Calls]  BY IdleType DEF Leaves, TypeOK
  <1>3. ToGate(t) => call' \in [Thread -> Calls]
    <2>1. [Idle EXCEPT !.step = "gate", !.page = call[t].page] \in Calls  BY <1>1, GateType
    <2> QED  BY <2>1 DEF ToGate, TypeOK
  <1>4. ASSUME NEW s \in Step, Goes(t, s) PROVE call' \in [Thread -> Calls]
    <2>1. [call[t] EXCEPT !.step = s] \in Calls  BY <1>1, StepType
    <2>2. call' = [u \in Thread |-> IF u = t THEN [call[t] EXCEPT !.step = s] ELSE call[u]]
      BY <1>4 DEF Goes, TypeOK
    <2> QED  BY <2>1, <2>2 DEF TypeOK
  <1> QED  BY <1>2, <1>3, <1>4

-----------------------------------------------------------------------------
(* Types.  What a scan finds is a map, and the owner of the mutex has its  *)
(* page or its manifest.                                                   *)
LEMMA TypeStep ==
  ASSUME IInv, [Next]_vars
  PROVE  TypeOK'
  <1> USE ConstantsOK DEF IInv
  <1>1. ASSUME Recreates PROVE TypeOK'
    BY <1>1 DEF Recreates, TypeOK, Payload, Blank, files
  <1>2. ASSUME Copies PROVE TypeOK'
    BY <1>2 DEF Copies, TypeOK, FlowOwned, files
  <1>3. ASSUME WorkerOpens PROVE TypeOK'
    BY <1>3 DEF WorkerOpens, TypeOK, launcher, files
  <1>4. ASSUME WorkerScans PROVE TypeOK'
    BY <1>4 DEF WorkerScans, Swaps, FindsNone, TypeOK, launcher, files
  <1>5. ASSUME NEW t \in Thread, NEW p \in Page, Looks(t, p) PROVE TypeOK'
    <2>1. [Idle EXCEPT !.step = "find", !.page = p, !.exists = (disk[p] # Absent)] \in Calls
      BY DEF Idle, Calls, Step
    <2> QED  BY <1>5, <2>1 DEF Looks, TypeOK, launcher, files
  <1>6. ASSUME NEW t \in Thread, Expects(t) PROVE TypeOK'
    <2>1. ASSUME call' = [call EXCEPT ![t].step = "meta", ![t].want = map[call[t].page]]
          PROVE call' \in [Thread -> Calls]
      <3>1. call[t].page \in Page  BY <1>6 DEF CallKnows, At, Expects
      <3>2. map[call[t].page] \in Md5 \cup {NoEntry}  BY <3>1 DEF TypeOK, Scan
      <3>3. call[t] \in Calls  BY DEF TypeOK
      <3>4. [call[t] EXCEPT !.step = "meta", !.want = map[call[t].page]] \in Calls
        BY <3>2, <3>3 DEF Calls, Step
      <3> QED  BY <2>1, <3>4 DEF TypeOK
    <2>2. call' \in [Thread -> Calls]  BY <1>6, <2>1, CallTypes DEF Expects
    <2> QED  BY <1>6, <2>2 DEF Expects, TypeOK, launcher, files
  <1>7. ASSUME NEW t \in Thread, Refreshes(t) PROVE TypeOK'
    <2>1. call' \in [Thread -> Calls]  BY <1>7, CallTypes DEF Refreshes, Step
    <2> QED  BY <1>7, <2>1 DEF Refreshes, Swaps, FindsNone, TypeOK, launcher, files
  <1>8. ASSUME NEW t \in Thread, NotListed(t) PROVE TypeOK'
    BY <1>8, CallTypes DEF NotListed, TypeOK, launcher, files
  <1>9. ASSUME NEW t \in Thread, ReadsMetadata(t) PROVE TypeOK'
    <2>1. ASSUME call' = [call EXCEPT ![t].step = "check", ![t].seen = stamp[call[t].page]]
          PROVE call' \in [Thread -> Calls]
      <3>1. stamp[call[t].page] \in Nat  BY <1>9 DEF CallKnows, At, ReadsMetadata, TypeOK
      <3>2. call[t] \in Calls  BY DEF TypeOK
      <3>3. [call[t] EXCEPT !.step = "check", !.seen = stamp[call[t].page]] \in Calls
        BY <3>1, <3>2 DEF Calls, Step
      <3> QED  BY <2>1, <3>3 DEF TypeOK
    <2>2. call' \in [Thread -> Calls]  BY <1>9, <2>1, CallTypes DEF ReadsMetadata, Step
    <2> QED  BY <1>9, <2>2 DEF ReadsMetadata, TypeOK, launcher, files
  <1>10. ASSUME NEW t \in Thread, Checks(t) PROVE TypeOK'
    <2>1. call' \in [Thread -> Calls]  BY <1>10, CallTypes DEF Checks, Step
    <2> QED  BY <1>10, <2>1 DEF Checks, TypeOK, launcher, files
  <1>11. ASSUME NEW t \in Thread, Hashes(t) PROVE TypeOK'
    <2>1. PICK content \in {disk[call[t].page], Partial} :
            call' = [call EXCEPT ![t].step = "note", ![t].got = content]
      BY <1>11 DEF Hashes
    <2>2. content \in Content \cup {Absent, Partial}
      BY <1>11, <2>1 DEF CallKnows, At, Hashes, TypeOK
    <2>3. call[t] \in Calls  BY DEF TypeOK
    <2>4. [call[t] EXCEPT !.step = "note", !.got = content] \in Calls
      BY <2>2, <2>3 DEF Calls, Step
    <2>5. call' \in [Thread -> Calls]  BY <2>1, <2>4 DEF TypeOK
    <2> QED  BY <1>11, <2>5 DEF Hashes, TypeOK, launcher, files
  <1>12. ASSUME NEW t \in Thread, HashFails(t) PROVE TypeOK'
    BY <1>12, CallTypes DEF HashFails, TypeOK, launcher, files
  <1>13. ASSUME NEW t \in Thread, Notes(t) PROVE TypeOK'
    <2>1. call' \in [Thread -> Calls]  BY <1>13, CallTypes DEF Notes, Verdict
    <2>2. call[t].want \in Md5 /\ call[t].seen \in Nat \cup {NoStamp}
      BY <1>13 DEF Notes, At, CallKnows, TypeOK, Calls
    <2>3. ASSUME call[t].seen # NoStamp, Caches(t, call[t].seen)
          PROVE cache' \in [Page -> [stamp : Nat, want : Md5, match : BOOLEAN] \cup {NoCache}]
      <3>1. [stamp |-> call[t].seen, want |-> call[t].want, match |-> call[t].got = call[t].want]
              \in [stamp : Nat, want : Md5, match : BOOLEAN]
        BY <2>2, <2>3
      <3> QED  BY <2>3, <3>1 DEF Caches, TypeOK
    <2>4. cache' \in [Page -> [stamp : Nat, want : Md5, match : BOOLEAN] \cup {NoCache}]
      BY <1>13, <2>3 DEF Notes, TypeOK
    <2> QED  BY <1>13, <2>1, <2>4 DEF Notes, Verdict, TypeOK, launcher, files
  <1>14. ASSUME NEW t \in Thread, Asks(t) \/ Unreachable(t) \/ Suppressed(t) PROVE TypeOK'
    <2>1. call' \in [Thread -> Calls]
      BY <1>14, CallTypes DEF Asks, Unreachable, Suppressed, Step
    <2>2. recent' \subseteq Page
      BY <1>14 DEF Asks, Unreachable, Suppressed, Passes, At, CallKnows, TypeOK
    <2> QED  BY <1>14, <2>1, <2>2 DEF Asks, Unreachable, Suppressed, TypeOK, launcher, files
  <1>15. ASSUME NEW t \in Thread, Answered(t) \/ GivesUp(t) PROVE TypeOK'
    <2>1. call' \in [Thread -> Calls]  BY <1>15, CallTypes DEF Answered, GivesUp
    <2>2. others' \subseteq Page  BY <1>15 DEF Answered, GivesUp, At, CallKnows, TypeOK
    <2> QED  BY <1>15, <2>1, <2>2 DEF Answered, GivesUp, TypeOK, launcher, files
  <1>16. ASSUME NEW p \in Page, CooldownEnds(p) \/ OtherAsks(p) \/ ServesOther(p) PROVE TypeOK'
    BY <1>16 DEF CooldownEnds, OtherAsks, ServesOther, TypeOK, launcher, files
  <1>17. ASSUME NEW t \in Thread, Serves(t) PROVE TypeOK'
    <2>1. call[t].page \in Page \cup {NoPage}  BY DEF TypeOK, Calls
    <2> QED  BY <1>17, <2>1 DEF Serves, TypeOK, launcher, files
  <1>18. ASSUME FetchWrites PROVE TypeOK'
    <2>1. job \in Page  BY <1>18 DEF FetchWrites, FlowOwned, TypeOK
    <2> QED  BY <1>18, <2>1 DEF FetchWrites, TypeOK, launcher
  <1>19. ASSUME NEW outcome \in {"ok", "failed"}, FetchEnds(outcome) PROVE TypeOK'
    <2>1. job \in Page  BY <1>19 DEF FetchEnds, FlowOwned, TypeOK
    <2>2. Listing[listed][job] \in Content \cup {NoEntry}  BY <2>1 DEF TypeOK, Payload
    <2>3. disk' \in [Page -> Content \cup {Absent, Partial}] /\ stamp' \in [Page -> Nat]
      BY <1>19, <2>1, <2>2 DEF FetchEnds, Fetched, files, TypeOK
    <2> QED  BY <1>19, <2>3 DEF FetchEnds, TypeOK
  <1>20. CASE UNCHANGED vars  BY <1>20 DEF vars, launcher, files, TypeOK
  <1> QED
    BY <1>1, <1>2, <1>3, <1>4, <1>5, <1>6, <1>7, <1>8, <1>9, <1>10, <1>11, <1>12, <1>13, <1>14,
       <1>15, <1>16, <1>17, <1>18, <1>19, <1>20 DEF Next, Hook

-----------------------------------------------------------------------------
(* What the invariant says of one call, given the files.                   *)
CallFine(c) ==
  /\ c.step # "idle" => c.page \in Page
  /\ c.step \in {"meta", "check", "hash", "note"} => c.want \in Md5
  /\ c.step # "idle" /\ c.seen # NoStamp => c.seen <= stamp[c.page]
  /\ c.step = "note" /\ c.seen = stamp[c.page] => c.got = disk[c.page]

CallsFine == \A t \in Thread : CallFine(call[t])

LEMMA InvFine == IInv => CallsFine
  BY DEF IInv, CallsFine, CallFine, CallKnows, StampsPast, HashFresh, At

(* A call that ends, that is at the gate, or that goes on with what it     *)
(* knows, is fine.                                                         *)
LEMMA IdleFine == CallFine(Idle)
  BY DEF CallFine, Idle

LEMMA GateFine ==
  ASSUME NEW p \in Page
  PROVE  CallFine([Idle EXCEPT !.step = "gate", !.page = p])
  BY DEF CallFine, Idle

LEMMA OneFine ==
  ASSUME TypeOK, CallsFine, UNCHANGED files, NEW t \in Thread, NEW c,
         call' = [call EXCEPT ![t] = c], CallFine(c)
  PROVE  CallsFine'
  BY DEF CallsFine, CallFine, files, TypeOK

LEMMA HelpersFine ==
  ASSUME TypeOK, CallsFine, UNCHANGED files, NEW t \in Thread, ~At(t, "idle")
  PROVE  /\ Leaves(t) => CallsFine'
         /\ ToGate(t) => CallsFine'
         /\ At(t, "meta") /\ Goes(t, "hash") => CallsFine'
         /\ At(t, "check") /\ Goes(t, "hash") => CallsFine'
         /\ \A s \in {"again", "ask"} : Goes(t, s) => CallsFine'
  <1>1. call[t] \in Calls /\ CallFine(call[t]) /\ call[t].page \in Page
    BY DEF TypeOK, CallsFine, CallFine, At
  <1>2. Leaves(t) => CallsFine'  BY OneFine, IdleFine DEF Leaves
  <1>3. ToGate(t) => CallsFine'  BY <1>1, OneFine, GateFine DEF ToGate
  <1>4. ASSUME NEW s \in {"hash", "again", "ask"}, Goes(t, s),
               s = "hash" => At(t, "meta") \/ At(t, "check")
        PROVE  CallsFine'
    <2>1. CallFine([call[t] EXCEPT !.step = s])  BY <1>1, <1>4 DEF CallFine, Calls, At
    <2>2. call' = [call EXCEPT ![t] = [call[t] EXCEPT !.step = s]]  BY <1>4 DEF Goes
    <2> QED  BY <2>1, <2>2, OneFine
  <1> QED  BY <1>2, <1>3, <1>4

(* Steps of the hook.                                                      *)
LEMMA HookFine ==
  ASSUME IInv, NEW t \in Thread, Hook(t) \/ GivesUp(t)
  PROVE  CallsFine'
  <1> USE ConstantsOK DEF IInv
  <1>0. CallsFine /\ call[t] \in Calls  BY InvFine DEF TypeOK
  <1>1. CASE Expects(t)
    <2>1. UNCHANGED files /\ ~At(t, "idle")  BY <1>1 DEF Expects, At
    <2>2. ASSUME call' = [call EXCEPT ![t].step = "meta", ![t].want = map[call[t].page]]
          PROVE CallsFine'
      <3>1. call[t].page \in Page  BY <2>1 DEF CallKnows
      <3>2. map[call[t].page] \in Md5  BY <1>1, <3>1 DEF Expects, Lists, TypeOK, Scan
      <3>3. CallFine([call[t] EXCEPT !.step = "meta", !.want = map[call[t].page]])
        BY <1>0, <2>1, <3>1, <3>2 DEF CallsFine, CallFine, Calls, At
      <3>4. call' = [call EXCEPT ![t] = [call[t] EXCEPT !.step = "meta", !.want = map[call[t].page]]]
        BY <2>2
      <3> QED  BY <1>0, <2>1, <3>3, <3>4, OneFine
    <2> QED  BY <1>0, <1>1, <2>1, <2>2, HelpersFine DEF Expects
  <1>2. CASE Refreshes(t)  BY <1>0, <1>2, HelpersFine DEF Refreshes, At
  <1>3. CASE NotListed(t)  BY <1>0, <1>3, HelpersFine DEF NotListed, At
  <1>4. CASE ReadsMetadata(t)
    <2>1. UNCHANGED files /\ At(t, "meta") /\ ~At(t, "idle")  BY <1>4 DEF ReadsMetadata, At
    <2>2. ASSUME call' = [call EXCEPT ![t].step = "check", ![t].seen = stamp[call[t].page]]
          PROVE CallsFine'
      <3>1. call[t].page \in Page /\ call[t].want \in Md5  BY <2>1 DEF CallKnows, At
      <3>2. stamp[call[t].page] \in Nat  BY <3>1 DEF TypeOK
      <3>3. CallFine([call[t] EXCEPT !.step = "check", !.seen = stamp[call[t].page]])
        BY <1>0, <3>1, <3>2 DEF CallFine, Calls
      <3>4. call' = [call EXCEPT ![t] =
                       [call[t] EXCEPT !.step = "check", !.seen = stamp[call[t].page]]]
        BY <2>2
      <3> QED  BY <1>0, <2>1, <3>3, <3>4, OneFine
    <2> QED  BY <1>0, <1>4, <2>1, <2>2, HelpersFine DEF ReadsMetadata
  <1>5. CASE Checks(t)  BY <1>0, <1>5, HelpersFine DEF Checks, At
  <1>6. CASE Hashes(t)
    <2>1. PICK content \in {disk[call[t].page], Partial} :
            /\ content = disk[call[t].page] \/ stamp[call[t].page] # call[t].seen
            /\ call' = [call EXCEPT ![t].step = "note", ![t].got = content]
      BY <1>6 DEF Hashes
    <2>2. UNCHANGED files /\ At(t, "hash")  BY <1>6 DEF Hashes
    <2>3. CallFine([call[t] EXCEPT !.step = "note", !.got = content])
      BY <1>0, <2>1, <2>2 DEF CallsFine, CallFine, Calls, At
    <2>4. call' = [call EXCEPT ![t] = [call[t] EXCEPT !.step = "note", !.got = content]]
      BY <2>1
    <2> QED  BY <1>0, <2>2, <2>3, <2>4, OneFine
  <1>7. CASE HashFails(t)  BY <1>0, <1>7, HelpersFine DEF HashFails, At
  <1>8. CASE Notes(t)  BY <1>0, <1>8, HelpersFine DEF Notes, Verdict, At
  <1>9. CASE Asks(t) \/ Unreachable(t) \/ Suppressed(t)
    BY <1>0, <1>9, HelpersFine DEF Asks, Unreachable, Suppressed, Passes, At
  <1>10. CASE Answered(t) \/ GivesUp(t)
    BY <1>0, <1>10, HelpersFine DEF Answered, GivesUp, At
  <1> QED  BY <1>1, <1>2, <1>3, <1>4, <1>5, <1>6, <1>7, <1>8, <1>9, <1>10 DEF Hook

(* Stamps only grow, and they change with the file.                        *)
FilesMove == \A p \in Page :
  stamp[p] <= stamp'[p] /\ (stamp'[p] = stamp[p] => disk'[p] = disk[p])

LEMMA FilesStep ==
  ASSUME IInv, [Next]_vars
  PROVE  FilesMove
  <1> USE DEF IInv
  <1>1. ASSUME FetchWrites PROVE FilesMove
    <2>1. job \in Page  BY <1>1 DEF FetchWrites, FlowOwned, TypeOK
    <2> QED  BY <1>1, <2>1 DEF FetchWrites, FilesMove, TypeOK
  <1>2. ASSUME NEW outcome \in {"ok", "failed"}, FetchEnds(outcome) PROVE FilesMove
    <2>1. job \in Page  BY <1>2 DEF FetchEnds, FlowOwned, TypeOK
    <2>2. CASE Fetched
      <3>1. CASE disk' = disk  BY <2>2, <3>1 DEF Fetched, FilesMove, TypeOK
      <3>2. CASE disk' # disk  BY <2>1, <2>2, <3>2 DEF Fetched, FilesMove, TypeOK
      <3> QED  BY <3>1, <3>2
    <2>3. CASE UNCHANGED files  BY <2>3 DEF files, FilesMove, TypeOK
    <2> QED  BY <1>2, <2>2, <2>3 DEF FetchEnds
  <1>3. ASSUME UNCHANGED files PROVE FilesMove  BY <1>3 DEF files, FilesMove, TypeOK
  <1> QED
    BY <1>1, <1>2, <1>3 DEF Next, Hook, vars, Recreates, Copies, WorkerOpens, WorkerScans, Looks,
       Expects, Refreshes, NotListed, ReadsMetadata, Checks, Hashes, HashFails, Notes, Verdict,
       Asks, Unreachable, Suppressed, Answered, GivesUp, CooldownEnds, OtherAsks, Serves,
       ServesOther

(* All steps.                                                              *)
LEMMA FineStep ==
  ASSUME IInv, [Next]_vars
  PROVE  CallsFine'
  <1> USE DEF IInv
  <1>0. CallsFine  BY InvFine
  <1>1. ASSUME NEW t \in Thread, NEW p \in Page, Looks(t, p) PROVE CallsFine'
    <2>1. CallFine([Idle EXCEPT !.step = "find", !.page = p, !.exists = (disk[p] # Absent)])
      BY DEF CallFine, Idle
    <2> QED  BY <1>0, <1>1, <2>1, OneFine DEF Looks
  <1>2. ASSUME NEW t \in Thread, Hook(t) \/ GivesUp(t) PROVE CallsFine'
    BY <1>2, HookFine
  <1>3. ASSUME UNCHANGED call PROVE CallsFine'
    <2>1. ASSUME NEW t \in Thread PROVE CallFine(call[t])'
      <3>1. CallFine(call[t]) /\ call[t] \in Calls  BY <1>0 DEF CallsFine, TypeOK
      <3>2. CASE call[t].step = "idle"  BY <1>3, <3>2 DEF CallFine
      <3>3. CASE call[t].step # "idle"
        <4>1. call[t].page \in Page  BY <3>1, <3>3 DEF CallFine
        <4>2. stamp[call[t].page] <= stamp'[call[t].page]
              /\ (stamp'[call[t].page] = stamp[call[t].page]
                    => disk'[call[t].page] = disk[call[t].page])
          BY <4>1, FilesStep DEF FilesMove
        <4>3. stamp[call[t].page] \in Nat /\ stamp'[call[t].page] \in Nat
          BY <4>1, TypeStep DEF TypeOK
        <4>4. call[t].seen # NoStamp => call[t].seen \in Nat  BY <3>1 DEF Calls
        <4>5. NoStamp \notin Nat  BY ConstantsOK
        <4> QED  BY <1>3, <3>1, <3>3, <4>1, <4>2, <4>3, <4>4, <4>5 DEF CallFine
      <3> QED  BY <3>2, <3>3
    <2> QED  BY <2>1 DEF CallsFine
  <1> QED
    BY <1>1, <1>2, <1>3 DEF Next, vars, Recreates, Copies, WorkerOpens, WorkerScans, CooldownEnds,
       OtherAsks, Serves, ServesOther, FetchWrites, FetchEnds

-----------------------------------------------------------------------------
(* The cache.  A noted verdict is that of a fresh hash when its stamp is   *)
(* still the file's; a file that changes leaves its entry behind.          *)
EntryFine(p) == cache[p] # NoCache =>
  /\ cache[p].stamp <= stamp[p]
  /\ cache[p].stamp = stamp[p] => (cache[p].match <=> disk[p] = cache[p].want)

LEMMA CacheStep ==
  ASSUME IInv, [Next]_vars, NEW p \in Page
  PROVE  EntryFine(p)'
  <1> USE DEF IInv
  <1>0. EntryFine(p) /\ stamp[p] \in Nat /\ stamp'[p] \in Nat
    BY TypeStep DEF EntryFine, StampsPast, CacheSound, TypeOK
  <1>1. ASSUME NEW t \in Thread, Notes(t), call[t].seen # NoStamp PROVE EntryFine(p)'
    <2>1. /\ call[t].page \in Page /\ UNCHANGED files /\ Caches(t, call[t].seen)
          /\ call[t].seen <= stamp[call[t].page]
          /\ call[t].seen = stamp[call[t].page] => call[t].got = disk[call[t].page]
      BY <1>1 DEF Notes, Verdict, CallKnows, StampsPast, HashFresh, At
    <2>2. CASE p = call[t].page
      <3>1. cache'[p] = [stamp |-> call[t].seen, want |-> call[t].want,
                         match |-> call[t].got = call[t].want]
        BY <2>1, <2>2 DEF Caches, TypeOK
      <3>2. cache'[p].stamp = call[t].seen /\ cache'[p].want = call[t].want
            /\ cache'[p].match = (call[t].got = call[t].want)
        BY <3>1
      <3> QED  BY <2>1, <2>2, <3>2 DEF EntryFine, files
    <2>3. CASE p # call[t].page
      <3>1. cache'[p] = cache[p]  BY <2>1, <2>3 DEF Caches, TypeOK
      <3> QED  BY <1>0, <2>1, <3>1 DEF EntryFine, files
    <2> QED  BY <2>2, <2>3
  <1>2. ASSUME UNCHANGED cache PROVE EntryFine(p)'
    <2>1. stamp[p] <= stamp'[p] /\ (stamp'[p] = stamp[p] => disk'[p] = disk[p])
      BY FilesStep DEF FilesMove
    <2>2. cache[p] # NoCache => cache[p].stamp \in Nat  BY DEF TypeOK
    <2> QED  BY <1>0, <1>2, <2>1, <2>2 DEF EntryFine
  <1> QED
    BY <1>1, <1>2 DEF Next, Hook, vars, Recreates, Copies, WorkerOpens, WorkerScans, Looks,
       Expects, Refreshes, NotListed, ReadsMetadata, Checks, Hashes, HashFails, Notes,
       Asks, Unreachable, Suppressed, Answered, GivesUp, CooldownEnds, OtherAsks, Serves,
       ServesOther, FetchWrites, FetchEnds

-----------------------------------------------------------------------------
(* Who has a request waits for it, and the owner of the mutex has its job. *)
AskersWait == \A t \in Thread : req[t] # "none" => At(t, "ask")

LEMMA OwnersStep ==
  ASSUME IInv, [Next]_vars
  PROVE  AskersWait' /\ FlowOwned'
  <1> USE ConstantsOK DEF IInv, At
  <1>0. AskersWait  BY DEF AskersWait, CallKnows
  <1>1. ASSUME NEW t \in Thread, Asks(t) PROVE AskersWait' /\ FlowOwned'
    BY <1>0, <1>1 DEF Asks, Goes, launcher, AskersWait, FlowOwned, TypeOK, Calls
  <1>2. ASSUME NEW t \in Thread, Answered(t) \/ GivesUp(t) PROVE AskersWait' /\ FlowOwned'
    BY <1>0, <1>2 DEF Answered, GivesUp, Leaves, Idle, launcher, AskersWait, FlowOwned, TypeOK
  <1>3. ASSUME NEW t \in Thread, Serves(t) PROVE AskersWait' /\ FlowOwned'
    <2>1. call[t].page \in Page  BY <1>3 DEF Serves, CallKnows
    <2> QED  BY <1>0, <1>3, <2>1 DEF Serves, AskersWait, FlowOwned, TypeOK
  <1>4. ASSUME NEW outcome \in {"ok", "failed"}, FetchEnds(outcome) PROVE AskersWait' /\ FlowOwned'
    BY <1>0, <1>4 DEF FetchEnds, AskersWait, FlowOwned, TypeOK
  <1>5. ASSUME Recreates \/ Copies \/ \E p \in Page : ServesOther(p)
        PROVE  AskersWait' /\ FlowOwned'
    BY <1>0, <1>5 DEF Recreates, Copies, ServesOther, AskersWait, FlowOwned, TypeOK
  <1>6. ASSUME NEW t \in Thread, UNCHANGED <<launcher, req>>, req[t] = "none",
               \A u \in Thread \ {t} : call'[u] = call[u]
        PROVE  AskersWait' /\ FlowOwned'
    BY <1>0, <1>6 DEF launcher, AskersWait, FlowOwned
  <1>7. ASSUME NEW t \in Thread, UNCHANGED <<launcher, req>>, ~At(t, "ask"),
               \A u \in Thread \ {t} : call'[u] = call[u]
        PROVE  AskersWait' /\ FlowOwned'
    BY <1>0, <1>6, <1>7 DEF AskersWait
  <1>8. ASSUME NEW t \in Thread, NEW p \in Page, Looks(t, p) PROVE AskersWait' /\ FlowOwned'
    BY <1>7, <1>8 DEF Looks, TypeOK
  <1>9. ASSUME NEW t \in Thread, Hook(t), ~Asks(t), ~Answered(t) PROVE AskersWait' /\ FlowOwned'
    <2>1. UNCHANGED <<launcher, req>> /\ ~At(t, "ask")
      BY <1>9 DEF Hook, Expects, Refreshes, NotListed, ReadsMetadata, Checks, Hashes, HashFails,
         Notes, Verdict, Unreachable, Passes, Suppressed
    <2>2. \A u \in Thread \ {t} : call'[u] = call[u]
      BY <1>9 DEF Hook, Expects, Refreshes, NotListed, ReadsMetadata, Checks, Hashes, HashFails,
         Notes, Verdict, Unreachable, Suppressed, Leaves, ToGate, Goes, TypeOK
    <2> QED  BY <1>7, <2>1, <2>2
  <1>10. ASSUME UNCHANGED <<launcher, call, req>> PROVE AskersWait' /\ FlowOwned'
    BY <1>0, <1>10 DEF launcher, AskersWait, FlowOwned
  <1> QED
    BY <1>1, <1>2, <1>3, <1>4, <1>5, <1>8, <1>9, <1>10 DEF Next, vars, WorkerOpens, WorkerScans,
       CooldownEnds, OtherAsks, FetchWrites

-----------------------------------------------------------------------------
(* The invariant.                                                          *)
LEMMA InitInv == Init => IInv
  <1> SUFFICES ASSUME Init PROVE IInv  OBVIOUS
  <1> USE ConstantsOK DEF Init
  <1>1. TypeOK
    <2>1. Idle \in Calls  BY IdleType
    <2> QED  BY <2>1 DEF TypeOK, Payload, Scan, Blank
  <1>2. CallKnows /\ StampsPast /\ HashFresh  BY DEF CallKnows, StampsPast, HashFresh, At, Idle
  <1>3. FlowOwned /\ CacheSound  BY DEF FlowOwned, CacheSound
  <1> QED  BY <1>1, <1>2, <1>3 DEF IInv

LEMMA InvStep ==
  ASSUME IInv, [Next]_vars
  PROVE  IInv'
  <1>1. TypeOK'  BY TypeStep
  <1>2. CallsFine' /\ AskersWait' /\ FlowOwned'  BY FineStep, OwnersStep
  <1>3. CallKnows' /\ HashFresh'
    BY <1>2 DEF CallsFine, CallFine, AskersWait, CallKnows, HashFresh, At
  <1>4. \A p \in Page : EntryFine(p)'  BY CacheStep
  <1>5. StampsPast' /\ CacheSound'
    BY <1>2, <1>4 DEF CallsFine, CallFine, EntryFine, StampsPast, CacheSound, At
  <1> QED  BY <1>1, <1>2, <1>3, <1>5 DEF IInv

(* The inductive invariant: calls know what they check, stamps are of the  *)
(* past, hashes fresh, verdicts true of what they were cached under.       *)
THEOREM Invariant == Spec => []IInv
  <1>1. IInv /\ [Next]_vars => IInv'  BY InvStep
  <1> QED  BY InitInv, <1>1, PTL DEF Spec

(* Type correctness of launcher, shared memory, files and hook: no scan    *)
(* and no answer leaves a thread without a file or a request without owner *)
(* (dllmain.cpp:348-626).                                                  *)
THEOREM TypeCorrect == Spec => []TypeOK
  BY Invariant, PTL DEF IInv

(* No interleaving of threads that hash and downloads that replace the     *)
(* file leaves a verdict in the cache that is wrong for the size and write *)
(* time it is kept under (dllmain.cpp:295-334, 582-611).                   *)
THEOREM VerdictsSound == Spec => []CacheSound
  BY Invariant, PTL DEF IInv
-----------------------------------------------------------------------------
(* What a step makes of a call.                                            *)
Looking == {"meta", "check", "hash", "note"}

\* The call comes closer to its end, and what it expects it knew or has from the map.
Onward(c, d) ==
  /\ Rank(d) < Rank(c)
  /\ d.step \in Looking =>
       /\ d.page = c.page
       /\ \/ c.step \in Looking /\ d.want = c.want
          \/ map[c.page] # NoEntry /\ d.want = map[c.page]

LEMMA Ranks ==
  ASSUME NEW c
  PROVE  /\ c.step = "find" => Rank(c) = 8
         /\ c.step = "again" => Rank(c) = 7
         /\ c.step = "meta" => Rank(c) = 6
         /\ c.step = "check" => Rank(c) = 5
         /\ c.step = "hash" => Rank(c) = 4
         /\ c.step = "note" => Rank(c) = 3
         /\ c.step = "gate" => Rank(c) = 2
         /\ c.step = "ask" => Rank(c) = 1
         /\ c.step = "idle" => Rank(c) = 0
  BY DEF Rank

LEMMA HelpersOnward ==
  ASSUME TypeOK, NEW t \in Thread
  PROVE  /\ Leaves(t) /\ ~At(t, "idle") => Onward(call[t], call'[t])
         /\ ToGate(t) /\ Rank(call[t]) > 2 => Onward(call[t], call'[t])
         /\ \A s \in Step :
              Goes(t, s) => /\ call'[t] = [call[t] EXCEPT !.step = s]
                            /\ call'[t].step = s /\ call'[t].page = call[t].page
                            /\ call'[t].want = call[t].want
  <1>1. call[t] \in Calls  BY DEF TypeOK
  <1>2. ASSUME Leaves(t), ~At(t, "idle") PROVE Onward(call[t], call'[t])
    <2>1. call'[t].step = "idle"  BY <1>2 DEF Leaves, Idle, TypeOK
    <2>2. Rank(call[t]) > 0  BY <1>1, <1>2 DEF Rank, At, Calls, Step
    <2> QED  BY <2>1, <2>2 DEF Onward, Rank, Looking
  <1>3. ASSUME ToGate(t), Rank(call[t]) > 2 PROVE Onward(call[t], call'[t])
    <2>1. call'[t].step = "gate"  BY <1>3 DEF ToGate, Idle, TypeOK
    <2> QED  BY <1>3, <2>1 DEF Onward, Rank, Looking
  <1>4. ASSUME NEW s \in Step, Goes(t, s)
        PROVE  /\ call'[t] = [call[t] EXCEPT !.step = s]
               /\ call'[t].step = s /\ call'[t].page = call[t].page
               /\ call'[t].want = call[t].want
    BY <1>1, <1>4 DEF Goes, TypeOK, Calls
  <1> QED  BY <1>2, <1>3, <1>4

LEMMA HookOnward ==
  ASSUME IInv, NEW t \in Thread, Hook(t) \/ GivesUp(t)
  PROVE  /\ call'[t] = call[t] \/ Onward(call[t], call'[t])
         /\ \A u \in Thread \ {t} : call'[u] = call[u]
  <1> USE DEF At
  <1>a. TypeOK  BY DEF IInv
  <1>0. call[t] \in Calls  BY <1>a DEF TypeOK
  <1>1. \A u \in Thread \ {t} : call'[u] = call[u]
    BY <1>a DEF Hook, Expects, Refreshes, NotListed, ReadsMetadata, Checks, Hashes, HashFails, Notes,
       Verdict, Asks, Unreachable, Suppressed, Answered, GivesUp, Leaves, ToGate, Goes, TypeOK
  <1> SUFFICES call'[t] = call[t] \/ Onward(call[t], call'[t])
    BY <1>1
  <1>2. CASE Expects(t)
    <2>1. CASE call[t].exists
      <3>1. /\ call'[t].step = "meta" /\ call'[t].page = call[t].page
            /\ call'[t].want = map[call[t].page]
        BY <1>a, <1>0, <1>2, <2>1 DEF Expects, TypeOK, Calls
      <3> QED  BY <1>2, <3>1, Ranks DEF Expects, Lists, Onward, Looking
    <2>2. CASE ~call[t].exists
      BY <1>2, <2>2, <1>a, HelpersOnward, Ranks DEF Expects
    <2> QED  BY <2>1, <2>2
  <1>3. CASE Refreshes(t)
    <2>1. call[t].step = "find"  BY <1>3 DEF Refreshes
    <2>2. CASE Goes(t, "again")
      <3>1. call'[t].step = "again"  BY <2>2, <1>a, HelpersOnward DEF Step
      <3> QED  BY <2>1, <3>1, Ranks DEF Onward, Looking
    <2>3. CASE Leaves(t)  BY <2>1, <2>3, <1>a, HelpersOnward
    <2> QED  BY <1>3, <2>2, <2>3 DEF Refreshes
  <1>4. CASE NotListed(t) \/ HashFails(t) \/ Unreachable(t) \/ Suppressed(t) \/ Answered(t) \/ GivesUp(t)
    BY <1>4, <1>a, HelpersOnward, Ranks
       DEF NotListed, HashFails, Unreachable, Passes, Suppressed, Answered, GivesUp
  <1>5. CASE ReadsMetadata(t)
    <2>1. CASE ToGate(t)  BY <1>5, <2>1, <1>a, HelpersOnward, Ranks DEF ReadsMetadata
    <2>2. CASE Goes(t, "hash")
      <3>1. /\ call'[t].step = "hash" /\ call'[t].page = call[t].page
            /\ call'[t].want = call[t].want
        BY <2>2, <1>a, HelpersOnward DEF Step
      <3>2. call[t].step = "meta"  BY <1>5 DEF ReadsMetadata
      <3> QED  BY <3>1, <3>2, Ranks DEF Onward, Looking
    <2>3. CASE call' = [call EXCEPT ![t].step = "check", ![t].seen = stamp[call[t].page]]
      <3>1. /\ call'[t].step = "check" /\ call'[t].page = call[t].page
            /\ call'[t].want = call[t].want
        BY <1>a, <1>0, <2>3 DEF TypeOK, Calls
      <3> QED  BY <1>5, <3>1, Ranks DEF ReadsMetadata, Onward, Looking
    <2> QED  BY <1>5, <2>1, <2>2, <2>3 DEF ReadsMetadata
  <1>6. CASE Checks(t)
    <2>1. call[t].step = "check"  BY <1>6 DEF Checks
    <2>2. CASE Goes(t, "hash")
      <3>1. /\ call'[t].step = "hash" /\ call'[t].page = call[t].page
            /\ call'[t].want = call[t].want
        BY <2>2, <1>a, HelpersOnward DEF Step
      <3> QED  BY <2>1, <3>1, Ranks DEF Onward, Looking
    <2>3. CASE Leaves(t) \/ ToGate(t)  BY <2>1, <2>3, <1>a, HelpersOnward, Ranks
    <2> QED  BY <1>6, <2>2, <2>3 DEF Checks
  <1>7. CASE Hashes(t)
    <2>1. /\ call'[t].step = "note" /\ call'[t].page = call[t].page
          /\ call'[t].want = call[t].want
      BY <1>a, <1>0, <1>7 DEF Hashes, TypeOK, Calls
    <2>2. call[t].step = "hash"  BY <1>7 DEF Hashes
    <2> QED  BY <2>1, <2>2, Ranks DEF Onward, Looking
  <1>8. CASE Notes(t)
    BY <1>8, <1>a, HelpersOnward, Ranks DEF Notes, Verdict
  <1>9. CASE Asks(t)
    <2>1. call[t].step = "gate" /\ Goes(t, "ask")  BY <1>9 DEF Asks, Passes
    <2>2. call'[t].step = "ask"  BY <2>1, <1>a, HelpersOnward DEF Step
    <2> QED  BY <2>1, <2>2, Ranks DEF Onward, Looking
  <1> QED  BY <1>2, <1>3, <1>4, <1>5, <1>6, <1>7, <1>8, <1>9 DEF Hook

\* Every call stays as it is, begins, or goes onward.
LEMMA CallsOnward ==
  ASSUME IInv, [Next]_vars, NEW u \in Thread
  PROVE  \/ call'[u] = call[u]
         \/ At(u, "idle") /\ call'[u].step = "find"
         \/ Onward(call[u], call'[u])
  <1>1. ASSUME NEW t \in Thread, NEW p \in Page, Looks(t, p)
        PROVE  call'[u] = call[u] \/ (At(u, "idle") /\ call'[u].step = "find")
    <2>1. [Idle EXCEPT !.step = "find", !.page = p, !.exists = (disk[p] # Absent)].step = "find"
      BY DEF Idle
    <2>2. PICK c : call' = [call EXCEPT ![t] = c] /\ c.step = "find"  BY <1>1, <2>1 DEF Looks
    <2>3. call \in [Thread -> Calls] /\ call[t].step = "idle"
      BY <1>1 DEF Looks, At, IInv, TypeOK
    <2> QED  BY <2>2, <2>3 DEF At
  <1>2. ASSUME NEW t \in Thread, Hook(t) \/ GivesUp(t)
        PROVE  call'[u] = call[u] \/ Onward(call[u], call'[u])
    BY <1>2, HookOnward
  <1>3. CASE UNCHANGED call  BY <1>3
  <1> QED
    BY <1>1, <1>2, <1>3 DEF Next, vars, Recreates, Copies, WorkerOpens, WorkerScans, Serves,
       CooldownEnds, OtherAsks, ServesOther, FetchWrites, FetchEnds

(* A check of a file is over after eight steps of its thread at the most,  *)
(* whatever maps are published, files replaced and answers given meanwhile *)
(* (dllmain.cpp:545-626).                                                  *)
THEOREM ChecksRunOut == Spec => HookAdvances
  <1>1. IInv /\ [Next]_vars =>
          [\A t \in Thread :
             ~At(t, "idle") /\ call'[t] # call[t] => Rank(call'[t]) < Rank(call[t])]_vars
    BY CallsOnward DEF Onward, At
  <1> QED  BY <1>1, Invariant, PTL DEF Spec, HookAdvances

-----------------------------------------------------------------------------
(* Answers.                                                                *)
LEMMA ServedStep ==
  ASSUME IInv, ServedOwns, [Next]_vars
  PROVE  ServedOwns'
  <1>a. TypeOK /\ AskersWait  BY DEF IInv, AskersWait, CallKnows
  <1>1. ASSUME NEW t \in Thread, Serves(t) PROVE ServedOwns'
    <2>1. \A u \in Thread : req[u] # "served"  BY <1>1 DEF Serves, ServedOwns
    <2>2. \A u \in Thread : req'[u] = "served" => u = t
      BY <1>1, <1>a, <2>1 DEF Serves, TypeOK
    <2> QED  BY <1>1, <2>2 DEF Serves, ServedOwns
  <1>2. ASSUME NEW outcome \in {"ok", "failed"}, FetchEnds(outcome) PROVE ServedOwns'
    <2>1. \A u \in Thread : req'[u] # "served"  BY <1>2 DEF FetchEnds
    <2> QED  BY <2>1 DEF ServedOwns
  <1>3. ASSUME Recreates \/ Copies \/ \E p \in Page : ServesOther(p) PROVE ServedOwns'
    <2>1. \A u \in Thread : req[u] # "served"
      <3>1. flow # "fetch"  BY <1>3 DEF Recreates, Copies, ServesOther
      <3> QED  BY <3>1 DEF ServedOwns
    <2> QED  BY <1>3, <2>1 DEF Recreates, Copies, ServesOther, ServedOwns
  \* A thread that is served stays where it is, or gives up.
  <1>4. ASSUME UNCHANGED <<flow, job>>,
               \A u \in Thread : req'[u] = "served" => req[u] = "served" /\ call'[u] = call[u]
        PROVE  ServedOwns'
    BY <1>4 DEF ServedOwns
  <1>5. ASSUME NEW t \in Thread, Hook(t) \/ GivesUp(t) PROVE ServedOwns'
    <2>1. UNCHANGED <<flow, job>> /\ \A u \in Thread \ {t} : req'[u] = req[u] /\ call'[u] = call[u]
      BY <1>5, <1>a, HookOnward
         DEF Hook, Expects, Refreshes, NotListed, ReadsMetadata, Checks, Hashes, HashFails,
         Notes, Verdict, Asks, Unreachable, Suppressed, Answered, GivesUp, launcher, TypeOK
    <2>2. req'[t] # "served"
      <3>1. CASE Asks(t) \/ Answered(t) \/ GivesUp(t)
        BY <1>a, <3>1 DEF Asks, Answered, GivesUp, TypeOK
      <3>2. CASE ~Asks(t) /\ ~Answered(t) /\ ~GivesUp(t)
        <4>1. ~At(t, "ask") /\ UNCHANGED req
          BY <1>5, <3>2 DEF Hook, Expects, Refreshes, NotListed, ReadsMetadata, Checks, Hashes,
             HashFails, Notes, Verdict, Unreachable, Passes, Suppressed, At
        <4> QED  BY <1>a, <4>1 DEF AskersWait
      <3> QED  BY <3>1, <3>2
    <2> QED  BY <1>4, <2>1, <2>2
  <1>6. ASSUME NEW t \in Thread, NEW p \in Page, Looks(t, p) PROVE ServedOwns'
    <2>1. req[t] # "served"  BY <1>6, <1>a DEF Looks, AskersWait, At
    <2>2. UNCHANGED <<flow, job, req>> /\ \A u \in Thread \ {t} : call'[u] = call[u]
      BY <1>6, <1>a DEF Looks, launcher, TypeOK
    <2> QED  BY <1>4, <2>1, <2>2
  <1>7. CASE UNCHANGED <<flow, job, req, call>>  BY <1>7, <1>4
  <1> QED
    BY <1>1, <1>2, <1>3, <1>5, <1>6, <1>7 DEF Next, vars, launcher, WorkerOpens, WorkerScans,
       CooldownEnds, OtherAsks, FetchWrites

(* Whoever else waits, gives up or asks again: a request is answered by    *)
(* its own download, and OK means that the file has just become the listed *)
(* one (dllmain.cpp:386-434, WebService.cpp:102-214).                      *)
THEOREM OwnAnswers == Spec => AnswersOwn
  <1>1. Init => ServedOwns  BY DEF Init, ServedOwns
  <1>2. IInv /\ ServedOwns /\ [Next]_vars => ServedOwns'  BY ServedStep
  <1>3. IInv /\ ServedOwns /\ [Next]_vars =>
          [\A t \in Thread : req[t] = "served" /\ req'[t] = "ok" =>
             /\ disk'[call[t].page] = Listing[listed][call[t].page]
             /\ \A u \in Thread \ {t} : req'[u] = req[u]]_vars
    <2> SUFFICES ASSUME IInv, ServedOwns, Next, NEW t \in Thread,
                        req[t] = "served", req'[t] = "ok"
                 PROVE  /\ disk'[call[t].page] = Listing[listed][call[t].page]
                        /\ \A u \in Thread \ {t} : req'[u] = req[u]
      BY DEF vars
    <2>a. TypeOK  BY DEF IInv
    <2>b. req \in [Thread -> {"none", "queued", "served", "ok", "failed"}]  BY <2>a DEF TypeOK
    <2>c. ASSUME NEW u \in Thread PROVE ~(Hook(u) \/ GivesUp(u) \/ Serves(u))
      <3>1. ~(Expects(u) \/ Refreshes(u) \/ NotListed(u) \/ ReadsMetadata(u) \/ Checks(u)
              \/ Hashes(u) \/ HashFails(u) \/ Notes(u))
        BY DEF Expects, Refreshes, NotListed, ReadsMetadata, Checks, Hashes, HashFails, Notes,
           Verdict
      <3>2. ~(Asks(u) \/ Unreachable(u) \/ Suppressed(u) \/ Answered(u) \/ GivesUp(u) \/ Serves(u))
        BY <2>b DEF Asks, Unreachable, Suppressed, Answered, GivesUp, Serves
      <3> QED  BY <3>1, <3>2 DEF Hook
    <2>1. FetchEnds("ok")
      BY <2>b, <2>c DEF Next, vars, launcher, Recreates, Copies, WorkerOpens, WorkerScans, Looks,
         CooldownEnds, OtherAsks, ServesOther, FetchWrites, FetchEnds
    <2>2. job = call[t].page /\ job \in Page
      BY <2>a DEF ServedOwns, IInv, FlowOwned, TypeOK
    <2> QED  BY <2>a, <2>1, <2>2 DEF FetchEnds, Fetched, ServedOwns, TypeOK
  <1> QED  BY <1>1, <1>2, <1>3, Invariant, PTL DEF Spec, AnswersOwn

-----------------------------------------------------------------------------
(* What is expected of a file.                                             *)
LEMMA NewestRises ==
  ASSUME IInv, Origins, [Next]_vars
  PROVE  /\ First <= listed' /\ (coming' # NoManifest => listed' <= coming')
         /\ First <= Newest /\ Newest \in Manifest /\ Newest' \in Manifest /\ Newest <= Newest'
  <1> USE ConstantsOK
  <1>a. /\ TypeOK /\ FlowOwned /\ First <= listed /\ (coming # NoManifest => listed <= coming)
        /\ TypeOK'
    BY TypeStep DEF IInv, Origins
  <1>b. /\ Manifest \subseteq Nat /\ listed \in Manifest /\ listed' \in Manifest
        /\ coming \in Manifest \cup {NoManifest} /\ coming' \in Manifest \cup {NoManifest}
    BY <1>a DEF TypeOK
  <1>1. CASE Recreates
    <2>1. coming = NoManifest  BY <1>1, <1>a DEF Recreates, FlowOwned
    <2> QED  BY <1>1, <1>a, <1>b, <2>1 DEF Recreates, Newest
  <1>2. CASE Copies
    <2>1. coming # NoManifest  BY <1>2, <1>a DEF Copies, FlowOwned
    <2> QED  BY <1>2, <1>a, <1>b, <2>1 DEF Copies, Newest
  <1>3. CASE UNCHANGED <<listed, coming>>  BY <1>3, <1>a, <1>b DEF Newest
  <1> QED
    BY <1>1, <1>2, <1>3 DEF Next, vars, launcher, Hook, Expects, Refreshes, NotListed,
       ReadsMetadata, Checks, Hashes, HashFails, Notes, Verdict, Asks, Unreachable, Suppressed,
       Answered, GivesUp, WorkerOpens, WorkerScans, Looks, Serves, CooldownEnds, OtherAsks,
       ServesOther, FetchWrites, FetchEnds

LEMMA OriginKept ==
  ASSUME IInv, Origins, [Next]_vars, NEW md5, OfManifest(md5)
  PROVE  OfManifest(md5)'
  <1>1. Newest \in Nat /\ Newest' \in Nat /\ Newest <= Newest' /\ Manifest \subseteq Nat
    BY NewestRises, ConstantsOK
  <1>2. PICK m \in Manifest, q \in Page : First <= m /\ m <= Newest /\ Listing[m][q] = md5
    BY DEF OfManifest
  <1>3. m <= Newest'  BY <1>1, <1>2
  <1> QED  BY <1>2, <1>3 DEF OfManifest

LEMMA ScanOrigin ==
  ASSUME IInv, Origins, Swaps, NEW p \in Page
  PROVE  map'[p] = NoEntry \/ Expectable(map'[p])
  <1>1. PICK scan \in Scan : Found(scan) /\ map' = scan  BY DEF Swaps
  <1>2. CASE coming = NoManifest
    BY <1>1, <1>2 DEF Found, Origins, Expectable
  <1>3. CASE coming # NoManifest
    <2>1. ASSUME NEW q \in Page PROVE OfManifest(Listing[coming][q])
      BY <1>3, ConstantsOK DEF Origins, OfManifest, Newest, IInv, TypeOK
    <2> QED  BY <1>1, <1>3, <2>1 DEF Found, Origins, Expectable
  <1> QED  BY <1>2, <1>3

LEMMA OriginsStep ==
  ASSUME IInv, Origins, [Next]_vars
  PROVE  Origins'
  <1>a. TypeOK  BY DEF IInv
  <1>b. \A md5 : Expectable(md5) => Expectable(md5)'  BY OriginKept DEF Expectable
  <1>1. First <= listed' /\ (coming' # NoManifest => listed' <= coming')  BY NewestRises
  <1>2. ASSUME NEW p \in Page PROVE section'[p] = NoEntry \/ OfManifest(section[p])'
    <2>1. CASE UNCHANGED section  BY <2>1, OriginKept DEF Origins
    <2>2. CASE Recreates
      <3>1. section' = section \/ section' = Blank  BY <2>2 DEF Recreates
      <3> QED  BY <2>1, <3>1 DEF Blank
    <2>3. CASE Copies
      <3>1. /\ coming \in Manifest /\ section' = Listing[coming] /\ listed' = coming
            /\ coming' = NoManifest
        BY <2>3, <1>a DEF Copies, IInv, FlowOwned, TypeOK
      <3>2. First <= coming /\ coming <= Newest'
        BY <3>1, <1>1, ConstantsOK DEF Newest
      <3> QED  BY <3>1, <3>2 DEF OfManifest
    <2> QED
      BY <2>1, <2>2, <2>3 DEF Next, vars, launcher, Hook, Expects, Refreshes, NotListed,
         ReadsMetadata, Checks, Hashes, HashFails, Notes, Verdict, Asks, Unreachable, Suppressed,
         Answered, GivesUp, WorkerOpens, WorkerScans, Looks, Serves, CooldownEnds, OtherAsks,
         ServesOther, FetchWrites, FetchEnds
  <1>3. ASSUME NEW p \in Page PROVE map'[p] = NoEntry \/ Expectable(map[p])'
    <2>1. CASE UNCHANGED map  BY <2>1, <1>b DEF Origins
    <2>2. CASE Swaps
      <3>1. map'[p] = NoEntry \/ Expectable(map'[p])  BY <2>2, ScanOrigin
      <3> QED  BY <3>1, OriginKept DEF Expectable
    <2> QED
      BY <2>1, <2>2 DEF Next, vars, Hook, Expects, Refreshes, NotListed, FindsNone,
         ReadsMetadata, Checks, Hashes, HashFails, Notes, Verdict, Asks, Unreachable, Suppressed,
         Answered, GivesUp, WorkerOpens, WorkerScans, Looks, Serves, CooldownEnds, OtherAsks,
         ServesOther, FetchWrites, FetchEnds, Recreates, Copies
  <1>4. ASSUME NEW t \in Thread, call'[t].step \in Looking
        PROVE  Expectable(call[t].want)'
    <2>1. CASE call'[t] = call[t]  BY <1>4, <2>1, <1>b DEF Origins, Looking
    <2>2. CASE At(t, "idle") /\ call'[t].step = "find"  BY <1>4, <2>2 DEF Looking
    <2>3. CASE Onward(call[t], call'[t])
      <3>1. call'[t].page = call[t].page  BY <1>4, <2>3 DEF Onward
      <3>2. CASE call[t].step \in Looking /\ call'[t].want = call[t].want
        BY <3>1, <3>2, <1>b DEF Origins, Looking
      <3>3. CASE map[call[t].page] # NoEntry /\ call'[t].want = map[call[t].page]
        <4>1. call[t].page \in Page
          <5>1. Rank(call'[t]) \in 3 .. 6  BY <1>4, Ranks DEF Looking
          <5>2. ~At(t, "idle")  BY <2>3, <5>1, Ranks DEF Onward, At
          <5> QED  BY <5>2 DEF IInv, CallKnows, At
        <4> QED  BY <3>1, <3>3, <4>1, <1>b DEF Origins
      <3> QED  BY <1>4, <2>3, <3>2, <3>3 DEF Onward
    <2> QED  BY <2>1, <2>2, <2>3, CallsOnward
  <1>5. ASSUME NEW p \in Page, cache'[p] # NoCache PROVE Expectable(cache[p].want)'
    <2>1. CASE cache'[p] = cache[p]  BY <1>5, <2>1, <1>b DEF Origins
    <2>2. ASSUME NEW t \in Thread, Notes(t), cache' # cache PROVE Expectable(cache[p].want)'
      <3>1. Caches(t, call[t].seen) /\ Expectable(call[t].want)
        BY <2>2 DEF Notes, Origins, At
      <3>2. CASE p = call[t].page
        <4>1. cache'[p].want = call[t].want  BY <1>a, <3>1, <3>2 DEF Caches, TypeOK
        <4> QED  BY <3>1, <3>2, <4>1, <1>b
      <3>3. CASE p # call[t].page
        <4>1. cache'[p] = cache[p]  BY <1>a, <3>1, <3>3 DEF Caches, TypeOK
        <4> QED  BY <2>1, <4>1
      <3> QED  BY <3>2, <3>3
    <2> QED
      BY <2>1, <2>2 DEF Next, vars, Hook, Expects, Refreshes, NotListed,
         ReadsMetadata, Checks, Hashes, HashFails, Verdict, Asks, Unreachable, Suppressed,
         Answered, GivesUp, WorkerOpens, WorkerScans, Looks, Serves, CooldownEnds, OtherAsks,
         ServesOther, FetchWrites, FetchEnds, Recreates, Copies
  <1> QED  BY <1>1, <1>2, <1>3, <1>4, <1>5 DEF Origins, Looking

(* No file passes on the word of a scan that met a copy halfway: what the  *)
(* cache lets pass is a content that was published since the game was      *)
(* started, of this or another file, since half a line and half of another *)
(* may make one (Mapping.cpp:159-199, dllmain.cpp:462-510, 582-611).       *)
THEOREM OnlyPublishedTrusted == Spec => []TrustsPublished
  <1>1. Init => Origins
    <2>1. ASSUME Init PROVE First <= listed /\ coming = NoManifest /\ Newest = First
      BY <2>1, ConstantsOK DEF Init, Newest
    <2>2. ASSUME Init, NEW p \in Page PROVE OfManifest(section[p])
      BY <2>1, <2>2, ConstantsOK DEF Init, OfManifest
    <2>3. ASSUME Init PROVE \A p \in Page : map[p] = NoEntry /\ cache[p] = NoCache
      BY <2>3 DEF Init, Blank
    <2>4. ASSUME Init PROVE \A t \in Thread : call[t].step = "idle"
      BY <2>4 DEF Init, Idle
    <2> QED  BY <2>1, <2>2, <2>3, <2>4 DEF Origins
  <1>2. IInv /\ Origins /\ [Next]_vars => Origins'  BY OriginsStep
  <1>3. IInv /\ Origins => TrustsPublished
    <2> SUFFICES ASSUME IInv, Origins, NEW p \in Page,
                        cache[p] # NoCache, cache[p].match, cache[p].stamp = stamp[p]
                 PROVE  OfManifest(disk[p])
      BY DEF TrustsPublished
    <2>1. disk[p] = cache[p].want  BY DEF IInv, CacheSound
    <2>2. disk[p] \in Content \cup {Absent, Partial}  BY DEF IInv, TypeOK
    <2>3. disk[p] # Torn  BY <2>2, ConstantsOK
    <2> QED  BY <2>1, <2>3 DEF Origins, Expectable
  <1> QED  BY <1>1, <1>2, <1>3, Invariant, PTL DEF Spec

=============================================================================
