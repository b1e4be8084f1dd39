----------------------------- MODULE ChunkDownload -----------------------------
(***************************************************************************)
(* The base package download: DownloadBasePackage tries its mirrors, each  *)
(* by DownloadFileChunkedWithResume, whose worker threads fetch the chunks *)
(* of one archive into a temp file and keep their progress in a JSON file  *)
(* that the next call resumes from.                                        *)
(*                                                                         *)
(* A file is a function from positions to blocks, a block being what one   *)
(* call of the receiver hands over; block n of the remote archive is n.    *)
(* Every mirror serves the same archive.  The fstream buffers its last     *)
(* write until the next seekp, so a killed launcher may lose it.           *)
(***************************************************************************)
EXTENDS Naturals

CONSTANTS
  FileSize,   \* blocks of the archive
  ChunkSize,  \* blocks of a chunk (8 MiB)
  Threads,    \* worker threads of one call
  Attempts,   \* kChunkMaxAttemptsPerWorker
  Mirrors,    \* number of basePackageUrls
  Replies,    \* how the server may answer a range: the range, everything, an error page
  Zero,       \* a block of a preallocated file
  Junk,       \* a block of an HTTP error page
  Absent,     \* "no such file"
  Partial,    \* an archive of another length
  NoState     \* no progress file, or one that cannot be parsed

ASSUME SizesOK ==
  /\ FileSize \in Nat \ {0} /\ ChunkSize \in Nat \ {0} /\ Threads \in Nat \ {0}
  /\ Attempts \in Nat /\ Mirrors \in Nat \ {0}
ASSUME ValuesOK ==
  /\ Zero \notin Nat /\ Junk \notin Nat
  /\ Replies \subseteq {"206", "200", "error"}

Pos    == 0 .. FileSize - 1
Block  == Pos \cup {Zero, Junk}
Image  == [Pos -> Block]
Worker == 0 .. Threads - 1
Remote == [n \in Pos |-> n]

ASSUME FilesOK == {Absent, Partial} \cap Image = {} /\ Absent # Partial

\* ChunkStateStore::Initialize cuts the file; only the last chunk may be shorter.
First(k) == k * ChunkSize
Chunk == {k \in Pos : First(k) < FileSize}
Length(k) == IF First(k) + ChunkSize <= FileSize THEN ChunkSize ELSE FileSize - First(k)
Nothing == [k \in Chunk |-> 0]
Progress == [Chunk -> 0 .. ChunkSize]
SavedState == [url : 1 .. Mirrors, got : Progress]
Buffer == UNION {[d -> Block] : d \in {{}} \cup {{n} : n \in Pos}}
ASSUME NoStateOK == NoState \notin SavedState

VARIABLES
  step,     \* where DownloadBasePackage stands; "idle": no call, or no launcher
  url,      \* the mirror being tried
  dataDir,  \* does ./Data exist
  archive,  \* the local archive
  tmp,      \* the .tmp file
  tmpLong,  \* a body ran past its end, so its length is wrong
  saved,    \* the .chunks.json file
  got,      \* ChunkState: blocks counted per chunk; a chunk is done at its length
  buffer,   \* the block written last and not flushed yet, if any: [{n} -> Block]
  failed,   \* m_failed
  at,       \* WorkerLoop: where each worker stands
  cur,      \* its chunkIndex
  tries,    \* its attempt
  start,    \* its requestStart
  body,     \* the blocks of the running response it received
  reply,    \* what the server answers, or answered
  snap,     \* the copy of the state it is about to save
  spoilt    \* history: an event outside the bookkeeping touched the temp file

call   == <<url, got, buffer, failed>>
disk   == <<dataDir, archive, tmp, tmpLong, saved>>
worker == <<at, cur, tries, start, body, reply, snap>>
vars   == <<step, call, disk, worker, spoilt>>

TypeOK ==
  /\ step \in {"idle", "candidate", "load", "run", "stream", "replace", "rename",
               "verify", "extract"}
  /\ url \in 1 .. Mirrors
  /\ dataDir \in BOOLEAN
  /\ archive \in Image \cup {Absent, Partial}
  /\ tmp \in Image \cup {Absent}
  /\ tmpLong \in BOOLEAN
  /\ saved \in SavedState \cup {NoState}
  /\ got \in Progress
  /\ buffer \in Buffer
  /\ failed \in BOOLEAN
  /\ at \in [Worker -> {"head", "receive", "save", "out"}]
  /\ cur \in [Worker -> Nat]
  /\ tries \in [Worker -> 0 .. Attempts]
  /\ start \in [Worker -> Pos]
  /\ body \in [Worker -> Nat]
  /\ reply \in [Worker -> {"206", "200", "error", "lost"}]
  /\ snap \in [Worker -> Progress]
  /\ spoilt \in BOOLEAN

Done(k) == got[k] = Length(k)
Counted(g) == {n \in Pos : \E k \in Chunk : First(k) <= n /\ n < First(k) + g[k]}

\* What the temp file holds once the stream is flushed.
Flushed == [n \in Pos |-> IF n \in DOMAIN buffer THEN buffer[n] ELSE tmp[n]]

-----------------------------------------------------------------------------
(* DownloadBasePackage and the first half of DownloadFileChunkedWithResume. *)

\* EnsureBasePackageReady only looks for ./Data.
DownloadBasePackage ==
  /\ step = "idle" /\ ~dataDir
  /\ step' = "candidate" /\ url' = 1
  /\ UNCHANGED <<got, buffer, failed, disk, worker, spoilt>>

\* A completed transfer replaces the archive; one that does not verify is removed.
TryP2P ==
  /\ step = "candidate"
  /\ \/ step' = "extract" /\ archive' = Remote
     \/ step' = "load" /\ archive' \in {archive, Absent}
  /\ UNCHANGED <<dataDir, tmp, tmpLong, saved, call, worker, spoilt>>

\* The next mirror, or the error box and the end of the launcher.
GiveUp == IF url < Mirrors THEN step' = "candidate" /\ url' = url + 1
                           ELSE step' = "idle" /\ UNCHANGED url

\* SaveToJson writes a second file, removes the first and renames; each may fail.
SaveToJson(g) == saved' \in {[url |-> url, got |-> g], saved, NoState}

\* Mutant: the temp file is rebuilt by every call.
ResumeRebuilds ==
  /\ step = "load"
  /\ step' = "run"
  /\ got' = IF saved # NoState /\ saved.url = url THEN saved.got ELSE Nothing
  /\ SaveToJson(got')
  /\ tmp' = [n \in Pos |-> Zero] /\ tmpLong' = FALSE /\ UNCHANGED spoilt
  /\ failed' = FALSE
  /\ at' = [i \in Worker |-> "head"] /\ cur' = [i \in Worker |-> i]
  /\ UNCHANGED <<url, dataDir, archive, buffer, tries, start, body, reply, snap>>

\* Mutant: a new state is neither loaded nor saved before the workers start.
ResumeUnsaved ==
  /\ step = "load"
  /\ step' = "run"
  /\ got' = Nothing
  /\ UNCHANGED saved
  /\ IF tmp = Absent \/ tmpLong
     THEN /\ tmp' = [n \in Pos |-> Zero] /\ tmpLong' = FALSE
          /\ spoilt' = (got' # Nothing \/ (saved' # NoState /\ saved'.got # Nothing))
     ELSE UNCHANGED <<tmp, tmpLong, spoilt>>
  /\ failed' = FALSE
  /\ at' = [i \in Worker |-> "head"] /\ cur' = [i \in Worker |-> i]
  /\ UNCHANGED <<url, dataDir, archive, buffer, tries, start, body, reply, snap>>

\* The temp file is only rebuilt when its length is wrong; the progress is kept.
Resume ==
  /\ step = "load"
  /\ step' = "run"
  /\ got' = IF saved # NoState /\ saved.url = url THEN saved.got ELSE Nothing
  /\ SaveToJson(got')
  /\ IF tmp = Absent \/ tmpLong
     THEN /\ tmp' = [n \in Pos |-> Zero] /\ tmpLong' = FALSE
          /\ spoilt' = (got' # Nothing \/ (saved' # NoState /\ saved'.got # Nothing))
     ELSE UNCHANGED <<tmp, tmpLong, spoilt>>
  /\ failed' = FALSE
  /\ at' = [i \in Worker |-> "head"] /\ cur' = [i \in Worker |-> i]
  /\ UNCHANGED <<url, dataDir, archive, buffer, tries, start, body, reply, snap>>

\* The probe, the temp file or its opening fails.
ResumeFails ==
  /\ step = "load"
  /\ GiveUp
  /\ UNCHANGED <<got, buffer, failed, disk, worker, spoilt>>

-----------------------------------------------------------------------------
(* ChunkDownloadExecutor::WorkerLoop, one response at a time.               *)

\* The head of both loops: leave, take the next chunk, or send a request.
Leave(i) ==
  /\ at[i] = "head"
  /\ \/ failed \/ cur[i] \notin Chunk
     \/ cur[i] \in Chunk /\ ~Done(cur[i]) /\ tries[i] = Attempts
  /\ failed' = (failed \/ cur[i] \in Chunk)
  /\ at' = [at EXCEPT ![i] = "out"]
  /\ tries' = [tries EXCEPT ![i] = 0]
  /\ UNCHANGED <<step, url, got, buffer, disk, cur, start, body, reply, snap, spoilt>>

\* Mutant: the next chunk instead of the next one of this worker.
NextChunkByOne(i) ==
  /\ at[i] = "head" /\ ~failed /\ cur[i] \in Chunk /\ Done(cur[i])
  /\ cur' = [cur EXCEPT ![i] = cur[i] + 1]
  /\ tries' = [tries EXCEPT ![i] = 0]
  /\ UNCHANGED <<step, call, disk, at, start, body, reply, snap, spoilt>>

NextChunk(i) ==
  /\ at[i] = "head" /\ ~failed /\ cur[i] \in Chunk /\ Done(cur[i])
  /\ cur' = [cur EXCEPT ![i] = cur[i] + Threads]
  /\ tries' = [tries EXCEPT ![i] = 0]
  /\ UNCHANGED <<step, call, disk, at, start, body, reply, snap, spoilt>>

\* Mutant: the range starts at what the chunk has, not at the chunk's start plus that.
RequestWithoutFirst(i) ==
  /\ at[i] = "head" /\ ~failed /\ cur[i] \in Chunk /\ ~Done(cur[i]) /\ tries[i] < Attempts
  /\ at' = [at EXCEPT ![i] = "receive"]
  /\ start' = [start EXCEPT ![i] = got[cur[i]]]
  /\ \E r \in Replies : reply' = [reply EXCEPT ![i] = r]
  /\ UNCHANGED <<step, call, disk, cur, tries, body, snap, spoilt>>

Request(i) ==
  /\ at[i] = "head" /\ ~failed /\ cur[i] \in Chunk /\ ~Done(cur[i]) /\ tries[i] < Attempts
  /\ at' = [at EXCEPT ![i] = "receive"]
  /\ start' = [start EXCEPT ![i] = First(cur[i]) + got[cur[i]]]
  /\ \E r \in Replies : reply' = [reply EXCEPT ![i] = r]
  /\ UNCHANGED <<step, call, disk, cur, tries, body, snap, spoilt>>

\* The blocks a response still carries: the range, the whole file, or an error page.
More(i) == CASE reply[i] = "206" -> start[i] + body[i] < First(cur[i]) + Length(cur[i])
             [] reply[i] = "200" -> body[i] < FileSize
             [] OTHER -> body[i] = 0
Arriving(i) == CASE reply[i] = "206" -> start[i] + body[i]
                 [] reply[i] = "200" -> body[i]
                 [] OTHER -> Junk

\* receiver: written at writeOffset and counted whatever the status is; the seek
\* flushes what another worker wrote before.
Receive(i) ==
  /\ at[i] = "receive" /\ More(i)
  /\ tmp' = Flushed
  /\ LET n == start[i] + body[i]
     IN /\ buffer' = [m \in {n} \cap Pos |-> Arriving(i)]
        /\ tmpLong' = (tmpLong \/ n \notin Pos)
        /\ spoilt' = (spoilt \/ Arriving(i) # n)
  /\ got' = [got EXCEPT ![cur[i]] = IF Done(cur[i]) THEN @ ELSE @ + 1]
  /\ body' = [body EXCEPT ![i] = body[i] + 1]
  /\ UNCHANGED <<step, url, failed, dataDir, archive, saved, at, cur, tries, start, reply, snap>>

\* The response is complete, a range may be a shorter one, or the connection or a
\* write was lost. PersistState copies the state under its mutex.
EndReply(i) ==
  /\ at[i] = "receive"
  /\ at' = [at EXCEPT ![i] = "save"]
  /\ \/ reply' = [reply EXCEPT ![i] = "lost"]
     \/ (~More(i) \/ reply[i] # "200") /\ UNCHANGED reply
  /\ snap' = [snap EXCEPT ![i] = got]
  /\ UNCHANGED <<step, call, disk, cur, tries, start, body, spoilt>>

\* A whole body is only acceptable for a request of the whole file.
WholeFile(i) == start[i] = 0 /\ First(cur[i]) + Length(cur[i]) = FileSize

\* Mutant: a lost response costs no attempt.
SaveCountsNothing(i) ==
  /\ at[i] = "save"
  /\ SaveToJson(snap[i])
  /\ IF reply[i] = "200" /\ ~WholeFile(i)
     THEN /\ failed' = TRUE /\ at' = [at EXCEPT ![i] = "out"]
          /\ tries' = [tries EXCEPT ![i] = 0]
     ELSE /\ at' = [at EXCEPT ![i] = "head"]
          /\ UNCHANGED <<failed, tries>>
  /\ start' = [start EXCEPT ![i] = 0] /\ body' = [body EXCEPT ![i] = 0]
  /\ reply' = [reply EXCEPT ![i] = "lost"] /\ snap' = [snap EXCEPT ![i] = Nothing]
  /\ UNCHANGED <<step, url, got, buffer, dataDir, archive, tmp, tmpLong, cur, spoilt>>

\* PersistState writes the copy without the mutex; then the response is judged.
Save(i) ==
  /\ at[i] = "save"
  /\ SaveToJson(snap[i])
  /\ IF reply[i] = "200" /\ ~WholeFile(i)
     THEN /\ failed' = TRUE /\ at' = [at EXCEPT ![i] = "out"]
          /\ tries' = [tries EXCEPT ![i] = 0]
     ELSE /\ at' = [at EXCEPT ![i] = "head"]
          /\ tries' = [tries EXCEPT ![i] =
                         IF \/ reply[i] \in {"lost", "error"}
                            \/ ~Done(cur[i]) /\ body[i] = 0
                         THEN @ + 1 ELSE @]
          /\ UNCHANGED failed
  /\ start' = [start EXCEPT ![i] = 0] /\ body' = [body EXCEPT ![i] = 0]
  /\ reply' = [reply EXCEPT ![i] = "lost"] /\ snap' = [snap EXCEPT ![i] = Nothing]
  /\ UNCHANGED <<step, url, got, buffer, dataDir, archive, tmp, tmpLong, cur, spoilt>>

WorkerStep(i) ==
  /\ step = "run"
  /\ \/ Leave(i) \/ NextChunk(i) \/ Request(i) \/ Receive(i) \/ EndReply(i) \/ Save(i)

-----------------------------------------------------------------------------
(* The second half of DownloadFileChunkedWithResume.                        *)

\* Mutant: the result of Run and the chunks' flags are not looked at.
JoinUnchecked ==
  /\ step = "run" /\ \A i \in Worker : at[i] = "out"
  /\ SaveToJson(got)
  /\ tmp' = Flushed /\ buffer' = <<>> /\ got' = Nothing /\ failed' = FALSE
  /\ step' = "replace" /\ UNCHANGED url
  /\ UNCHANGED <<dataDir, archive, tmpLong, worker, spoilt>>

\* Run joins its threads, saves and reports; closing the stream flushes it.
Join ==
  /\ step = "run" /\ \A i \in Worker : at[i] = "out"
  /\ SaveToJson(got)
  /\ tmp' = Flushed /\ buffer' = <<>> /\ got' = Nothing /\ failed' = FALSE
  /\ IF failed THEN step' = "stream" /\ UNCHANGED url
     ELSE IF \A k \in Chunk : Done(k) THEN step' = "replace" /\ UNCHANGED url
     ELSE GiveUp
  /\ UNCHANGED <<dataDir, archive, tmpLong, worker, spoilt>>

\* DownloadFileFromAbsoluteUrl truncates the archive and streams the whole body.
SingleStream ==
  /\ step = "stream"
  /\ \/ step' = "verify" /\ UNCHANGED url
        /\ archive' = Remote /\ tmp' = Absent /\ tmpLong' = FALSE /\ saved' = NoState
     \/ GiveUp /\ archive' \in {archive, Partial} /\ UNCHANGED <<tmp, tmpLong, saved>>
  /\ UNCHANGED <<got, buffer, failed, dataDir, worker, spoilt>>

\* The result of the removal is not looked at.
RemoveArchive ==
  /\ step = "replace"
  /\ step' = "rename" /\ archive' \in {Absent, archive}
  /\ UNCHANGED <<call, dataDir, tmp, tmpLong, saved, worker, spoilt>>

\* The progress file stays beside the archive.
RenameTemp ==
  /\ step = "rename"
  /\ \/ /\ tmp' = Absent /\ tmpLong' = FALSE
        /\ IF tmpLong THEN archive' = Partial /\ GiveUp
                      ELSE archive' = tmp /\ step' = "verify" /\ UNCHANGED url
     \/ GiveUp /\ UNCHANGED <<archive, tmp, tmpLong>>
  /\ UNCHANGED <<got, buffer, failed, dataDir, saved, worker, spoilt>>

\* VerifyArchiveReadable reads every entry, whose checksums the archive holds.
Verify ==
  /\ step = "verify"
  /\ IF archive = Remote THEN step' = "extract" /\ UNCHANGED <<url, archive>>
                         ELSE GiveUp /\ archive' = Absent
  /\ UNCHANGED <<got, buffer, failed, dataDir, tmp, tmpLong, saved, worker, spoilt>>

\* Extract7z; a failure ends the launcher with or without a ./Data.
Extract ==
  /\ step = "extract"
  /\ step' = "idle" /\ dataDir' \in {TRUE, dataDir}
  /\ UNCHANGED <<call, archive, tmp, tmpLong, saved, worker, spoilt>>

-----------------------------------------------------------------------------
\* The launcher is killed: the buffered block may be lost, the archive cut short,
\* the progress file missing between remove and rename.
Kill ==
  /\ step # "idle" /\ step' = "idle"
  /\ saved' \in IF step = "run" THEN {saved, NoState} ELSE {saved}
  /\ archive' \in IF step = "stream" THEN {archive, Partial} ELSE {archive}
  /\ \/ tmp' = (IF tmp = Absent THEN tmp ELSE Flushed) /\ UNCHANGED spoilt
     \/ buffer # <<>> /\ UNCHANGED tmp /\ spoilt' = TRUE
  /\ url' = 1 /\ got' = Nothing /\ buffer' = <<>> /\ failed' = FALSE
  /\ at' = [i \in Worker |-> "out"] /\ cur' = [i \in Worker |-> i]
  /\ tries' = [i \in Worker |-> 0] /\ start' = [i \in Worker |-> 0]
  /\ body' = [i \in Worker |-> 0] /\ reply' = [i \in Worker |-> "lost"]
  /\ snap' = [i \in Worker |-> Nothing]
  /\ UNCHANGED <<dataDir, tmpLong>>

Init ==
  /\ step = "idle" /\ url = 1 /\ dataDir = FALSE
  /\ archive = Absent /\ tmp = Absent /\ tmpLong = FALSE /\ saved = NoState
  /\ got = Nothing /\ buffer = <<>> /\ failed = FALSE
  /\ at = [i \in Worker |-> "out"] /\ cur = [i \in Worker |-> i]
  /\ tries = [i \in Worker |-> 0] /\ start = [i \in Worker |-> 0]
  /\ body = [i \in Worker |-> 0] /\ reply = [i \in Worker |-> "lost"]
  /\ snap = [i \in Worker |-> Nothing]
  /\ spoilt = FALSE

CallStep == \/ TryP2P \/ Resume \/ ResumeFails \/ Join \/ SingleStream
            \/ RemoveArchive \/ RenameTemp \/ Verify \/ Extract

Next == \/ DownloadBasePackage \/ CallStep \/ (\E i \in Worker : WorkerStep(i))
        \/ Kill

Spec == Init /\ [][Next]_vars

-----------------------------------------------------------------------------
(* A block that the state of a running call counts is in the temp file at  *)
(* its place, whichever worker wrote it and wherever another response was  *)
(* cut, unless one of the named events spoilt the file: a body that is not *)
(* the range, a lost buffer, or a temp file rebuilt under an old progress  *)
(* file (ChunkExecutor.cpp:120-155).                                       *)
Accounted == step = "run" /\ ~spoilt => \A n \in Counted(got) : Flushed[n] = n

(* What the next launch resumes from claims no more than the temp file has *)
(* (ChunkExecutor.cpp:56-63, 159; ChunkState.cpp:50-92).                   *)
ResumeSafe ==
  step = "idle" /\ saved # NoState /\ tmp # Absent /\ ~tmpLong /\ ~spoilt =>
    \A n \in Counted(saved.got) : tmp[n] = n

(* A late snapshot of one worker that overwrites a newer one only loses    *)
(* progress, it never claims progress the state does not have              *)
(* (ChunkExecutor.cpp:56-63).                                              *)
NeverAhead ==
  step = "run" /\ saved # NoState /\ saved.url = url =>
    \A k \in Chunk : saved.got[k] <= got[k]

(* The archive handed to the verification is the mirror's, unless one of   *)
(* the named events spoilt the temp file (ChunkDownload.cpp:303-322).      *)
ArchiveExact == step = "verify" /\ ~spoilt => archive = Remote

-----------------------------------------------------------------------------
(* The inductive invariant.                                                *)

\* Outside Run no worker runs, and the state and the stream are gone.
Idle == step # "run" =>
          got = Nothing /\ buffer = <<>> /\ \A i \in Worker : at[i] = "out" /\ body[i] = 0

\* Worker i only ever takes the chunks i, i + Threads, i + 2 * Threads, ...
Turn(i) == \E m \in 0 .. cur[i] : cur[i] = i + m * Threads

\* A response is written where the count of its chunk stands, until the chunk is done.
Placed(i) == /\ start[i] + body[i] >= First(cur[i]) + got[cur[i]]
             /\ ~Done(cur[i]) => start[i] + body[i] = First(cur[i]) + got[cur[i]]

WorkerOK(i) ==
  /\ Turn(i)
  /\ at[i] \in {"head", "out"} => body[i] = 0
  /\ at[i] \in {"receive", "save"} => cur[i] \in Chunk /\ tries[i] < Attempts
  /\ at[i] = "receive" => Placed(i)
  /\ at[i] = "save" => \A k \in Chunk : snap[i][k] <= got[k]

Fits(g) == \A k \in Chunk : g[k] <= Length(k)
CountsFit == Fits(got) /\ (saved # NoState => Fits(saved.got)) /\ \A i \in Worker : Fits(snap[i])

TempThere == step \in {"run", "replace", "rename"} => tmp # Absent

\* What is counted, in memory or in the progress file of any mirror, is in the file.
Backed(g) == \A n \in Counted(g) : Flushed[n] = n
Kept == ~spoilt /\ tmp # Absent => Backed(got) /\ (saved # NoState => Backed(saved.got))

Whole == /\ step \in {"replace", "rename"} /\ ~spoilt => tmp = Remote
         /\ step = "extract" => archive = Remote

IInv == /\ TypeOK /\ Idle /\ (\A i \in Worker : WorkerOK(i)) /\ CountsFit /\ TempThere
        /\ Kept /\ Whole /\ NeverAhead /\ ArchiveExact

-----------------------------------------------------------------------------
(* Every call of the chunk executor comes back, whatever the server does   *)
(* (ChunkExecutor.cpp:34-54, 76-195).                                      *)
ExecutorEnds == step = "run" ~> step # "run"

\* Blocks a worker's chunk still lacks, and one for a response that brought some.
Due(i) == Length(cur[i]) - got[cur[i]] + IF body[i] > 0 THEN 1 ELSE 0
Stage(s) == CASE s = "head" -> 3 [] s = "receive" -> 2 [] s = "save" -> 1 [] s = "out" -> 0

\* Worker i comes closer to its end: its chunks only go up, on each one it has a
\* bounded number of attempts, and a response that costs none has brought blocks.
Advances(i) ==
  \/ at[i] # "out" /\ at'[i] = "out"
  \/ cur[i] \in Chunk /\ cur'[i] > cur[i]
  \/ cur[i] \in Chunk /\ cur'[i] = cur[i] /\ tries'[i] > tries[i]
  \/ cur[i] \in Chunk /\ cur'[i] = cur[i] /\ tries'[i] = tries[i] /\ Due(i)' < Due(i)
  \/ /\ cur[i] \in Chunk /\ cur'[i] = cur[i] /\ tries'[i] = tries[i] /\ Due(i)' = Due(i)
     /\ \/ Stage(at'[i]) < Stage(at[i])
        \/ at'[i] = at[i] /\ body'[i] > body[i] /\ body'[i] <= FileSize

\* A response that brought no block yet is for a chunk that lacks some.
Begun(i) == at[i] \in {"receive", "save"} /\ body[i] = 0 => ~Done(cur[i])

\* The other workers are not disturbed.
Stands(i) == /\ at'[i] = at[i] /\ cur'[i] = cur[i] /\ tries'[i] = tries[i] /\ body'[i] = body[i]
             /\ cur[i] \in Chunk => got'[cur[i]] = got[cur[i]]

Later == [candidate |-> {"load", "extract"}, load |-> {"run"}, run |-> {"stream", "replace"},
          stream |-> {"verify"}, replace |-> {"rename"}, rename |-> {"verify"},
          verify |-> {"extract"}, extract |-> {}]

(* No step of a base package download is lost: it ends, it goes on to the  *)
(* next mirror, to a later step of this one, or one worker comes closer to *)
(* its end while no other is set back, whatever the server answers         *)
(* (LauncherUpdateCoordinator.cpp:453-530, ChunkExecutor.cpp:76-195).      *)
CallAdvances ==
  [][step # "idle" =>
       \/ step' = "idle"
       \/ url < Mirrors /\ url' = url + 1
       \/ url' = url /\ step' \in Later[step]
       \/ /\ step = "run" /\ UNCHANGED <<step, url>>
          /\ \E i \in Worker : Advances(i) /\ \A j \in Worker \ {i} : Stands(j)]_vars

(* A timeout of 30 s bounds each wait for a response, so some thread goes on. *)
FairSpec == Spec /\ WF_vars(Join \/ \E i \in Worker : WorkerStep(i))
=============================================================================
