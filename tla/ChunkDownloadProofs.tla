-------------------------- MODULE ChunkDownloadProofs --------------------------
(***************************************************************************)
(* Proofs about the base package download, for every archive size, chunk   *)
(* size, number of worker threads, attempts and mirrors.                   *)
(***************************************************************************)
EXTENDS ChunkDownload, TLAPS

(* A chunk starts and ends inside the archive and is not empty.            *)
LEMMA ChunkBounds ==
  ASSUME NEW k \in Chunk
  PROVE  /\ k \in Nat /\ First(k) \in Nat /\ Length(k) \in Nat \ {0}
         /\ Length(k) <= ChunkSize /\ First(k) + Length(k) <= FileSize
<1>1. k \in Nat /\ First(k) < FileSize
  BY SizesOK DEF Chunk, Pos
<1>2. First(k) \in Nat
  BY <1>1, SizesOK DEF First
<1> QED
  BY <1>1, <1>2, SizesOK DEF Length

(* The chunks cover the archive.                                           *)
LEMMA Covered ==
  ASSUME NEW n \in Pos
  PROVE  \E k \in Chunk : First(k) <= n /\ n < First(k) + Length(k)
<1> DEFINE k == n \div ChunkSize
<1>1. n \in Nat /\ n < FileSize /\ ChunkSize \in Nat /\ ChunkSize > 0 /\ FileSize \in Nat
  BY SizesOK DEF Pos
<1>2. k \in Nat /\ k <= n /\ k * ChunkSize <= n /\ n < k * ChunkSize + ChunkSize
  BY <1>1, SMTT(30)
<1>3. k \in Chunk
  BY <1>1, <1>2 DEF Chunk, Pos, First
<1>4. First(k) <= n /\ n < First(k) + Length(k)
  BY <1>1, <1>2 DEF First, Length
<1> QED
  BY <1>3, <1>4

(* Two workers never stand at the same chunk.                              *)
LEMMA Turns ==
  ASSUME NEW i \in Worker, NEW j \in Worker, i # j, cur \in [Worker -> Nat],
         Turn(i), Turn(j)
  PROVE  cur[i] # cur[j]
<1> SUFFICES ASSUME cur[i] = cur[j] PROVE FALSE
  OBVIOUS
<1>1. PICK m \in Nat : cur[i] = i + m * Threads
  BY DEF Turn
<1>2. PICK n \in Nat : cur[j] = j + n * Threads
  BY DEF Turn
<1> DEFINE p == m * Threads
           q == n * Threads
<1>3. i \in Nat /\ j \in Nat /\ i < Threads /\ j < Threads /\ Threads \in Nat
  BY SizesOK DEF Worker
<1>4. p \in Nat /\ q \in Nat
  BY <1>3
<1>5. i + p = j + q
  <2>1. cur[i] = i + p /\ cur[j] = j + q
    BY <1>1, <1>2
  <2> QED BY <2>1
<1>6. m < n => q >= p + Threads
  BY <1>3
<1>7. n < m => p >= q + Threads
  BY <1>3
<1>8. m = n => p = q
  OBVIOUS
<1> HIDE DEF p, q
<1>9. m < n \/ n < m \/ m = n
  OBVIOUS
<1> QED
  BY <1>3, <1>4, <1>5, <1>6, <1>7, <1>8, <1>9

(* The archive of the mirror is a file.                                    *)
LEMMA RemoteIsImage == Remote \in Image
BY DEF Remote, Image, Block

(* Steps of the launcher outside Run.                                      *)

(* A new call keeps the inductive invariant.                               *)
LEMMA DownloadBasePackageStep == IInv /\ DownloadBasePackage => IInv'
<1> SUFFICES ASSUME IInv, DownloadBasePackage PROVE IInv'
  OBVIOUS
<1>1. TypeOK'
  BY SizesOK DEF IInv, DownloadBasePackage, TypeOK, disk, worker
<1>2. Idle'
  BY DEF IInv, DownloadBasePackage, TypeOK, Idle, disk, worker
<1>3. \A i \in Worker : WorkerOK(i)'
  BY DEF IInv, DownloadBasePackage, TypeOK, Idle, WorkerOK, Turn, Placed, Done, disk, worker
<1>4. CountsFit'
  BY DEF IInv, DownloadBasePackage, CountsFit, Fits, disk, worker
<1>5. TempThere'
  BY FilesOK DEF IInv, DownloadBasePackage, TempThere, disk, worker
<1>6. Kept'
  BY DEF IInv, DownloadBasePackage, Kept, Backed, Flushed, Counted, disk, worker
<1>7. Whole' /\ NeverAhead' /\ ArchiveExact'
  BY DEF IInv, DownloadBasePackage, Whole, NeverAhead, ArchiveExact, disk, worker
<1> QED
  BY <1>1, <1>2, <1>3, <1>4, <1>5, <1>6, <1>7 DEF IInv

(* A P2P attempt keeps the inductive invariant.                            *)
LEMMA TryP2PStep == IInv /\ TryP2P => IInv'
<1> SUFFICES ASSUME IInv, TryP2P PROVE IInv'
  OBVIOUS
<1>1. TypeOK'
  BY SizesOK, RemoteIsImage DEF IInv, TryP2P, TypeOK, call, worker
<1>2. Idle'
  BY DEF IInv, TryP2P, TypeOK, Idle, call, worker
<1>3. \A i \in Worker : WorkerOK(i)'
  BY DEF IInv, TryP2P, TypeOK, Idle, WorkerOK, Turn, Placed, Done, call, worker
<1>4. CountsFit'
  BY DEF IInv, TryP2P, CountsFit, Fits, call, worker
<1>5. TempThere'
  BY FilesOK DEF IInv, TryP2P, TempThere, call, worker
<1>6. Kept'
  BY DEF IInv, TryP2P, Kept, Backed, Flushed, Counted, call, worker
<1>7. Whole' /\ NeverAhead' /\ ArchiveExact'
  BY DEF IInv, TryP2P, Whole, NeverAhead, ArchiveExact, call, worker
<1> QED
  BY <1>1, <1>2, <1>3, <1>4, <1>5, <1>6, <1>7 DEF IInv

(* A call that cannot start keeps the inductive invariant.                 *)
LEMMA ResumeFailsStep == IInv /\ ResumeFails => IInv'
<1> SUFFICES ASSUME IInv, ResumeFails PROVE IInv'
  OBVIOUS
<1>1. TypeOK'
  BY SizesOK DEF IInv, ResumeFails, TypeOK, GiveUp, disk, worker
<1>2. Idle'
  BY DEF IInv, ResumeFails, TypeOK, Idle, GiveUp, disk, worker
<1>3. \A i \in Worker : WorkerOK(i)'
  BY DEF IInv, ResumeFails, TypeOK, Idle, WorkerOK, Turn, Placed, Done, GiveUp, disk, worker
<1>4. CountsFit'
  BY DEF IInv, ResumeFails, CountsFit, Fits, GiveUp, disk, worker
<1>5. TempThere'
  BY FilesOK DEF IInv, ResumeFails, TempThere, GiveUp, disk, worker
<1>6. Kept'
  BY DEF IInv, ResumeFails, Kept, Backed, Flushed, Counted, GiveUp, disk, worker
<1>7. Whole' /\ NeverAhead' /\ ArchiveExact'
  BY DEF IInv, ResumeFails, Whole, NeverAhead, ArchiveExact, GiveUp, disk, worker
<1> QED
  BY <1>1, <1>2, <1>3, <1>4, <1>5, <1>6, <1>7 DEF IInv

(* The single-stream fallback keeps the inductive invariant.               *)
LEMMA SingleStreamStep == IInv /\ SingleStream => IInv'
<1> SUFFICES ASSUME IInv, SingleStream PROVE IInv'
  OBVIOUS
<1>1. TypeOK'
  <2>1. TypeOK /\ url' \in 1 .. Mirrors /\ step' \in {"idle", "candidate", "verify"}
    BY SizesOK DEF IInv, SingleStream, TypeOK, GiveUp
  <2>2. archive' \in Image \cup {Absent, Partial}
    BY <2>1, RemoteIsImage DEF SingleStream, TypeOK
  <2>3. tmp' \in Image \cup {Absent} /\ tmpLong' \in BOOLEAN /\ saved' \in SavedState \cup {NoState}
    BY <2>1 DEF SingleStream, TypeOK
  <2> QED
    BY <2>1, <2>2, <2>3 DEF SingleStream, TypeOK, worker
<1>2. Idle'
  BY DEF IInv, SingleStream, TypeOK, Idle, GiveUp, worker
<1>3. \A i \in Worker : WorkerOK(i)'
  BY DEF IInv, SingleStream, TypeOK, Idle, WorkerOK, Turn, Placed, Done, GiveUp, worker
<1>4. CountsFit'
  BY DEF IInv, SingleStream, CountsFit, Fits, GiveUp, worker
<1>5. TempThere'
  BY FilesOK DEF IInv, SingleStream, TempThere, GiveUp, worker
<1>6. Kept'
  BY DEF IInv, SingleStream, Kept, Backed, Flushed, Counted, GiveUp, worker
<1>7. Whole' /\ NeverAhead' /\ ArchiveExact'
  BY DEF IInv, SingleStream, Whole, NeverAhead, ArchiveExact, GiveUp, worker
<1> QED
  BY <1>1, <1>2, <1>3, <1>4, <1>5, <1>6, <1>7 DEF IInv

(* Removing the old archive keeps the inductive invariant.                 *)
LEMMA RemoveArchiveStep == IInv /\ RemoveArchive => IInv'
<1> SUFFICES ASSUME IInv, RemoveArchive PROVE IInv'
  OBVIOUS
<1>1. TypeOK'
  BY SizesOK DEF IInv, RemoveArchive, TypeOK, call, worker
<1>2. Idle'
  BY DEF IInv, RemoveArchive, TypeOK, Idle, call, worker
<1>3. \A i \in Worker : WorkerOK(i)'
  BY DEF IInv, RemoveArchive, TypeOK, Idle, WorkerOK, Turn, Placed, Done, call, worker
<1>4. CountsFit'
  BY DEF IInv, RemoveArchive, CountsFit, Fits, call, worker
<1>5. TempThere'
  BY FilesOK DEF IInv, RemoveArchive, TempThere, call, worker
<1>6. Kept'
  BY DEF IInv, RemoveArchive, Kept, Backed, Flushed, Counted, call, worker
<1>7. Whole' /\ NeverAhead' /\ ArchiveExact'
  BY DEF IInv, RemoveArchive, Whole, NeverAhead, ArchiveExact, call, worker
<1> QED
  BY <1>1, <1>2, <1>3, <1>4, <1>5, <1>6, <1>7 DEF IInv

(* Renaming the temp file keeps the inductive invariant.                   *)
LEMMA RenameTempStep == IInv /\ RenameTemp => IInv'
<1> SUFFICES ASSUME IInv, RenameTemp PROVE IInv'
  OBVIOUS
<1>1. TypeOK'
  <2>1. TypeOK /\ url' \in 1 .. Mirrors /\ step' \in {"idle", "candidate", "verify"}
    BY SizesOK DEF IInv, RenameTemp, TypeOK, GiveUp
  <2>2. archive' \in Image \cup {Absent, Partial}
    BY <2>1 DEF RenameTemp, TypeOK, IInv, TempThere
  <2>3. tmp' \in Image \cup {Absent} /\ tmpLong' \in BOOLEAN
    BY <2>1 DEF RenameTemp, TypeOK
  <2> QED
    BY <2>1, <2>2, <2>3 DEF RenameTemp, TypeOK, worker
<1>2. Idle'
  BY DEF IInv, RenameTemp, TypeOK, Idle, GiveUp, worker
<1>3. \A i \in Worker : WorkerOK(i)'
  BY DEF IInv, RenameTemp, TypeOK, Idle, WorkerOK, Turn, Placed, Done, GiveUp, worker
<1>4. CountsFit'
  BY DEF IInv, RenameTemp, CountsFit, Fits, GiveUp, worker
<1>5. TempThere'
  BY FilesOK DEF IInv, RenameTemp, TempThere, GiveUp, worker
<1>6. Kept'
  BY DEF IInv, RenameTemp, Kept, Backed, Flushed, Counted, GiveUp, worker
<1>7. Whole' /\ NeverAhead' /\ ArchiveExact'
  BY DEF IInv, RenameTemp, Whole, NeverAhead, ArchiveExact, GiveUp, worker
<1> QED
  BY <1>1, <1>2, <1>3, <1>4, <1>5, <1>6, <1>7 DEF IInv

(* The verification keeps the inductive invariant.                         *)
LEMMA VerifyStep == IInv /\ Verify => IInv'
<1> SUFFICES ASSUME IInv, Verify PROVE IInv'
  OBVIOUS
<1>1. TypeOK'
  BY SizesOK DEF IInv, Verify, TypeOK, GiveUp, worker
<1>2. Idle'
  BY DEF IInv, Verify, TypeOK, Idle, GiveUp, worker
<1>3. \A i \in Worker : WorkerOK(i)'
  BY DEF IInv, Verify, TypeOK, Idle, WorkerOK, Turn, Placed, Done, GiveUp, worker
<1>4. CountsFit'
  BY DEF IInv, Verify, CountsFit, Fits, GiveUp, worker
<1>5. TempThere'
  BY FilesOK DEF IInv, Verify, TempThere, GiveUp, worker
<1>6. Kept'
  BY DEF IInv, Verify, Kept, Backed, Flushed, Counted, GiveUp, worker
<1>7. Whole' /\ NeverAhead' /\ ArchiveExact'
  BY DEF IInv, Verify, Whole, NeverAhead, ArchiveExact, GiveUp, worker
<1> QED
  BY <1>1, <1>2, <1>3, <1>4, <1>5, <1>6, <1>7 DEF IInv

(* The extraction keeps the inductive invariant.                           *)
LEMMA ExtractStep == IInv /\ Extract => IInv'
<1> SUFFICES ASSUME IInv, Extract PROVE IInv'
  OBVIOUS
<1>1. TypeOK'
  BY SizesOK DEF IInv, Extract, TypeOK, call, worker
<1>2. Idle'
  BY DEF IInv, Extract, TypeOK, Idle, call, worker
<1>3. \A i \in Worker : WorkerOK(i)'
  BY DEF IInv, Extract, TypeOK, Idle, WorkerOK, Turn, Placed, Done, call, worker
<1>4. CountsFit'
  BY DEF IInv, Extract, CountsFit, Fits, call, worker
<1>5. TempThere'
  BY FilesOK DEF IInv, Extract, TempThere, call, worker
<1>6. Kept'
  BY DEF IInv, Extract, Kept, Backed, Flushed, Counted, call, worker
<1>7. Whole' /\ NeverAhead' /\ ArchiveExact'
  BY DEF IInv, Extract, Whole, NeverAhead, ArchiveExact, call, worker
<1> QED
  BY <1>1, <1>2, <1>3, <1>4, <1>5, <1>6, <1>7 DEF IInv

(* The file a reader finds once the stream is flushed is a file.           *)
LEMMA FlushedIsImage ==
  ASSUME TypeOK, tmp # Absent
  PROVE  Flushed \in Image
<1>1. tmp \in Image /\ buffer \in Buffer
  BY DEF TypeOK
<1>2. ASSUME NEW n \in Pos, n \in DOMAIN buffer PROVE buffer[n] \in Block
  BY <1>1, <1>2 DEF Buffer
<1> QED
  BY <1>1, <1>2 DEF Flushed, Image

(* The empty buffer, and no progress at all, are of their types.           *)
LEMMA Nothings ==
  /\ <<>> \in Buffer /\ DOMAIN <<>> = {} /\ Nothing \in Progress
  /\ Fits(Nothing) /\ Counted(Nothing) = {}
<1>1. <<>> \in [{} -> Block] /\ DOMAIN <<>> = {}
  OBVIOUS
<1>2. <<>> \in Buffer
  BY <1>1 DEF Buffer
<1>3. Nothing \in Progress
  BY SizesOK DEF Nothing, Progress
<1>4. Fits(Nothing)
  BY ChunkBounds DEF Nothing, Fits
<1>5. Counted(Nothing) = {}
  BY ChunkBounds DEF Nothing, Counted, Pos
<1> QED
  BY <1>1, <1>2, <1>3, <1>4, <1>5

(* Kill keeps the inductive invariant.                                     *)
LEMMA KillStep == IInv /\ Kill => IInv'
<1> SUFFICES ASSUME IInv, Kill PROVE IInv'
  OBVIOUS
<1>1. TypeOK'
  <2>1. tmp' \in Image \cup {Absent}
    BY FlushedIsImage DEF IInv, TypeOK, Kill
  <2>2. saved' \in SavedState \cup {NoState} /\ archive' \in Image \cup {Absent, Partial}
    BY DEF IInv, TypeOK, Kill
  <2>3. /\ at' \in [Worker -> {"head", "receive", "save", "out"}]
        /\ cur' \in [Worker -> Nat] /\ tries' \in [Worker -> 0 .. Attempts]
    BY SizesOK DEF Kill, Worker
  <2>4. /\ start' \in [Worker -> Pos] /\ body' \in [Worker -> Nat]
        /\ reply' \in [Worker -> {"206", "200", "error", "lost"}]
    BY SizesOK DEF Kill, Pos
  <2>5. snap' \in [Worker -> Progress] /\ got' \in Progress /\ buffer' \in Buffer
    BY Nothings DEF Kill
  <2>6. step' = "idle" /\ url' \in 1 .. Mirrors
    BY SizesOK DEF Kill
  <2>7. failed' \in BOOLEAN /\ dataDir' \in BOOLEAN /\ tmpLong' \in BOOLEAN /\ spoilt' \in BOOLEAN
    BY ZenonT(20) DEF IInv, TypeOK, Kill
  <2> QED
    BY <2>1, <2>2, <2>3, <2>4, <2>5, <2>6, <2>7 DEF TypeOK
<1>2. Idle'
  BY DEF IInv, Kill, Idle
<1>3. \A i \in Worker : WorkerOK(i)'
  BY SizesOK DEF Kill, WorkerOK, Turn, Worker
<1>4. CountsFit'
  BY Nothings DEF IInv, Kill, CountsFit, Fits
<1>5. TempThere'
  BY DEF Kill, TempThere
<1>6. Kept'
  <2> SUFFICES ASSUME ~spoilt', tmp' # Absent
               PROVE  Backed(got)' /\ (saved' # NoState => Backed(saved.got)')
    BY DEF Kept
  <2>1. tmp # Absent /\ tmp' = Flushed /\ ~spoilt /\ buffer' = <<>> /\ got' = Nothing
    BY DEF Kill
  <2>2. Flushed' = Flushed
    BY <2>1, Nothings, FlushedIsImage DEF Flushed, IInv
  <2>3. saved' # NoState => saved' = saved
    BY DEF Kill
  <2> QED
    BY <2>1, <2>2, <2>3, Nothings DEF IInv, Kept, Backed, Counted
<1>7. Whole' /\ NeverAhead' /\ ArchiveExact'
  BY DEF Kill, Whole, NeverAhead, ArchiveExact
<1> QED
  BY <1>1, <1>2, <1>3, <1>4, <1>5, <1>6, <1>7 DEF IInv

(* Resume keeps the inductive invariant.                                   *)
LEMMA ResumeStep == IInv /\ Resume => IInv'
<1> SUFFICES ASSUME IInv, Resume PROVE IInv'
  OBVIOUS
<1> USE Nothings
<1>1. /\ got' \in Progress /\ Fits(got') /\ buffer = <<>> /\ buffer' = <<>>
      /\ saved' \in SavedState \cup {NoState} /\ (saved' # NoState => Fits(saved'.got))
  BY DEF IInv, TypeOK, Idle, CountsFit, Resume, SaveToJson, SavedState
<1>2. tmp' \in Image /\ tmp' # Absent
  BY FilesOK DEF IInv, TypeOK, Resume, Image, Block
<1>3. TypeOK'
  <2>1. at' \in [Worker -> {"head", "receive", "save", "out"}] /\ cur' \in [Worker -> Nat]
    BY SizesOK DEF Resume, Worker
  <2>2. spoilt' \in BOOLEAN
    BY ZenonT(20) DEF IInv, TypeOK, Resume
  <2>3. tmpLong' \in BOOLEAN
    BY ZenonT(20) DEF IInv, TypeOK, Resume
  <2>4. failed' \in BOOLEAN /\ step' = "run"
    BY DEF Resume
  <2> QED
    BY <1>1, <1>2, <2>1, <2>2, <2>3, <2>4 DEF IInv, TypeOK, Resume
<1>4. Idle' /\ TempThere' /\ Whole' /\ ArchiveExact'
  BY <1>2 DEF Resume, Idle, TempThere, Whole, ArchiveExact
<1>5. \A i \in Worker : WorkerOK(i)'
  <2> SUFFICES ASSUME NEW i \in Worker PROVE WorkerOK(i)'
    OBVIOUS
  <2>1. at'[i] = "head" /\ body'[i] = 0
    BY DEF IInv, Idle, Resume
  <2>2. Turn(i)'
    BY SizesOK DEF Resume, Turn, Worker
  <2> QED
    BY <2>1, <2>2 DEF WorkerOK
<1>6. CountsFit'
  BY <1>1 DEF IInv, Resume, CountsFit, Fits
<1>7. Kept'
  <2> SUFFICES ASSUME ~spoilt'
               PROVE  Backed(got)' /\ (saved' # NoState => Backed(saved.got)')
    BY DEF Kept
  <2>1. CASE tmp = Absent \/ tmpLong
    BY <2>1 DEF Resume, Backed, Counted
  <2>2. CASE ~(tmp = Absent \/ tmpLong)
    <3>1. Flushed' = Flushed /\ ~spoilt
      BY <2>2, <1>1 DEF Resume, Flushed
    <3>2. Backed(got') /\ (saved' # NoState => Backed(saved'.got))
      BY <2>2, <3>1 DEF IInv, Kept, Backed, Resume, SaveToJson
    <3> QED
      BY <3>1, <3>2 DEF Backed, Counted
  <2> QED
    BY <2>1, <2>2
<1>8. NeverAhead'
  <2>1. \A k \in Chunk : got'[k] \in Nat
    BY <1>1, SizesOK DEF Progress
  <2> QED
    BY <2>1 DEF Resume, SaveToJson, NeverAhead
<1> QED
  BY <1>3, <1>4, <1>5, <1>6, <1>7, <1>8 DEF IInv

(* Join keeps the inductive invariant.                                     *)
LEMMA JoinStep == IInv /\ Join => IInv'
<1> SUFFICES ASSUME IInv, Join PROVE IInv'
  OBVIOUS
<1> USE Nothings
<1>1. tmp # Absent /\ tmp' = Flushed /\ Flushed \in Image
  BY FlushedIsImage DEF IInv, TempThere, Join
<1>2. saved' \in SavedState \cup {NoState} /\ (saved' # NoState => Fits(saved'.got))
  BY DEF IInv, TypeOK, CountsFit, Join, SaveToJson, SavedState
<1>3. TypeOK'
  <2>1. url' \in 1 .. Mirrors /\ step' \in {"stream", "replace", "candidate", "idle"}
    BY SizesOK DEF IInv, TypeOK, Join, GiveUp
  <2>2. got' \in Progress /\ buffer' \in Buffer /\ tmp' \in Image
    BY <1>1 DEF Join
  <2>3. failed' \in BOOLEAN
    BY ZenonT(20) DEF Join
  <2> QED
    BY <1>2, <2>1, <2>2, <2>3 DEF IInv, TypeOK, Join, worker
<1>4. Idle' /\ TempThere' /\ NeverAhead' /\ ArchiveExact'
  BY <1>1, FilesOK DEF IInv, Join, GiveUp, Idle, TempThere, NeverAhead, ArchiveExact, WorkerOK, worker
<1>5. \A i \in Worker : WorkerOK(i)'
  BY DEF IInv, Join, WorkerOK, Turn, worker
<1>6. CountsFit'
  BY <1>2 DEF IInv, Join, CountsFit, Fits, worker
<1>7. Flushed' = Flushed
  BY <1>1 DEF Join, Flushed
<1>8. Kept'
  <2> SUFFICES ASSUME ~spoilt'
               PROVE  Backed(got)' /\ (saved' # NoState => Backed(saved.got)')
    BY DEF Kept
  <2>1. Backed(got) /\ (saved # NoState => Backed(saved.got))
    BY <1>1 DEF IInv, Kept, Join
  <2>2. saved' # NoState => Backed(saved'.got)
    BY <2>1 DEF Join, SaveToJson
  <2> QED
    BY <1>7, <2>2 DEF Join, Backed, Counted
<1>9. Whole'
  <2> SUFFICES ASSUME step' = "replace", ~spoilt' PROVE tmp' = Remote
    BY DEF Whole, Join, GiveUp
  <2>1. \A k \in Chunk : got[k] = Length(k)
    BY DEF Join, GiveUp, Done
  <2>2. Counted(got) = Pos
    BY <2>1, Covered DEF Counted
  <2>3. \A n \in Pos : Flushed[n] = n
    BY <1>1, <2>2 DEF IInv, Kept, Backed, Join
  <2> QED
    BY <1>1, <2>3 DEF Remote, Image, Flushed
<1> QED
  BY <1>3, <1>4, <1>5, <1>6, <1>8, <1>9 DEF IInv

-----------------------------------------------------------------------------
(* The steps of the workers.                                               *)

(* A worker that leaves keeps the inductive invariant.                     *)
LEMMA LeaveStep ==
  ASSUME IInv, NEW i \in Worker, step = "run", Leave(i)
  PROVE  IInv'
<1>1. TypeOK'
  <2>1. failed' \in BOOLEAN
    BY ZenonT(20) DEF Leave
  <2>2. at' \in [Worker -> {"head", "receive", "save", "out"}] /\ tries' \in [Worker -> 0 .. Attempts]
    BY SizesOK DEF IInv, TypeOK, Leave
  <2> QED
    BY <2>1, <2>2 DEF IInv, TypeOK, Leave, disk
<1>2. Idle' /\ TempThere' /\ Whole' /\ ArchiveExact'
  BY DEF IInv, Leave, Idle, TempThere, Whole, ArchiveExact, disk
<1>3. \A j \in Worker : WorkerOK(j)'
  BY DEF IInv, TypeOK, Leave, WorkerOK, Turn, Placed, Done
<1>4. CountsFit' /\ NeverAhead'
  BY DEF IInv, Leave, CountsFit, Fits, NeverAhead, disk
<1>5. Kept'
  BY DEF IInv, Leave, Kept, Backed, Flushed, Counted, disk
<1> QED
  BY <1>1, <1>2, <1>3, <1>4, <1>5 DEF IInv

(* Going on to the next chunk keeps the inductive invariant.               *)
LEMMA NextChunkStep ==
  ASSUME IInv, NEW i \in Worker, step = "run", NextChunk(i)
  PROVE  IInv'
<1>1. TypeOK'
  <2>1. cur' \in [Worker -> Nat] /\ tries' \in [Worker -> 0 .. Attempts]
    BY SizesOK DEF IInv, TypeOK, NextChunk
  <2> QED
    BY <2>1 DEF IInv, TypeOK, NextChunk, call, disk
<1>2. Idle' /\ TempThere' /\ Whole' /\ ArchiveExact'
  BY DEF IInv, NextChunk, Idle, TempThere, Whole, ArchiveExact, disk
<1>3. \A j \in Worker : WorkerOK(j)'
  <2> SUFFICES ASSUME NEW j \in Worker PROVE WorkerOK(j)'
    OBVIOUS
  <2>1. CASE j # i
    BY <2>1 DEF IInv, TypeOK, NextChunk, WorkerOK, Turn, Placed, Done, call
  <2>2. CASE j = i
    <3>1. PICK m \in 0 .. cur[i] : cur[i] = i + m * Threads
      BY DEF IInv, WorkerOK, Turn
    <3>2. m \in Nat /\ Threads \in Nat \ {0} /\ i \in Nat /\ cur[i] \in Nat /\ m <= cur[i]
      BY SizesOK DEF IInv, TypeOK, Worker
    <3>3. cur'[i] = i + (m + 1) * Threads
      BY <3>1, <3>2 DEF NextChunk, IInv, TypeOK
    <3>4. m + 1 \in 0 .. cur'[i]
      BY <3>2 DEF NextChunk, IInv, TypeOK
    <3>5. Turn(i)'
      BY <3>3, <3>4 DEF Turn
    <3> QED
      BY <2>2, <3>5 DEF IInv, TypeOK, NextChunk, WorkerOK
  <2> QED
    BY <2>1, <2>2
<1>4. CountsFit' /\ NeverAhead'
  BY DEF IInv, NextChunk, CountsFit, Fits, NeverAhead, call, disk
<1>5. Kept'
  BY DEF IInv, NextChunk, Kept, Backed, Flushed, Counted, call, disk
<1> QED
  BY <1>1, <1>2, <1>3, <1>4, <1>5 DEF IInv

(* Sending a request keeps the inductive invariant.                        *)
LEMMA RequestStep ==
  ASSUME IInv, NEW i \in Worker, step = "run", Request(i)
  PROVE  IInv'
<1> DEFINE c == cur[i]
<1>1. /\ c \in Chunk /\ got[c] \in Nat /\ got[c] < Length(c) /\ Length(c) \in Nat
      /\ First(c) \in Nat /\ First(c) + Length(c) <= FileSize /\ FileSize \in Nat
  <2>1. c \in Chunk /\ got[c] # Length(c)
    BY DEF Request, Done
  <2>2. got[c] \in Nat /\ got[c] <= Length(c)
    BY <2>1, SizesOK DEF IInv, TypeOK, CountsFit, Fits, Progress
  <2>3. Length(c) \in Nat
    BY <2>1, ChunkBounds
  <2> QED
    BY <2>1, <2>2, <2>3, ChunkBounds, SizesOK
<1>2. First(c) + got[c] \in Pos
  BY <1>1 DEF Pos
<1>3. TypeOK'
  <2>1. start' \in [Worker -> Pos]
    BY <1>2 DEF IInv, TypeOK, Request
  <2>2. at' \in [Worker -> {"head", "receive", "save", "out"}]
    BY DEF IInv, TypeOK, Request
  <2>3. reply' \in [Worker -> {"206", "200", "error", "lost"}]
    BY ValuesOK DEF IInv, TypeOK, Request
  <2> QED
    BY <2>1, <2>2, <2>3 DEF IInv, TypeOK, Request, call, disk
<1>4. Idle' /\ TempThere' /\ Whole' /\ ArchiveExact'
  BY DEF IInv, Request, Idle, TempThere, Whole, ArchiveExact, disk
<1>5. \A j \in Worker : WorkerOK(j)'
  <2> SUFFICES ASSUME NEW j \in Worker PROVE WorkerOK(j)'
    OBVIOUS
  <2>1. CASE j # i
    BY <2>1 DEF IInv, TypeOK, Request, WorkerOK, Turn, Placed, Done, call
  <2>2. CASE j = i
    <3>1. body[i] = 0 /\ start'[i] = First(c) + got[c] /\ at'[i] = "receive" /\ tries[i] < Attempts
      BY DEF IInv, TypeOK, WorkerOK, Request
    <3>2. Placed(i)'
      BY <1>1, <3>1 DEF Placed, Done, Request, call
    <3>3. Turn(i)'
      BY DEF Turn, IInv, WorkerOK, Request
    <3> QED
      BY <1>1, <2>2, <3>1, <3>2, <3>3 DEF Request, WorkerOK
  <2> QED
    BY <2>1, <2>2
<1>6. CountsFit' /\ NeverAhead'
  BY DEF IInv, Request, CountsFit, Fits, NeverAhead, call, disk
<1>7. Kept'
  BY DEF IInv, Request, Kept, Backed, Flushed, Counted, call, disk
<1> QED
  BY <1>3, <1>4, <1>5, <1>6, <1>7 DEF IInv

(* The end of a response keeps the inductive invariant.                    *)
LEMMA EndReplyStep ==
  ASSUME IInv, NEW i \in Worker, step = "run", EndReply(i)
  PROVE  IInv'
<1>1. TypeOK'
  <2>1. at' \in [Worker -> {"head", "receive", "save", "out"}] /\ snap' \in [Worker -> Progress]
    BY DEF IInv, TypeOK, EndReply
  <2>2. reply' \in [Worker -> {"206", "200", "error", "lost"}]
    BY DEF IInv, TypeOK, EndReply
  <2> QED
    BY <2>1, <2>2 DEF IInv, TypeOK, EndReply, call, disk
<1>2. Idle' /\ TempThere' /\ Whole' /\ ArchiveExact'
  BY DEF IInv, EndReply, Idle, TempThere, Whole, ArchiveExact, disk
<1>3. \A j \in Worker : WorkerOK(j)'
  <2> SUFFICES ASSUME NEW j \in Worker PROVE WorkerOK(j)'
    OBVIOUS
  <2>1. CASE j # i
    BY <2>1 DEF IInv, TypeOK, EndReply, WorkerOK, Turn, Placed, Done, call
  <2>2. CASE j = i
    <3>1. at'[i] = "save" /\ snap'[i] = got /\ got' = got
      BY DEF IInv, TypeOK, EndReply, call
    <3>2. \A k \in Chunk : snap'[i][k] <= got'[k]
      BY <3>1, SizesOK DEF IInv, TypeOK, Progress
    <3> QED
      BY <2>2, <3>1, <3>2 DEF IInv, EndReply, WorkerOK, Turn
  <2> QED
    BY <2>1, <2>2
<1>4. CountsFit'
  BY DEF IInv, TypeOK, EndReply, CountsFit, Fits, call, disk
<1>5. NeverAhead'
  BY DEF IInv, EndReply, NeverAhead, call, disk
<1>6. Kept'
  BY DEF IInv, EndReply, Kept, Backed, Flushed, Counted, call, disk
<1> QED
  BY <1>1, <1>2, <1>3, <1>4, <1>5, <1>6 DEF IInv

(* Receiving a block keeps the inductive invariant: the position that is    *)
(* counted now is the one just written, and nobody else counts for it.     *)
LEMMA ReceiveStep ==
  ASSUME IInv, NEW i \in Worker, step = "run", Receive(i)
  PROVE  IInv'
<1> DEFINE c == cur[i]
           n == start[i] + body[i]
<1>1. /\ c \in Chunk /\ got[c] \in Nat /\ got[c] <= Length(c) /\ Length(c) \in Nat
      /\ Length(c) <= ChunkSize /\ ChunkSize \in Nat /\ First(c) \in Nat /\ n \in Nat
  <2>1. c \in Chunk /\ start[i] \in Nat /\ body[i] \in Nat
    BY DEF Receive, IInv, WorkerOK, TypeOK, Pos
  <2>2. got[c] \in Nat /\ got[c] <= Length(c)
    BY <2>1, SizesOK DEF IInv, TypeOK, CountsFit, Fits, Progress
  <2> QED
    BY <2>1, <2>2, ChunkBounds, SizesOK
<1>2. /\ got' \in Progress /\ Fits(got')
      /\ got'[c] = (IF Done(c) THEN got[c] ELSE got[c] + 1)
      /\ \A k \in Chunk \ {c} : got'[k] = got[k]
  <2>1. got \in [Chunk -> 0 .. ChunkSize] /\ Fits(got)
    BY DEF IInv, TypeOK, CountsFit, Progress
  <2>2. got' = [got EXCEPT ![c] = IF Done(c) THEN got[c] ELSE got[c] + 1]
    BY DEF Receive
  <2>3. (IF Done(c) THEN got[c] ELSE got[c] + 1) \in 0 .. Length(c)
    BY <1>1 DEF Done
  <2> QED
    BY <1>1, <2>1, <2>2, <2>3 DEF Fits, Progress
<1>3. tmp # Absent /\ tmp' = Flushed /\ Flushed \in Image
  BY FlushedIsImage DEF IInv, TempThere, Receive
<1>4. /\ buffer' = [m \in {n} \cap Pos |-> Arriving(i)] /\ Arriving(i) \in Block
      /\ (~spoilt' => ~spoilt /\ Arriving(i) = n)
  <2>1. body[i] \in Nat /\ (reply[i] = "200" => body[i] < FileSize)
    BY DEF IInv, TypeOK, Receive, More
  <2>2. reply[i] = "206" => n < First(c) + Length(c)
    BY DEF Receive, More
  <2>3. reply[i] = "206" => n \in Pos
    BY <1>1, <2>2, ChunkBounds, SizesOK DEF Pos
  <2>4. Arriving(i) \in Block
    BY <2>1, <2>3, SizesOK DEF Arriving, Block, Pos
  <2> QED
    BY <2>4 DEF Receive
<1>5. buffer' \in Buffer
  <2>1. CASE n \in Pos
    <3>1. {n} \cap Pos = {n} /\ buffer' \in [{n} -> Block]
      BY <1>4, <2>1
    <3> QED
      BY <2>1, <3>1 DEF Buffer
  <2>2. CASE n \notin Pos
    <3>1. {n} \cap Pos = {} /\ buffer' \in [{} -> Block]
      BY <1>4, <2>2
    <3> QED
      BY <3>1 DEF Buffer
  <2> QED
    BY <2>1, <2>2
<1>6. TypeOK'
  <2>1. tmpLong' \in BOOLEAN
    BY ZenonT(20) DEF Receive
  <2>2. spoilt' \in BOOLEAN
    BY ZenonT(20) DEF Receive
  <2>3. body' \in [Worker -> Nat]
    BY DEF IInv, TypeOK, Receive
  <2> QED
    BY <1>2, <1>3, <1>5, <2>1, <2>2, <2>3 DEF IInv, TypeOK, Receive
<1>7. Idle' /\ TempThere' /\ Whole' /\ ArchiveExact'
  BY <1>3, FilesOK DEF IInv, Receive, Idle, TempThere, Whole, ArchiveExact
<1>8. \A j \in Worker : WorkerOK(j)'
  <2> SUFFICES ASSUME NEW j \in Worker PROVE WorkerOK(j)'
    OBVIOUS
  <2>1. \A k \in Chunk : got[k] <= got'[k]
    BY <1>1, <1>2, SizesOK DEF IInv, TypeOK, Progress
  <2>2. CASE j # i
    <3>1. cur[j] # c
      BY <2>2, Turns DEF IInv, WorkerOK, TypeOK
    <3>2. cur[j] \in Chunk => got'[cur[j]] = got[cur[j]]
      BY <1>2, <3>1
    <3>3. at[j] = "receive" => Placed(j)'
      BY <2>2, <3>2 DEF IInv, TypeOK, WorkerOK, Placed, Done, Receive
    <3>4. at[j] = "save" => \A k \in Chunk : snap'[j][k] <= got'[k]
      <4> SUFFICES ASSUME at[j] = "save", NEW k \in Chunk PROVE snap'[j][k] <= got'[k]
        OBVIOUS
      <4>1. snap[j][k] <= got[k] /\ snap' = snap
        BY DEF IInv, WorkerOK, Receive
      <4>2. snap[j][k] \in Nat /\ got[k] \in Nat /\ got'[k] \in Nat
        BY <1>2, SizesOK DEF IInv, TypeOK, Progress
      <4> QED
        BY <2>1, <4>1, <4>2
    <3> QED
      BY <2>2, <3>3, <3>4 DEF IInv, TypeOK, WorkerOK, Turn, Receive
  <2>3. CASE j = i
    <3>1. body'[i] = body[i] + 1 /\ body[i] \in Nat /\ start[i] \in Nat /\ start' = start /\ cur' = cur
      BY DEF IInv, TypeOK, Receive, Pos
    <3>2. Placed(i)
      BY DEF IInv, WorkerOK, Receive
    <3>3. Placed(i)'
      <4>1. CASE Done(c)
        BY <1>1, <1>2, <3>1, <3>2, <4>1 DEF Placed, Done
      <4>2. CASE ~Done(c)
        BY <1>1, <1>2, <3>1, <3>2, <4>2 DEF Placed, Done
      <4> QED
        BY <4>1, <4>2
    <3> QED
      BY <2>3, <3>3 DEF IInv, WorkerOK, Turn, Receive
  <2> QED
    BY <2>2, <2>3
<1>9. CountsFit'
  BY <1>2 DEF IInv, CountsFit, Fits, Receive
<1>10. NeverAhead'
  <2> SUFFICES ASSUME saved # NoState, saved.url = url, NEW k \in Chunk
               PROVE  saved.got[k] <= got'[k]
    BY DEF NeverAhead, Receive
  <2>1. saved.got[k] <= got[k]
    BY DEF IInv, NeverAhead
  <2>2. saved.got[k] \in Nat /\ got[k] \in Nat
    BY SizesOK DEF IInv, TypeOK, SavedState, Progress
  <2>3. got'[k] \in Nat /\ got[k] <= got'[k]
    <3>1. got'[k] = got[k] \/ got'[k] = got[k] + 1
      BY <1>2
    <3> QED
      BY <2>2, <3>1
  <2> QED
    BY <2>1, <2>2, <2>3
<1>11. Kept'
  <2> SUFFICES ASSUME ~spoilt'
               PROVE  Backed(got)' /\ (saved' # NoState => Backed(saved.got)')
    BY DEF Kept
  <2>1. ~spoilt /\ Backed(got) /\ (saved # NoState => Backed(saved.got))
    BY <1>3, <1>4 DEF IInv, Kept
  <2>2. \A p \in Pos : Flushed'[p] = IF p = n THEN n ELSE Flushed[p]
    BY <1>3, <1>4 DEF Flushed, Image
  <2>3. saved' # NoState => Backed(saved.got)'
    BY <2>1, <2>2 DEF Backed, Counted, Receive
  <2>4. ASSUME NEW p \in Counted(got'), p # n PROVE p \in Counted(got)
    <3>1. PICK k \in Chunk : First(k) <= p /\ p < First(k) + got'[k]
      BY DEF Counted
    <3>2. CASE k # c
      BY <1>2, <3>1, <3>2 DEF Counted
    <3>3. CASE k = c
      <4>1. Placed(i) /\ p \in Nat
        BY SizesOK DEF IInv, WorkerOK, Receive, Counted, Pos
      <4>2. p < First(c) + got[c]
        BY <1>1, <1>2, <2>4, <3>1, <3>3, <4>1 DEF Placed, Done
      <4> QED
        BY <1>1, <3>1, <3>3, <4>2 DEF Counted
    <3> QED
      BY <3>2, <3>3
  <2>5. \A p \in Counted(got') : p \in Pos /\ Flushed'[p] = p
    BY <2>1, <2>2, <2>4 DEF Backed, Counted
  <2> QED
    BY <2>3, <2>5 DEF Backed, Counted
<1> QED
  BY <1>6, <1>7, <1>8, <1>9, <1>10, <1>11 DEF IInv

(* Saving the snapshot keeps the inductive invariant: it is never ahead of  *)
(* the state, however old it is.                                           *)
LEMMA SaveStep ==
  ASSUME IInv, NEW i \in Worker, step = "run", Save(i)
  PROVE  IInv'
<1>1. /\ snap[i] \in Progress /\ Fits(snap[i]) /\ got \in Progress
      /\ \A k \in Chunk : snap[i][k] <= got[k]
  BY DEF IInv, TypeOK, CountsFit, WorkerOK, Save
<1>2. /\ saved' \in SavedState \cup {NoState}
      /\ saved' # NoState => saved' = saved \/ saved' = [url |-> url, got |-> snap[i]]
  BY <1>1 DEF IInv, TypeOK, Save, SaveToJson, SavedState
<1>3. TypeOK'
  <2>1. failed' \in BOOLEAN
    BY ZenonT(20) DEF IInv, TypeOK, Save
  <2>2. at' \in [Worker -> {"head", "receive", "save", "out"}]
    BY DEF IInv, TypeOK, Save
  <2>3. tries' \in [Worker -> 0 .. Attempts]
    BY SizesOK DEF IInv, TypeOK, Save, WorkerOK
  <2>4. start' \in [Worker -> Pos] /\ body' \in [Worker -> Nat]
    BY SizesOK DEF IInv, TypeOK, Save, Pos
  <2>5. reply' \in [Worker -> {"206", "200", "error", "lost"}] /\ snap' \in [Worker -> Progress]
    BY Nothings DEF IInv, TypeOK, Save
  <2> QED
    BY <1>2, <2>1, <2>2, <2>3, <2>4, <2>5 DEF IInv, TypeOK, Save
<1>4. Idle' /\ TempThere' /\ Whole' /\ ArchiveExact'
  BY DEF IInv, Save, Idle, TempThere, Whole, ArchiveExact
<1>5. \A j \in Worker : WorkerOK(j)'
  <2> SUFFICES ASSUME NEW j \in Worker PROVE WorkerOK(j)'
    OBVIOUS
  <2>1. CASE j # i
    BY <2>1 DEF IInv, TypeOK, Save, WorkerOK, Turn, Placed, Done
  <2>2. CASE j = i
    BY <2>2 DEF IInv, TypeOK, Save, WorkerOK, Turn
  <2> QED
    BY <2>1, <2>2
<1>6. CountsFit'
  <2>1. saved' # NoState => Fits(saved'.got)
    BY <1>1, <1>2 DEF IInv, CountsFit
  <2>2. \A j \in Worker : Fits(snap'[j])
    BY Nothings DEF IInv, TypeOK, CountsFit, Save
  <2> QED
    BY <2>1, <2>2 DEF IInv, CountsFit, Fits, Save
<1>7. NeverAhead'
  BY <1>1, <1>2 DEF IInv, NeverAhead, Save
<1>8. Kept'
  <2> SUFFICES ASSUME ~spoilt', tmp' # Absent
               PROVE  Backed(got)' /\ (saved' # NoState => Backed(saved.got)')
    BY DEF Kept
  <2>1. Backed(got) /\ (saved # NoState => Backed(saved.got)) /\ Flushed' = Flushed /\ got' = got
    BY DEF IInv, Kept, Save, Flushed
  <2>2. Counted(snap[i]) \subseteq Counted(got)
    <3> SUFFICES ASSUME NEW p \in Counted(snap[i]) PROVE p \in Counted(got)
      OBVIOUS
    <3>1. PICK k \in Chunk : First(k) <= p /\ p < First(k) + snap[i][k]
      BY DEF Counted
    <3>2. snap[i][k] \in Nat /\ got[k] \in Nat /\ First(k) \in Nat /\ p \in Nat /\ p \in Pos
      BY <1>1, ChunkBounds, SizesOK DEF Counted, Pos, Progress
    <3>3. p < First(k) + got[k]
      BY <1>1, <3>1, <3>2
    <3> QED
      BY <3>1, <3>2, <3>3 DEF Counted
  <2>3. saved' # NoState => Backed(saved'.got)
    BY <1>2, <2>1, <2>2 DEF Backed
  <2> QED
    BY <2>1, <2>3 DEF Backed, Counted
<1> QED
  BY <1>3, <1>4, <1>5, <1>6, <1>7, <1>8 DEF IInv

-----------------------------------------------------------------------------
(* The theorems.                                                           *)

(* The invariant holds initially.                                          *)
LEMMA InitIInv == Init => IInv
<1> SUFFICES ASSUME Init PROVE IInv
  OBVIOUS
<1> USE Nothings
<1>1. TypeOK
  <2>1. /\ at \in [Worker -> {"head", "receive", "save", "out"}]
        /\ cur \in [Worker -> Nat] /\ tries \in [Worker -> 0 .. Attempts]
    BY SizesOK DEF Init, Worker
  <2>2. /\ start \in [Worker -> Pos] /\ body \in [Worker -> Nat] /\ snap \in [Worker -> Progress]
        /\ reply \in [Worker -> {"206", "200", "error", "lost"}]
    BY SizesOK DEF Init, Pos
  <2>3. dataDir \in BOOLEAN /\ tmpLong \in BOOLEAN /\ failed \in BOOLEAN /\ spoilt \in BOOLEAN
    BY ZenonT(20) DEF Init
  <2> QED
    BY <2>1, <2>2, <2>3, SizesOK DEF Init, TypeOK
<1>2. \A i \in Worker : WorkerOK(i)
  BY SizesOK DEF Init, WorkerOK, Turn, Worker
<1>3. CountsFit
  BY DEF Init, CountsFit
<1> QED
  BY <1>1, <1>2, <1>3 DEF Init, IInv, Idle, TempThere, Kept, Whole, NeverAhead, ArchiveExact

(* Every step keeps the invariant.                                         *)
LEMMA NextIInv == IInv /\ [Next]_vars => IInv'
<1>1. ASSUME IInv, NEW i \in Worker, WorkerStep(i) PROVE IInv'
  BY <1>1, LeaveStep, NextChunkStep, RequestStep, ReceiveStep, EndReplyStep, SaveStep DEF WorkerStep
<1>2. ASSUME IInv, CallStep PROVE IInv'
  BY <1>2, TryP2PStep, ResumeStep, ResumeFailsStep, JoinStep, SingleStreamStep,
     RemoveArchiveStep, RenameTempStep, VerifyStep, ExtractStep DEF CallStep
<1>3. ASSUME IInv, UNCHANGED vars PROVE IInv'
  BY <1>3 DEF IInv, vars, call, disk, worker, TypeOK, Idle, WorkerOK, Turn, Placed, Done, CountsFit,
     Fits, TempThere, Kept, Backed, Flushed, Counted, Whole, NeverAhead, ArchiveExact
<1> QED
  BY <1>1, <1>2, <1>3, DownloadBasePackageStep, KillStep DEF Next

(* The inductive invariant, with which the theorems below are proved.      *)
THEOREM Invariant == Spec => []IInv
BY InitIInv, NextIInv, PTL DEF Spec

(* Every variable keeps its type.                                          *)
THEOREM TypeCorrect == Spec => []TypeOK
<1>1. IInv => TypeOK
  BY DEF IInv
<1> QED
  BY Invariant, <1>1, PTL

(* What a running call counts is in the temp file at its place, for every   *)
(* interleaving of the workers and every way their responses end.          *)
THEOREM CountsAreBacked == Spec => []Accounted
<1>1. IInv => Accounted
  BY DEF IInv, Kept, Backed, TempThere, Accounted
<1> QED
  BY Invariant, <1>1, PTL

(* What the next launch resumes from is in the temp file it resumes into.  *)
THEOREM ResumesFromFacts == Spec => []ResumeSafe
<1>1. IInv => ResumeSafe
  <2> SUFFICES ASSUME IInv, step = "idle", saved # NoState, tmp # Absent, ~spoilt,
                      NEW n \in Counted(saved.got)
               PROVE  tmp[n] = n
    BY DEF ResumeSafe
  <2>1. Flushed[n] = n /\ n \in Pos /\ DOMAIN buffer = {}
    BY Nothings DEF IInv, Kept, Backed, Idle, Counted
  <2> QED
    BY <2>1 DEF Flushed
<1> QED
  BY Invariant, <1>1, PTL

(* The progress file never claims more than the running call counted.      *)
THEOREM SnapshotsLag == Spec => []NeverAhead
<1>1. IInv => NeverAhead
  BY DEF IInv
<1> QED
  BY Invariant, <1>1, PTL

(* An archive is handed to the verification only as the mirror has it.     *)
THEOREM ArchivesExact == Spec => []ArchiveExact
<1>1. IInv => ArchiveExact
  BY DEF IInv
<1> QED
  BY Invariant, <1>1, PTL

-----------------------------------------------------------------------------
(* The way of a call to its end.                                           *)

(* The steps of one worker leave the others where they are.                *)
LEMMA OthersStand ==
  ASSUME IInv, NEW i \in Worker, WorkerStep(i), NEW j \in Worker, j # i
  PROVE  Stands(j)
<1>a. TypeOK /\ WorkerOK(i) /\ WorkerOK(j)
  BY DEF IInv
<1>1. CASE Receive(i)
  <2>1. cur[i] # cur[j]
    BY <1>a, Turns DEF WorkerOK, TypeOK
  <2>2. UNCHANGED <<at, cur, tries>> /\ body'[j] = body[j]
    BY <1>a, <1>1 DEF Receive, TypeOK
  <2>3. cur[j] \in Chunk => got'[cur[j]] = got[cur[j]]
    BY <1>a, <1>1, <2>1 DEF Receive, TypeOK, Progress
  <2> QED
    BY <2>2, <2>3 DEF Stands
<1>2. CASE Leave(i) \/ NextChunk(i) \/ Request(i) \/ EndReply(i)
  BY <1>a, <1>2 DEF Leave, NextChunk, Request, EndReply, TypeOK, Stands, call
<1>3. CASE Save(i)
  BY <1>a, <1>3 DEF Save, TypeOK, Stands
<1> QED
  BY <1>1, <1>2, <1>3 DEF WorkerStep

(* A response that brought no block is for a chunk that still lacks some.  *)
LEMMA BegunStep ==
  ASSUME IInv, \A i \in Worker : Begun(i), [Next]_vars, NEW j \in Worker
  PROVE  Begun(j)'
<1>a. TypeOK /\ WorkerOK(j)
  BY DEF IInv
<1>1. ASSUME NEW i \in Worker, WorkerStep(i) PROVE Begun(j)'
  <2>1. CASE j # i
    BY <1>1, <1>a, <2>1, OthersStand DEF Stands, Begun, Done, WorkerOK
  <2>2. CASE j = i /\ Request(i)
    BY <1>a, <2>2 DEF Request, Begun, Done, TypeOK, call
  <2>3. CASE j = i /\ (Leave(i) \/ NextChunk(i) \/ Save(i))
    BY <1>a, <2>3 DEF Leave, NextChunk, Save, Begun, TypeOK
  <2>4. CASE j = i /\ Receive(i)
    BY <1>a, <2>4 DEF Receive, Begun, TypeOK
  <2>5. CASE j = i /\ EndReply(i)
    BY <1>a, <2>5 DEF EndReply, Begun, Done, TypeOK, call
  <2> QED
    BY <1>1, <2>1, <2>2, <2>3, <2>4, <2>5 DEF WorkerStep
<1>2. CASE DownloadBasePackage \/ CallStep \/ Kill
  <2>1. CASE Join
    BY <2>1 DEF Join, Begun, worker
  <2>2. CASE Kill
    BY <2>2 DEF Kill, Begun
  <2>3. CASE Resume
    BY <2>3 DEF Resume, Begun
  <2>4. CASE /\ UNCHANGED <<at, cur, got, body>>
    BY <2>4 DEF Begun, Done
  <2>5. DownloadBasePackage \/ TryP2P \/ ResumeFails \/ SingleStream \/ RemoveArchive
          \/ RenameTemp \/ Verify \/ Extract => UNCHANGED <<at, cur, got, body>>
    BY DEF DownloadBasePackage, TryP2P, ResumeFails, SingleStream, RemoveArchive,
           RenameTemp, Verify, Extract, call, worker
  <2> QED
    BY <1>2, <2>1, <2>2, <2>3, <2>4, <2>5 DEF CallStep
<1>3. CASE UNCHANGED vars
  BY <1>3 DEF vars, call, worker, Begun, Done
<1> QED
  BY <1>1, <1>2, <1>3 DEF Next

(* Each step of a worker brings it closer to its end.                      *)
LEMMA WorkerAdvances ==
  ASSUME IInv, NEW i \in Worker, Begun(i), WorkerStep(i)
  PROVE  Advances(i)
<1> DEFINE c == cur[i]
<1>a. TypeOK /\ WorkerOK(i) /\ Threads \in Nat \ {0} /\ c \in Nat
  BY SizesOK DEF IInv, TypeOK
<1>b. c \in Chunk => /\ got[c] \in Nat /\ got[c] <= Length(c) /\ Length(c) \in Nat
                     /\ First(c) \in Nat /\ First(c) + Length(c) <= FileSize
  <2> SUFFICES ASSUME c \in Chunk
               PROVE  got[c] \in Nat /\ got[c] <= Length(c)
    BY ChunkBounds
  <2> QED
    BY SizesOK DEF IInv, TypeOK, CountsFit, Fits, Progress
<1>1. CASE Leave(i)
  BY <1>1, <1>a DEF Leave, Advances, TypeOK
<1>2. CASE NextChunk(i)
  <2>1. c \in Chunk /\ cur'[i] = c + Threads
    BY <1>2, <1>a DEF NextChunk, TypeOK
  <2> QED
    BY <1>a, <2>1 DEF Advances
<1>3. CASE Request(i)
  <2>1. c \in Chunk /\ UNCHANGED <<cur, tries, body, got>> /\ at[i] = "head" /\ at'[i] = "receive"
    BY <1>3, <1>a DEF Request, TypeOK, call
  <2>2. Due(i)' = Due(i) /\ Stage(at'[i]) < Stage(at[i])
    BY <2>1 DEF Due, Stage
  <2> QED
    BY <2>1, <2>2 DEF Advances
<1>4. CASE EndReply(i)
  <2>1. /\ c \in Chunk /\ UNCHANGED <<cur, tries, body, got>>
        /\ at[i] = "receive" /\ at'[i] = "save"
    BY <1>4, <1>a DEF EndReply, WorkerOK, TypeOK, call
  <2>2. Due(i)' = Due(i) /\ Stage(at'[i]) < Stage(at[i])
    BY <2>1 DEF Due, Stage
  <2> QED
    BY <2>1, <2>2 DEF Advances
<1>5. CASE Receive(i)
  <2>1. /\ c \in Chunk /\ UNCHANGED <<at, cur, tries>>
        /\ body[i] \in Nat /\ body'[i] = body[i] + 1 /\ start[i] \in Nat
    BY <1>5, <1>a DEF Receive, WorkerOK, TypeOK, Pos
  <2>2. got'[c] = IF got[c] = Length(c) THEN got[c] ELSE got[c] + 1
    BY <1>5, <1>a, <2>1 DEF Receive, Done, TypeOK, Progress
  <2>3. body'[i] <= FileSize
    BY <1>5, <1>b, <2>1, SizesOK DEF Receive, More
  <2>4. body[i] = 0 => got[c] # Length(c)
    BY <1>5 DEF Receive, Begun, Done
  <2>5. Due(i) = Length(c) - got[c] + IF body[i] > 0 THEN 1 ELSE 0
    BY DEF Due
  <2>6. Due(i)' = Length(c) - got'[c] + 1
    BY <2>1 DEF Due
  <2>7. Due(i)' <= Due(i) /\ Due(i) \in Nat /\ Due(i)' \in Nat
    BY <1>b, <2>1, <2>2, <2>4, <2>5, <2>6
  <2>8. at'[i] = at[i] /\ body'[i] > body[i] /\ cur'[i] = cur[i] /\ tries'[i] = tries[i]
    BY <2>1
  <2> QED
    BY <2>1, <2>3, <2>7, <2>8 DEF Advances
<1>6. CASE Save(i)
  <2>1. /\ c \in Chunk /\ UNCHANGED <<cur, got>> /\ at[i] = "save" /\ body[i] \in Nat
        /\ body'[i] = 0
    BY <1>6, <1>a DEF Save, WorkerOK, TypeOK
  <2>2. \/ at'[i] = "out"
        \/ tries'[i] = tries[i] + 1
        \/ tries'[i] = tries[i] /\ ~(got[c] # Length(c) /\ body[i] = 0)
    BY <1>6, <1>a DEF Save, TypeOK, Done
  <2>3. body[i] = 0 => got[c] # Length(c)
    BY <2>1 DEF Begun, Done
  <2>4. body[i] > 0 => Due(i)' < Due(i)
    <3>1. Due(i)' = Length(c) - got[c] + 0
      BY <2>1 DEF Due
    <3> QED
      BY <1>b, <2>1, <3>1 DEF Due
  <2>5. tries[i] \in Nat
    BY <1>a, SizesOK DEF TypeOK
  <2> QED
    BY <1>a, <2>1, <2>2, <2>3, <2>4, <2>5 DEF Advances
<1> QED
  BY <1>1, <1>2, <1>3, <1>4, <1>5, <1>6 DEF WorkerStep

(* Each step of a call brings it closer to its end.                        *)
LEMMA StepAdvances ==
  ASSUME IInv, \A i \in Worker : Begun(i), [Next]_vars, step # "idle"
  PROVE  \/ step' = "idle"
         \/ url < Mirrors /\ url' = url + 1
         \/ url' = url /\ step' \in Later[step]
         \/ /\ step = "run" /\ UNCHANGED <<step, url>>
            /\ \E i \in Worker : Advances(i) /\ \A j \in Worker \ {i} : Stands(j)
         \/ UNCHANGED vars
<1>1. ASSUME NEW i \in Worker, WorkerStep(i)
      PROVE  /\ step = "run" /\ UNCHANGED <<step, url>>
             /\ Advances(i) /\ \A j \in Worker \ {i} : Stands(j)
  <2>1. step = "run" /\ UNCHANGED <<step, url>>
    BY <1>1 DEF WorkerStep, Leave, NextChunk, Request, Receive, EndReply, Save, call
  <2> QED
    BY <1>1, <2>1, WorkerAdvances, OthersStand
<1>2. CASE CallStep
  <2>1. GiveUp => step' = "idle" \/ (url < Mirrors /\ url' = url + 1)
    BY DEF GiveUp
  <2>2. CASE TryP2P
    BY <2>2 DEF TryP2P, Later, call
  <2>3. CASE Resume
    BY <2>3 DEF Resume, Later
  <2>4. CASE ResumeFails \/ SingleStream \/ RenameTemp \/ Verify
    BY <2>1, <2>4 DEF ResumeFails, SingleStream, RenameTemp, Verify, Later
  <2>5. CASE Join
    <3>1. step = "run" /\ (GiveUp \/ (url' = url /\ step' \in {"stream", "replace"}))
      BY <2>5, ZenonT(20) DEF Join
    <3> QED
      BY <2>1, <3>1 DEF Later
  <2>6. CASE RemoveArchive
    BY <2>6 DEF RemoveArchive, Later, call
  <2>7. CASE Extract
    BY <2>7, Zenon DEF Extract
  <2> QED
    BY <1>2, <2>2, <2>3, <2>4, <2>5, <2>6, <2>7 DEF CallStep
<1>3. CASE DownloadBasePackage \/ Kill
  BY <1>3 DEF DownloadBasePackage, Kill
<1> QED
  BY <1>1, <1>2, <1>3 DEF Next

(* A download never goes round in circles: every step ends it, moves it to  *)
(* a later mirror, to a later step of this one, or brings a worker closer  *)
(* to its end on its own chunks without setting another back.  Chunks,     *)
(* attempts, missing blocks and the blocks of a response are bounded, so   *)
(* no sequence of answers keeps the executor running                       *)
(* (ChunkExecutor.cpp:76-195, LauncherUpdateCoordinator.cpp:453-530).      *)
THEOREM CallsRunOut == Spec => CallAdvances
<1>1. Init => \A i \in Worker : Begun(i)
  BY DEF Init, Begun
<1>2. IInv /\ (\A i \in Worker : Begun(i)) /\ [Next]_vars => (\A i \in Worker : Begun(i))'
  BY BegunStep
<1>3. IInv /\ (\A i \in Worker : Begun(i)) /\ [Next]_vars =>
        [step # "idle" =>
           \/ step' = "idle"
           \/ url < Mirrors /\ url' = url + 1
           \/ url' = url /\ step' \in Later[step]
           \/ /\ step = "run" /\ UNCHANGED <<step, url>>
              /\ \E i \in Worker : Advances(i) /\ \A j \in Worker \ {i} : Stands(j)]_vars
  BY StepAdvances
<1> QED
  BY <1>1, <1>2, <1>3, Invariant, PTL DEF Spec, CallAdvances
=============================================================================
