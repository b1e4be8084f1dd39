---------------------------- MODULE MCChunkDownload ----------------------------
(***************************************************************************)
(* A bound, and a well-behaved environment, for ChunkDownload.             *)
(***************************************************************************)
EXTENDS ChunkDownload

\* A bound: what a call has spoilt is not taken up by another one.
SpoiltOnce == spoilt => step # "idle"

\* Nothing is killed, P2P is off, and the progress file can always be written.
Calm == /\ DownloadBasePackage \/ CallStep \/ (\E i \in Worker : WorkerStep(i))
        /\ step = "candidate" => step' = "load" /\ archive' = archive
        /\ step \in {"load", "run"} => saved' # NoState
SpecCalm == Init /\ [][Calm]_vars

(* What the chunked download reports as downloaded is the archive of the   *)
(* mirror (ChunkDownload.cpp:303-340, ChunkExecutor.cpp:120-166).          *)
ReturnsArchive == step = "verify" => archive = Remote
=============================================================================
