----------------------------- MODULE MCUpdateFlow -----------------------------
(***************************************************************************)
(* Small installations for UpdateFlow.  Three contents: a and b of one     *)
(* length, c of another; any of them also stands for what a download that  *)
(* went wrong leaves behind.                                               *)
(***************************************************************************)
EXTENDS UpdateFlow, TLC

CONSTANTS exe, img, dat, a, b, c, m1, m2

MCSize == (a :> 1) @@ (b :> 1) @@ (c :> 2)
MCContent == DOMAIN MCSize
MCManifest == {m1, m2}

\* The image is replaced by one of the same length, the data file is new in m2;
\* the launcher is not listed.
DataPage == {exe, img, dat}
DataListing == m1 :> (exe :> NoEntry @@ img :> a @@ dat :> NoEntry)
            @@ m2 :> (exe :> NoEntry @@ img :> b @@ dat :> c)
DataBase == exe :> NoEntry @@ img :> a @@ dat :> NoEntry

\* A new launcher of the same length is published together with a data file.
LauncherPage == {exe, dat}
SelfListing == m1 :> (exe :> a @@ dat :> NoEntry)
            @@ m2 :> (exe :> b @@ dat :> c)
SelfBase == exe :> NoEntry @@ dat :> NoEntry

-----------------------------------------------------------------------------
(* Well-behaved environments, to tell causes apart: no error box, writes   *)
(* of Version.dat and downloads succeed, an installation that was current. *)

Execute ==
  \/ Start \/ InitializeDownloadEnvironment \/ EnsureBasePackageReady
  \/ (\E p \in Page : ExtractPage(p)) \/ ExtractionEnds
  \/ ReadVersionDat \/ LoadMd5 \/ (\E p \in Page : LoadLine(p)) \/ LoadRuntimeList
  \/ RunTakesFlow \/ RunRefresh \/ SyncStep \/ RunSyncEnds \/ HandleSelfUpdateAndExit
  \/ RunLaunch

Succeeds == /\ run' \notin {"alert", "failed"}
            /\ web' = "idle" => web \in {"idle", "launch"}
            /\ run # "read" /\ localMd5' # localMd5 => verdat' = localMd5'

\* A current installation that polls and serves /RunClient while a game runs.
SpecPolling ==
  /\ Init /\ Installed
  /\ [][ \/ (Execute \/ (run = "monitor" /\ RunClient) \/ WebStep \/ PollManifest) /\ Succeeds
         \/ Publish ]_vars

(* The launch waits for every file whose MD5 differs from the remote one.  *)
LaunchCurrent ==
  "launch" \in {run, web} => \A p \in Tracked : ~Stale(p, files)
=============================================================================
