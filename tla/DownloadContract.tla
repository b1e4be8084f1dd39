--------------------------- MODULE DownloadContract ---------------------------
(***************************************************************************)
(* What DownloadWithResume promises its callers, the sync, the /download   *)
(* handler and the retry of deferred files: a local file only changes      *)
(* while a call for it runs and no client keeps it from being written; the *)
(* call completes no content but that of its URL; a call that reports      *)
(* success has left the content the manifest lists, of the length its URL  *)
(* reports; and a call is postponed only when its caller allows it and a   *)
(* client holds the file.                                                  *)
(***************************************************************************)
CONSTANTS
  Version,   \* contents the server has, each at a URL of its own
  Empty,     \* those without a block
  File,      \* what a local file may be, "no such file" included
  NoEntry,   \* "the manifest has no line for the file"
  NoRequest, \* "no call runs"
  Copy(_),   \* the file with content v
  Fits(_, _) \* the file may have the length that the URL of content v reports

VARIABLES
  file,     \* the local file
  request,  \* the arguments of the running call, or NoRequest
  outcome,  \* "running", or how the last call ended; "none" after a kill
  busy      \* a client keeps the file from being written

Request == [url : Version, listed : Version \cup {NoEntry}, deferrable : BOOLEAN]

Init == file \in File /\ request = NoRequest /\ outcome = "none" /\ busy \in BOOLEAN

Call ==
  /\ outcome # "running"
  /\ request' \in Request /\ outcome' = "running" /\ UNCHANGED <<file, busy>>

Write ==
  /\ outcome = "running" /\ ~busy /\ file' \in File
  /\ \A v \in Version : file' = Copy(v) => file' = file \/ v = request.url \/ v \in Empty
  /\ UNCHANGED <<request, outcome, busy>>

End(how) ==
  /\ outcome = "running" /\ outcome' = how
  /\ request' = NoRequest /\ UNCHANGED <<file, busy>>

Deliver ==
  /\ End("ok") /\ Fits(file, request.url)
  /\ request.listed # NoEntry => file = Copy(request.listed)

Postpone == End("deferred") /\ request.deferrable /\ busy

\* The file may be anything by now; a kill is no different.
Fail == End("failed") \/ End("none")

\* A client opens or closes the file.
Hold == busy' \in BOOLEAN /\ UNCHANGED <<file, request, outcome>>

Next == Call \/ Write \/ Deliver \/ Postpone \/ Fail \/ Hold

vars == <<file, request, outcome, busy>>

Spec == Init /\ [][Next]_vars
=============================================================================
