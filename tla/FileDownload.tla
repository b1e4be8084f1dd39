----------------------------- MODULE FileDownload -----------------------------
(***************************************************************************)
(* One call of DownloadWithResume for one local file: a busy check, up to  *)
(* two HTTP attempts that resume what is on disk, the verification, the    *)
(* reset between them, and the deferral of a file a game client holds.     *)
(*                                                                         *)
(* A URL carries the time stamp of its content, so what it serves never    *)
(* changes; the manifest the caller verifies against may list another      *)
(* content.  A block is what one call of the receiver hands over.          *)
(***************************************************************************)
EXTENDS Integers, Sequences

CONSTANTS
  Version,  \* contents the server has, each at a URL of its own
  Length,   \* blocks of every content
  NoEntry,  \* "the manifest has no line for the file"
  Absent,   \* "no such file"
  Junk,     \* a block of an HTTP error page, or of a hole
  Longest   \* bound of the model: no error page is added to a file of that many blocks

Block == (Version \X Nat) \cup {Junk}
File == Seq(Block) \cup {Absent}
Copy(v) == [n \in 1 .. Length[v] |-> <<v, n>>]
Request == [url : Version, listed : Version \cup {NoEntry}, deferrable : BOOLEAN]

ASSUME LengthsOK == Length \in [Version -> Nat] /\ Longest \in Nat
ASSUME NamesOK == /\ NoEntry \notin Version
                  /\ Absent \notin Seq(Block)
                  /\ Junk \notin Version \X Nat

VARIABLES
  file,      \* the local file
  request,   \* the arguments of the call: URL, what the manifest lists, may it be deferred
  result,    \* how the last call ended
  img,       \* the name ends in .img: IsImgFilePath, which disables resuming
  lock,      \* a game client's handle: "none", one that shares writes, or "busy"
  step,      \* where the call stands
  attempt,   \* 1 or 2
  size,      \* m_downloadState.currentDownloadSize, 0 when unknown
  resumed,   \* requestedResume
  offset,    \* nextWriteOffset
  trunc,     \* truncateOnFirstWrite
  open,      \* the output stream is open
  reply,     \* status of the response
  next,      \* the block of the body that comes next
  fault,     \* history: the server, the network or a lock failed this call
  clean      \* history: the call began with a part of this content and met no error page

http == <<resumed, offset, trunc, open, reply, next>>
vars == <<file, request, result, img, lock, step, attempt, size, http, fault, clean>>

TypeOK ==
  /\ file \in File /\ request \in Request
  /\ result \in {"none", "ok", "deferred", "failed"}
  /\ img \in BOOLEAN
  /\ lock \in {"none", "shared", "busy"}
  /\ step \in {"idle", "check", "probe", "get", "receive", "verify", "finish"}
  /\ attempt \in 1 .. 2
  /\ size \in Nat
  /\ resumed \in BOOLEAN /\ offset \in Nat /\ trunc \in BOOLEAN /\ open \in BOOLEAN
  /\ reply \in {"none", "200", "206", "error"}
  /\ next \in Nat
  /\ fault \in BOOLEAN /\ clean \in BOOLEAN

url == request.url
listed == request.listed
Held == IF file = Absent THEN 0 ELSE Len(file)

\* The file is a beginning of content v.
PartOf(v) == file # Absent => /\ Len(file) <= Length[v]
                              /\ \A n \in 1 .. Len(file) : file[n] = <<v, n>>

-----------------------------------------------------------------------------
(* DownloadWithResume.                                                     *)

\* A handle that does not share writing keeps the file from being opened.
IsFileBusyForWrite == lock = "busy"

Return(r) == step' = "idle" /\ result' = r

Begin ==
  /\ step = "idle" /\ step' = "check"
  /\ request' \in Request /\ result' = "none" /\ attempt' = 1
  /\ fault' = FALSE /\ clean' = PartOf(request'.url)
  /\ UNCHANGED <<file, img, lock, size, http>>

\* A busy file is deferred if the caller allows it; Stop() may have taken the client.
Check ==
  /\ step = "check"
  /\ IF request.deferrable /\ IsFileBusyForWrite
     THEN Return("deferred") /\ UNCHANGED fault
     ELSE \/ step' = "probe" /\ UNCHANGED <<result, fault>>
          \/ Return("failed") /\ fault' = TRUE
  /\ UNCHANGED <<file, request, img, lock, attempt, size, http, clean>>

\* DownloadHttp: the size is asked for, then the local file is measured. A file of
\* that size is not downloaded; a longer one is removed, if nobody holds it.
Probe ==
  /\ step = "probe"
  /\ \/ size' = Length[url] /\ UNCHANGED fault
     \/ size' = 0 /\ fault' = TRUE
  /\ IF ~img /\ size' > 0 /\ Held = size'
     THEN step' = "verify" /\ UNCHANGED <<file, http>>
     ELSE LET longer == ~img /\ size' > 0 /\ Held > size'
          IN /\ step' = "get"
             /\ file' = IF longer /\ lock = "none" THEN Absent ELSE file
             /\ offset' = IF img \/ longer THEN 0 ELSE Held
             /\ resumed' = (offset' > 0) /\ trunc' = (offset' = 0)
             /\ open' = FALSE /\ reply' = "none" /\ next' = 0
  /\ UNCHANGED <<request, result, img, lock, attempt, clean>>

\* Variant with a bug: a whole body is written where the range would have gone.
AnswerKeepsOffset ==
  /\ step = "get" /\ step' = "receive"
  /\ \/ reply' = "200" /\ next' = 1 /\ UNCHANGED fault
     \/ resumed /\ offset < Length[url] /\ reply' = "206" /\ next' = offset + 1 /\ UNCHANGED fault
     \/ reply' \in {"error", "none"} /\ next' = 1 /\ fault' = TRUE
  /\ size' = CASE reply' = "none" -> size [] reply' = "error" -> 1
               [] OTHER -> IF Length[url] > 0 THEN Length[url] ELSE size
  /\ UNCHANGED <<file, request, result, img, lock, attempt, resumed, offset, trunc, open, clean>>

\* handleResponse: a server may ignore the range, then everything starts again; the
\* length of the response replaces the probed one, that of an error page too.
Answer ==
  /\ step = "get" /\ step' = "receive"
  /\ \/ reply' = "200" /\ next' = 1 /\ UNCHANGED fault
     \/ resumed /\ offset < Length[url] /\ reply' = "206" /\ next' = offset + 1 /\ UNCHANGED fault
     \/ reply' \in {"error", "none"} /\ next' = 1 /\ fault' = TRUE
  /\ IF resumed /\ reply' = "200" THEN offset' = 0 /\ trunc' = TRUE
                                  ELSE UNCHANGED <<offset, trunc>>
  /\ size' = CASE reply' = "none" -> size [] reply' = "error" -> 1
               [] OTHER -> IF Length[url] > 0 THEN Length[url] ELSE size
  /\ UNCHANGED <<file, request, result, img, lock, attempt, resumed, open, clean>>

\* Writing block b at position n of f; a write beyond the end leaves a hole.
Put(f, n, b) ==
  [i \in 1 .. (IF n > Len(f) THEN n ELSE Len(f)) |->
     IF i = n THEN b ELSE IF i <= Len(f) THEN f[i] ELSE Junk]

\* The next block of the body, opening the stream for the first one.
Receive ==
  /\ step = "receive" /\ (open \/ lock # "busy")
  /\ \/ reply \in {"200", "206"} /\ next <= Length[url]
     \/ reply = "error" /\ next = 1 /\ Held < Longest
  /\ file' = Put(IF trunc \/ file = Absent THEN <<>> ELSE file, offset + 1,
                 IF reply = "error" THEN Junk ELSE <<url, next>>)
  /\ clean' = (clean /\ reply # "error")
  /\ offset' = offset + 1 /\ next' = next + 1 /\ trunc' = FALSE /\ open' = TRUE
  /\ UNCHANGED <<request, result, img, lock, step, attempt, size, resumed, reply, fault>>

\* The locals of DownloadHttp are gone and the stream is closed.
HttpOver == /\ resumed' = FALSE /\ offset' = 0 /\ trunc' = FALSE /\ open' = FALSE
            /\ reply' = "none" /\ next' = 0

\* Variant with a bug: a failed request does not count as an attempt.
RetryForever == step' = "probe" /\ UNCHANGED attempt

\* Variant with a bug: the attempts are not bounded.
OneMoreAttempt == step' = "probe" /\ attempt' = attempt + 1

NextAttempt == IF attempt = 1 THEN step' = "probe" /\ attempt' = 2
                              ELSE step' = "finish" /\ UNCHANGED attempt

\* The whole body came, or the connection, the stream or the status failed.
EndReply ==
  /\ step = "receive" /\ HttpOver
  /\ \/ /\ reply \in {"200", "206"} /\ next > Length[url]
        /\ step' = "verify" /\ UNCHANGED <<attempt, fault>>
     \/ (reply \in {"200", "206"} => next <= Length[url]) /\ NextAttempt /\ fault' = TRUE
  /\ UNCHANGED <<file, request, result, img, lock, size, clean>>

\* verifyDownloadedFile: size and MD5 of the manifest, or the size the server gave.
Verifies ==
  /\ file # Absent
  /\ IF listed # NoEntry /\ Length[listed] > 0 THEN Len(file) = Length[listed]
                                               ELSE size > 0 => Len(file) = size
  /\ listed # NoEntry => file = Copy(listed)

\* Variant with a bug: the size is enough.
AcceptBySize ==
  /\ step = "verify" /\ file # Absent /\ Len(file) = size
  /\ Return("ok")
  /\ UNCHANGED <<file, request, img, lock, attempt, size, http, fault, clean>>

Accept ==
  /\ step = "verify" /\ Verifies
  /\ Return("ok")
  /\ UNCHANGED <<file, request, img, lock, attempt, size, http, fault, clean>>

\* Variant with a bug: what failed the verification is left for the next attempt.
RejectKeeps ==
  /\ step = "verify" /\ ~Verifies
  /\ NextAttempt
  /\ UNCHANGED <<file, fault, request, result, img, lock, size, http, clean>>

\* resetLocalFile before the second attempt: removed, or truncated when a handle
\* prevents that; a busy file ends the call.
Reject ==
  /\ step = "verify" /\ ~Verifies
  /\ IF attempt = 1 /\ IsFileBusyForWrite
     THEN step' = "finish" /\ fault' = TRUE /\ UNCHANGED <<file, attempt>>
     ELSE /\ NextAttempt /\ UNCHANGED fault
          /\ file' = IF attempt = 2 \/ file = Absent THEN file
                     ELSE IF lock = "none" THEN Absent ELSE <<>>
  /\ UNCHANGED <<request, result, img, lock, size, http, clean>>

\* Variant with a bug: every busy file is deferred.
FinishDefers ==
  /\ step = "finish"
  /\ Return(IF IsFileBusyForWrite THEN "deferred" ELSE "failed")
  /\ UNCHANGED <<file, request, img, lock, attempt, size, http, fault, clean>>

\* EnqueueDeferredFileUpdate for a busy file, if the caller allows it.
Finish ==
  /\ step = "finish"
  /\ Return(IF request.deferrable /\ IsFileBusyForWrite THEN "deferred" ELSE "failed")
  /\ UNCHANGED <<file, request, img, lock, attempt, size, http, fault, clean>>

-----------------------------------------------------------------------------
\* A game client opens or closes the file; not in a busy way while it is written.
Hold ==
  /\ file # Absent /\ lock' \in {"none", "shared", "busy"} \ {lock}
  /\ open => lock' # "busy"
  /\ UNCHANGED <<file, request, result, img, step, attempt, size, http, fault, clean>>

\* Each write was flushed, so a kill leaves what has been received.
Kill ==
  /\ step # "idle" /\ Return("none") /\ HttpOver
  /\ UNCHANGED <<file, request, img, lock, attempt, size, fault, clean>>

Init ==
  /\ file \in {Absent} \cup {Copy(v) : v \in Version}
  /\ request \in Request /\ result = "none"
  /\ img \in BOOLEAN /\ lock = "none" /\ step = "idle" /\ attempt = 1 /\ size = 0
  /\ resumed = FALSE /\ offset = 0 /\ trunc = FALSE /\ open = FALSE /\ reply = "none" /\ next = 0
  /\ fault = FALSE /\ clean = FALSE

CallStep == Check \/ Probe \/ Answer \/ Receive \/ EndReply \/ Accept \/ Reject \/ Finish

Next == Begin \/ CallStep \/ Hold \/ Kill

Spec == Init /\ [][Next]_vars

-----------------------------------------------------------------------------
(* The call keeps the contract its callers rely on.                        *)
Fits(f, v) == f # Absent /\ (Length[v] > 0 => Len(f) = Length[v])

Contract == INSTANCE DownloadContract
              WITH Empty <- {v \in Version : Length[v] = 0},
                   NoRequest <- NoEntry,
                   request <- IF step = "idle" THEN NoEntry ELSE request,
                   outcome <- IF step = "idle" THEN result ELSE "running",
                   busy <- lock = "busy"

(* A call succeeds only with the content the manifest lists, of the length *)
(* its URL reports, touches the file only while it runs and nobody holds   *)
(* it, completes no other content than its own, and defers only a file     *)
(* that is held and only where its caller allows it                        *)
(* (DownloadResume.cpp:135-154, 195-271, 325-366).                         *)
KeepsContract == Contract!Spec

(* However wrong the file on disk is, partial, of another content or too   *)
(* long, a call the server, the network and the game clients did not       *)
(* disturb does not fail: the second attempt starts from nothing           *)
(* (DownloadResume.cpp:326-355, ResumeDownload.cpp:118-130).               *)
FailsOnlyOnFault ==
  result = "failed" /\ listed = url /\ Length[url] > 0 => fault

(* What a call, even one that is cut or killed, leaves of a file it began  *)
(* from nothing or from a part of the content, is a part of the content:   *)
(* no block is misplaced, repeated or left out, whatever the server made   *)
(* of the range request (ResumeDownload.cpp:132-212).                      *)
CleanResume == clean => PartOf(url)

(* Every call returns (ResumeDownload.cpp:83-86 bounds each wait).         *)
CallReturns == step # "idle" ~> step = "idle"

\* A bound on the steps that a running call still takes.
StepsLeft ==
  (IF attempt = 1 THEN Length[url] + 5 ELSE 0)
  + CASE step = "check"   -> Length[url] + 7
      [] step = "probe"   -> Length[url] + 6
      [] step = "get"     -> Length[url] + 5
      [] step = "receive" -> 3 + (IF reply \in {"200", "206"} THEN Length[url] + 1 - next
                                  ELSE IF reply = "error" /\ next = 1 THEN 1 ELSE 0)
      [] step = "verify"  -> 2
      [] step = "finish"  -> 1
      [] OTHER            -> 0

(* A call runs out of steps, whatever server, network and locks do: two    *)
(* attempts, one body each (DownloadResume.cpp:325-366,                    *)
(* ResumeDownload.cpp:132-225).                                            *)
Bounded == step # "idle" => StepsLeft \in 1 .. 2 * Length[url] + 12
CountsDown ==
  [][step # "idle" => \/ step' = "idle" \/ StepsLeft' < StepsLeft
                      \/ lock' # lock /\ StepsLeft' = StepsLeft]_vars

\* 8 s to connect and 30 s to read bound every wait of the call.
FairSpec == Spec /\ WF_vars(CallStep)

-----------------------------------------------------------------------------
(* The inductive invariant.                                                *)

Stream ==
  /\ lock # "none" => file # Absent
  /\ open => step = "receive" /\ ~trunc /\ lock # "busy"
  /\ step \in {"get", "receive"} /\ trunc => offset = 0

\* Where the next block goes, and which one it is.
Placed ==
  /\ step = "get" => IF trunc THEN ~resumed
                             ELSE resumed /\ file # Absent /\ offset > 0 /\ offset = Held
  /\ step = "receive" /\ reply \in {"200", "206"} => /\ next = offset + 1
                                                     /\ ~trunc => file # Absent /\ offset = Held
  /\ step = "receive" /\ ~trunc => file # Absent /\ offset <= Held

\* The size an accepted file is measured against; what is verified has it.
Sized ==
  /\ step = "get" => size \in {0, Length[url]}
  /\ step = "receive" /\ reply \in {"200", "206"} => /\ size = Length[url]
                                                     /\ next <= Length[url] + 1
  /\ step = "verify" => /\ size = Length[url]
                        /\ Length[url] > 0 => Held = Length[url]

\* An undisturbed second attempt starts from nothing and gets everything.
Fresh ==
  /\ step = "check" => attempt = 1
  /\ ~fault /\ attempt = 2 =>
       /\ step \in {"probe", "get"} => Held = 0
       /\ step = "receive" => /\ reply = "200" /\ PartOf(url)
                              /\ Held = IF trunc THEN 0 ELSE next - 1
       /\ step = "verify" /\ Length[url] > 0 => file = Copy(url)
  /\ step = "finish" /\ listed = url /\ Length[url] > 0 => fault

IInv == TypeOK /\ Stream /\ Placed /\ Sized /\ Fresh /\ CleanResume /\ FailsOnlyOnFault
=============================================================================
