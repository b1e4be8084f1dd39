--------------------------- MODULE FileDownloadProofs ---------------------------
(***************************************************************************)
(* Proofs about FileDownload, for every set of contents and every length:  *)
(* the inductive invariant, and that a call keeps the contract of          *)
(* DownloadContract.                                                       *)
(***************************************************************************)
EXTENDS FileDownload, SequenceTheorems, TLAPS

(* A function on 1 .. n is a sequence of that length.                      *)
LEMMA FunctionSeq ==
  ASSUME NEW S, NEW n \in Nat, NEW g \in [1 .. n -> S]
  PROVE  g \in Seq(S) /\ Len(g) = n
  <1>1. g \in Seq(S)  BY SeqDef
  <1>2. Len(g) \in Nat /\ 1 .. Len(g) = 1 .. n  BY <1>1, LenProperties
  <1> QED  BY <1>1, <1>2

(* The contents are files, and have the length the server states.          *)
LEMMA CopyFile ==
  ASSUME NEW v \in Version
  PROVE  Copy(v) \in Seq(Block) /\ Len(Copy(v)) = Length[v] /\ Copy(v) # Absent
  <1>1. Length[v] \in Nat  BY LengthsOK
  <1>2. Copy(v) \in [1 .. Length[v] -> Block]  BY <1>1 DEF Copy, Block
  <1> QED  BY <1>1, <1>2, FunctionSeq, NamesOK

(* A file that is a part of a content and as long as it is the content.    *)
LEMMA WholePart ==
  ASSUME NEW v \in Version, NEW f \in Seq(Block), Len(f) = Length[v],
         \A n \in 1 .. Len(f) : f[n] = <<v, n>>
  PROVE  f = Copy(v)
  <1>1. Copy(v) \in Seq(Block) /\ Len(Copy(v)) = Len(f)  BY CopyFile
  <1>2. \A n \in 1 .. Len(f) : f[n] = Copy(v)[n]  BY DEF Copy
  <1> QED  BY <1>1, <1>2, SeqEqual

(* What writing one block does to a file.                                  *)
HasPut(g, f, n, b) ==
  /\ g \in Seq(Block)
  /\ Len(g) = IF n > Len(f) THEN n ELSE Len(f)
  /\ \A i \in 1 .. Len(g) :
       g[i] = IF i = n THEN b ELSE IF i <= Len(f) THEN f[i] ELSE Junk

LEMMA PutFile ==
  ASSUME NEW f \in Seq(Block), NEW n \in Nat \ {0}, NEW b \in Block
  PROVE  HasPut(Put(f, n, b), f, n, b)
  <1> DEFINE m == IF n > Len(f) THEN n ELSE Len(f)
  <1>1. Len(f) \in Nat /\ f \in [1 .. Len(f) -> Block]  BY LenProperties
  <1>2. Junk \in Block  BY DEF Block
  <1>3. Put(f, n, b) \in [1 .. m -> Block]  BY <1>1, <1>2 DEF Put
  <1>4. m \in Nat  BY <1>1
  <1>5. Put(f, n, b) \in Seq(Block) /\ Len(Put(f, n, b)) = m  BY <1>3, <1>4, FunctionSeq
  <1> QED  BY <1>1, <1>5 DEF Put, HasPut
-----------------------------------------------------------------------------
(* Type correctness is inductive by itself.                                *)
Flags == /\ img \in BOOLEAN /\ resumed \in BOOLEAN /\ trunc \in BOOLEAN /\ open \in BOOLEAN
         /\ fault \in BOOLEAN /\ clean \in BOOLEAN

LEMMA TypeStep ==
  ASSUME TypeOK, [Next]_vars
  PROVE  TypeOK'
  <1> USE LengthsOK
  <1>0. Length[url] \in Nat /\ \A r \in Request : Length[r.url] \in Nat
    BY DEF TypeOK, Request, url
  <1>a. Flags  BY Zenon DEF TypeOK, Flags
  <1>1. CASE Begin
    <2>1. Flags'  BY <1>a, <1>1, ZenonT(20) DEF Begin, Flags, http, PartOf
    <2> QED  BY <1>1, <2>1 DEF Begin, TypeOK, Flags, http
  <1>2. CASE Check
    <2>1. Flags'  BY <1>a, <1>2, ZenonT(20) DEF Check, Flags, http
    <2> QED  BY <1>2, <2>1 DEF Check, Return, TypeOK, Flags, http
  <1>3. CASE Probe
    <2>1. Held \in Nat  BY LenProperties DEF TypeOK, File, Held
    <2>2. size' \in Nat  BY <1>0, <1>3 DEF Probe
    <2>3. file' \in File  BY <1>3 DEF Probe, TypeOK, File
    <2>4. Flags'
      <3>1. resumed' \in BOOLEAN
        <4>1. resumed' = resumed \/ resumed' = (offset' > 0)  BY <1>3 DEF Probe, http
        <4>2. (offset' > 0) \in BOOLEAN  BY SMT
        <4> QED  BY <1>a, <4>1, <4>2, Zenon DEF Flags
      <3>2. trunc' \in BOOLEAN  BY <1>a, <1>3, ZenonT(20) DEF Probe, Flags, http
      <3>3. open' \in BOOLEAN  BY <1>a, <1>3, ZenonT(20) DEF Probe, Flags, http
      <3>4. fault' \in BOOLEAN  BY <1>a, <1>3, ZenonT(20) DEF Probe, Flags
      <3> QED  BY <1>a, <1>3, <3>1, <3>2, <3>3, <3>4, Zenon DEF Probe, Flags
    <2>5. offset' \in Nat /\ next' \in Nat /\ reply' \in {"none", "200", "206", "error"}
      BY <1>3, <2>1 DEF Probe, TypeOK, http
    <2>6. step' \in {"verify", "get"}  BY <1>3 DEF Probe
    <2> QED  BY <1>3, <2>2, <2>3, <2>4, <2>5, <2>6 DEF Probe, TypeOK, Flags
  <1>4. CASE Answer
    <2>1. next' \in Nat /\ reply' \in {"none", "200", "206", "error"}
      BY <1>4 DEF Answer, TypeOK
    <2>2. size' \in Nat  BY <1>0, <1>4 DEF Answer, TypeOK
    <2>3. offset' \in Nat  BY <1>4 DEF Answer, TypeOK
    <2>4. Flags'  BY <1>a, <1>4, ZenonT(20) DEF Answer, Flags
    <2> QED  BY <1>4, <2>1, <2>2, <2>3, <2>4 DEF Answer, TypeOK, Flags
  <1>5. CASE Receive
    <2> DEFINE base == IF trunc \/ file = Absent THEN <<>> ELSE file
               b == IF reply = "error" THEN Junk ELSE <<url, next>>
    <2>1. base \in Seq(Block)  BY EmptySeq DEF TypeOK, File
    <2>2. b \in Block  BY DEF Block, TypeOK, Request, url
    <2>3. offset + 1 \in Nat \ {0}  BY DEF TypeOK
    <2>4. file' = Put(base, offset + 1, b)  BY <1>5 DEF Receive
    <2>5. file' \in File  BY <2>1, <2>2, <2>3, <2>4, PutFile DEF File, HasPut
    <2>6. Flags'  BY <1>a, <1>5, ZenonT(20) DEF Receive, Flags
    <2>7. offset' \in Nat /\ next' \in Nat  BY <1>5 DEF Receive, TypeOK
    <2> QED  BY <1>5, <2>5, <2>6, <2>7 DEF Receive, TypeOK, Flags
  <1>6. CASE EndReply
    <2>1. Flags'  BY <1>a, <1>6, ZenonT(20) DEF EndReply, HttpOver, Flags
    <2> QED  BY <1>6, <2>1 DEF EndReply, HttpOver, NextAttempt, TypeOK, Flags
  <1>7. CASE Accept  BY <1>7 DEF Accept, Return, TypeOK, http
  <1>8. CASE Reject
    <2>1. file' \in File  BY <1>8, EmptySeq DEF Reject, TypeOK, File
    <2>2. Flags'  BY <1>a, <1>8, ZenonT(20) DEF Reject, Flags, http
    <2> QED  BY <1>8, <2>1, <2>2 DEF Reject, NextAttempt, TypeOK, Flags, http
  <1>9. CASE Finish  BY <1>9 DEF Finish, Return, TypeOK, http
  <1>10. CASE Hold  BY <1>10 DEF Hold, TypeOK, http
  <1>11. CASE Kill  BY <1>11 DEF Kill, HttpOver, Return, TypeOK
  <1>12. CASE UNCHANGED vars  BY <1>12 DEF vars, http, TypeOK
  <1> QED  BY <1>1, <1>2, <1>3, <1>4, <1>5, <1>6, <1>7, <1>8, <1>9, <1>10, <1>11, <1>12
           DEF Next, CallStep

(* A locked file exists, the stream is open only while blocks arrive.      *)
LEMMA StreamStep ==
  ASSUME TypeOK, Stream, Placed, [Next]_vars
  PROVE  Stream'
  <1>1. CASE Begin  BY <1>1 DEF Begin, Stream, http
  <1>2. CASE Check  BY <1>2 DEF Check, Return, Stream, http
  <1>3. CASE Probe  BY <1>3 DEF Probe, Stream, http
  <1>4. CASE Answer  BY <1>4 DEF Answer, Stream
  <1>5. CASE Receive
    <2>1. file' # Absent
      <3> DEFINE base == IF trunc \/ file = Absent THEN <<>> ELSE file
                 b == IF reply = "error" THEN Junk ELSE <<url, next>>
      <3>1. base \in Seq(Block)  BY EmptySeq DEF TypeOK, File
      <3>2. b \in Block  BY DEF Block, TypeOK, Request, url
      <3>3. offset + 1 \in Nat \ {0}  BY DEF TypeOK
      <3>4. file' = Put(base, offset + 1, b)  BY <1>5 DEF Receive
      <3>5. Put(base, offset + 1, b) \in Seq(Block)  BY <3>1, <3>2, <3>3, PutFile DEF HasPut
      <3> QED  BY <3>4, <3>5, NamesOK
    <2> QED  BY <1>5, <2>1 DEF Receive, Stream
  <1>6. CASE EndReply  BY <1>6 DEF EndReply, HttpOver, NextAttempt, Stream
  <1>7. CASE Accept  BY <1>7 DEF Accept, Return, Stream, http
  <1>8. CASE Reject
    <2>1. <<>> # Absent  BY EmptySeq, NamesOK
    <2>2. lock # "none" => file' # Absent  BY <1>8, <2>1 DEF Reject, NextAttempt, Stream, TypeOK
    <2> QED  BY <1>8, <2>2 DEF Reject, NextAttempt, Stream, http
  <1>9. CASE Finish  BY <1>9 DEF Finish, Return, Stream, http
  <1>10. CASE Hold  BY <1>10 DEF Hold, Stream, http
  <1>11. CASE Kill  BY <1>11 DEF Kill, HttpOver, Return, Stream
  <1>12. CASE UNCHANGED vars  BY <1>12 DEF vars, http, Stream
  <1> QED  BY <1>1, <1>2, <1>3, <1>4, <1>5, <1>6, <1>7, <1>8, <1>9, <1>10, <1>11, <1>12
           DEF Next, CallStep

(* One received block: how long the file is then, and that a block of the  *)
(* body continues a part of the content.                                   *)
LEMMA ReceiveEffect ==
  ASSUME TypeOK, Stream, Placed, Receive
  PROVE  /\ file' # Absent
         /\ Held' = IF trunc \/ offset = Held THEN offset + 1 ELSE Held
         /\ reply # "error" /\ (trunc \/ PartOf(url)) => PartOf(url)'
  <1> DEFINE base == IF trunc \/ file = Absent THEN <<>> ELSE file
             b == IF reply = "error" THEN Junk ELSE <<url, next>>
  <1>1. base \in Seq(Block) /\ Len(base) \in Nat
    BY EmptySeq, LenProperties DEF TypeOK, File
  <1>2. b \in Block  BY DEF Block, TypeOK, Request, url
  <1>3. offset + 1 \in Nat \ {0} /\ offset \in Nat  BY DEF TypeOK
  <1>4. file' = Put(base, offset + 1, b)  BY DEF Receive
  <1>5. /\ file' \in Seq(Block)
        /\ Len(file') = IF offset + 1 > Len(base) THEN offset + 1 ELSE Len(base)
        /\ \A i \in 1 .. Len(file') :
             file'[i] = IF i = offset + 1 THEN b ELSE IF i <= Len(base) THEN base[i] ELSE Junk
    <2> HIDE DEF base, b
    <2> DEFINE f == Put(base, offset + 1, b)
    <2>1. /\ f \in Seq(Block)
          /\ Len(f) = IF offset + 1 > Len(base) THEN offset + 1 ELSE Len(base)
          /\ \A i \in 1 .. Len(f) :
               f[i] = IF i = offset + 1 THEN b ELSE IF i <= Len(base) THEN base[i] ELSE Junk
      <3>1. HasPut(f, base, offset + 1, b)  BY ONLY <1>1, <1>2, <1>3, PutFile
      <3> HIDE DEF f
      <3> QED  BY ONLY <3>1 DEF HasPut
    <2> QED  BY <1>4, <2>1
  <1>6. file' # Absent  BY <1>5, NamesOK
  <1>7. trunc => offset = 0 /\ Len(base) = 0  BY EmptySeq DEF Receive, Stream
  <1>8. ~trunc => file # Absent /\ base = file /\ Len(base) = Held /\ offset <= Held
    BY DEF Receive, Placed, Held
  <1>9. Held' = IF trunc \/ offset = Held THEN offset + 1 ELSE Held
    BY <1>1, <1>3, <1>5, <1>6, <1>7, <1>8 DEF Held
  <1>10. ASSUME reply # "error", trunc \/ PartOf(url)
         PROVE  PartOf(url)'
    <2>1. reply \in {"200", "206"} /\ next <= Length[url]  BY <1>10 DEF Receive, TypeOK
    <2>2. next = offset + 1 /\ (~trunc => offset = Held)  BY <2>1 DEF Receive, Placed
    <2>3. Len(file') = next /\ Len(base) = offset  BY <1>1, <1>3, <1>5, <1>7, <1>8, <2>2
    <2>4. b = <<url, next>>  BY <1>10
    <2>5. \A n \in 1 .. Len(base) : base[n] = <<url, n>>
      BY <1>7, <1>8, <1>10 DEF PartOf
    <2>6. \A n \in 1 .. Len(file') : file'[n] = <<url, n>>
      <3> SUFFICES ASSUME NEW n \in 1 .. Len(file')
                   PROVE  file'[n] = <<url, n>>
        OBVIOUS
      <3> HIDE DEF base, b
      <3>1. CASE n = next  BY <1>5, <2>2, <2>4, <3>1
      <3>2. CASE n # next
        <4>1. n \in 1 .. Len(base) /\ n # offset + 1 /\ n <= Len(base)
          BY <1>1, <1>3, <2>2, <2>3, <3>2
        <4> QED  BY <1>5, <2>5, <4>1
      <3> QED  BY <3>1, <3>2
    <2>7. url' = url  BY DEF Receive, url
    <2> QED  BY <2>1, <2>3, <2>6, <2>7 DEF PartOf
  <1> QED  BY <1>6, <1>9, <1>10

(* The next block of a response is the one that belongs where it goes.     *)
LEMMA PlacedStep ==
  ASSUME TypeOK, Stream, Placed, [Next]_vars
  PROVE  Placed'
  <1>1. CASE Begin  BY <1>1 DEF Begin, Placed
  <1>2. CASE Check  BY <1>2 DEF Check, Return, Placed
  <1>3. CASE Probe
    <2>1. Held \in Nat  BY LenProperties DEF TypeOK, File, Held
    <2>2. CASE step' = "verify"  BY <2>2 DEF Placed
    <2>3. CASE step' = "get"
      <3>1. /\ offset' \in {0, Held}
            /\ offset' # 0 => file' = file
        BY <1>3, <2>1, <2>3 DEF Probe
      <3>4. resumed' = (offset' > 0) /\ trunc' = (offset' = 0)
        BY <1>3, <2>3, Zenon DEF Probe
      <3>5. (offset' > 0) <=> (offset' # 0)  BY <2>1, <3>1
      <3>6. IF offset' = 0 THEN trunc' /\ ~resumed' ELSE ~trunc' /\ resumed'
        BY <3>4, <3>5, Zenon
      <3>2. offset' # 0 => file # Absent /\ file' = file /\ offset' = Held
        BY <3>1 DEF Held
      <3>3. offset' # 0 => file' # Absent /\ offset' > 0 /\ offset' = Held'
        BY <2>1, <3>1, <3>2 DEF Held
      <3> QED  BY <2>3, <3>3, <3>6 DEF Placed
    <2> QED  BY <1>3, <2>2, <2>3 DEF Probe
  <1>4. CASE Answer
    <2>1. offset \in Nat /\ Held \in Nat  BY LenProperties DEF TypeOK, File, Held
    <2>2. step' = "receive" /\ file' = file  BY <1>4 DEF Answer
    <2>3. reply' \in {"200", "206"} => next' = offset' + 1 /\ (~trunc' => file # Absent /\ offset' = Held)
      BY <1>4, <2>1 DEF Answer, Placed, Stream
    <2>4. ~trunc' => file # Absent /\ offset' <= Held
      BY <1>4, <2>1 DEF Answer, Placed
    <2> QED  BY <2>2, <2>3, <2>4 DEF Placed, Held
  <1>5. CASE Receive
    <2>1. /\ file' # Absent
          /\ Held' = IF trunc \/ offset = Held THEN offset + 1 ELSE Held
      BY <1>5, ReceiveEffect
    <2>2. step' = "receive" /\ reply' = reply /\ offset' = offset + 1 /\ next' = next + 1
      BY <1>5 DEF Receive
    <2>3. offset \in Nat /\ Held \in Nat /\ next \in Nat  BY LenProperties DEF TypeOK, File, Held
    <2>4. reply \in {"200", "206"} => next = offset + 1 /\ (trunc \/ offset = Held)
      BY <1>5 DEF Receive, Placed
    <2>5. trunc \/ offset <= Held  BY <1>5 DEF Receive, Placed
    <2> QED  BY <2>1, <2>2, <2>3, <2>4, <2>5 DEF Placed
  <1>6. CASE EndReply  BY <1>6 DEF EndReply, NextAttempt, Placed
  <1>7. CASE Accept  BY <1>7 DEF Accept, Return, Placed
  <1>8. CASE Reject  BY <1>8 DEF Reject, NextAttempt, Placed
  <1>9. CASE Finish  BY <1>9 DEF Finish, Return, Placed
  <1>10. CASE Hold  BY <1>10 DEF Hold, Placed, http, Held
  <1>11. CASE Kill  BY <1>11 DEF Kill, Return, Placed
  <1>12. CASE UNCHANGED vars  BY <1>12 DEF vars, http, Placed, Held
  <1> QED  BY <1>1, <1>2, <1>3, <1>4, <1>5, <1>6, <1>7, <1>8, <1>9, <1>10, <1>11, <1>12
           DEF Next, CallStep

(* The size an accepted file is measured against is the served content's,  *)
(* and the file has it once the whole body has come.                       *)
LEMMA SizedStep ==
  ASSUME TypeOK, Placed, Stream, Sized, [Next]_vars
  PROVE  Sized'
  <1>0. Length[url] \in Nat /\ Held \in Nat /\ next \in Nat /\ offset \in Nat
    BY LengthsOK, LenProperties DEF TypeOK, Request, url, File, Held
  <1>1. CASE Begin  BY <1>1 DEF Begin, Sized
  <1>2. CASE Check  BY <1>2 DEF Check, Return, Sized
  <1>3. CASE Probe
    <2>1. CASE step' = "verify"
      <3>1. size' = Held /\ Held > 0 /\ file' = file /\ url' = url
        BY <1>0, <1>3, <2>1 DEF Probe, url
      <3>2. size' = Length[url]  BY <1>0, <1>3, <3>1 DEF Probe
      <3> QED  BY <2>1, <3>1, <3>2 DEF Sized, Held
    <2>2. CASE step' = "get"  BY <1>0, <1>3, <2>2 DEF Probe, Sized, url
    <2> QED  BY <1>3, <2>1, <2>2 DEF Probe
  <1>4. CASE Answer
    <2>1. size \in {0, Length[url]} /\ url' = url /\ step' = "receive"  BY <1>4 DEF Answer, Sized, url
    <2>2. reply' \in {"200", "206"} => size' = IF Length[url] > 0 THEN Length[url] ELSE size
      BY <1>4 DEF Answer
    <2>3. reply' \in {"200", "206"} => next' <= Length[url] + 1  BY <1>0, <1>4 DEF Answer
    <2> QED  BY <1>0, <2>1, <2>2, <2>3 DEF Sized
  <1>5. CASE Receive
    <2>1. reply \in {"200", "206"} => next + 1 <= Length[url] + 1  BY <1>0, <1>5 DEF Receive
    <2> QED  BY <1>5, <2>1 DEF Receive, Sized, url
  <1>6. CASE EndReply
    <2>1. CASE step' = "verify"
      <3>1. reply \in {"200", "206"} /\ next > Length[url]
        BY <1>6, <2>1 DEF EndReply, NextAttempt
      <3>2. size = Length[url] /\ next = Length[url] + 1 /\ next = offset + 1
        BY <1>0, <1>6, <3>1 DEF EndReply, Sized, Placed
      <3>3. Length[url] > 0 => Held = Length[url]
        BY <1>0, <1>6, <3>1, <3>2 DEF EndReply, Placed, Stream
      <3> QED  BY <1>6, <2>1, <3>2, <3>3 DEF EndReply, Sized, url, Held
    <2>2. CASE step' \in {"probe", "finish"}  BY <2>2 DEF Sized
    <2> QED  BY <1>6, <2>1, <2>2 DEF EndReply, NextAttempt
  <1>7. CASE Accept  BY <1>7 DEF Accept, Return, Sized
  <1>8. CASE Reject  BY <1>8 DEF Reject, NextAttempt, Sized
  <1>9. CASE Finish  BY <1>9 DEF Finish, Return, Sized
  <1>10. CASE Hold  BY <1>10 DEF Hold, Sized, http, url, Held
  <1>11. CASE Kill  BY <1>11 DEF Kill, Return, Sized
  <1>12. CASE UNCHANGED vars  BY <1>12 DEF vars, http, Sized, url, Held
  <1> QED  BY <1>1, <1>2, <1>3, <1>4, <1>5, <1>6, <1>7, <1>8, <1>9, <1>10, <1>11, <1>12
           DEF Next, CallStep

(* A file that is not changed, removed or emptied remains a part.          *)
LEMMA PartKept ==
  ASSUME TypeOK, PartOf(url), url' = url, file' \in {file, Absent, <<>>}
  PROVE  PartOf(url)'
  <1>1. Length[url] \in Nat  BY LengthsOK DEF TypeOK, Request, url
  <1>2. CASE file' = file  BY <1>2 DEF PartOf
  <1>3. CASE file' = Absent  BY <1>3 DEF PartOf
  <1>4. CASE file' = <<>>
    <2>1. Len(file') = 0  BY <1>4, EmptySeq
    <2> QED  BY <1>1, <2>1 DEF PartOf
  <1> QED  BY <1>2, <1>3, <1>4

(* Blocks are only ever added where they belong.                           *)
LEMMA CleanStep ==
  ASSUME TypeOK, Stream, Placed, CleanResume, [Next]_vars
  PROVE  CleanResume'
  <1>1. CASE Begin  BY <1>1 DEF Begin, CleanResume, PartOf, url
  <1>2. CASE Receive
    <2>1. reply # "error" /\ PartOf(url) => PartOf(url)'  BY <1>2, ReceiveEffect
    <2>2. clean' => clean /\ reply # "error"  BY <1>2 DEF Receive
    <2> QED  BY <2>1, <2>2 DEF CleanResume
  <1>3. CASE Check \/ Probe \/ Answer \/ EndReply \/ Accept \/ Reject \/ Finish \/ Hold
             \/ Kill \/ UNCHANGED vars
    <2>1. url' = url /\ clean' = clean
      BY <1>3 DEF Check, Probe, Answer, EndReply, Accept, Reject, Finish, Hold, Kill, vars, url
    <2>2. file' \in {file, Absent, <<>>}
      BY <1>3 DEF Check, Probe, Answer, EndReply, Accept, Reject, Finish, Hold, Kill, vars
    <2> QED  BY <2>1, <2>2, PartKept DEF CleanResume
  <1> QED  BY <1>1, <1>2, <1>3 DEF Next, CallStep

(* The second attempt of an undisturbed call.                              *)
LEMMA FreshStep ==
  ASSUME TypeOK, Stream, Placed, Sized, Fresh, [Next]_vars
  PROVE  Fresh'
  <1>0. Length[url] \in Nat /\ Held \in Nat /\ next \in Nat /\ offset \in Nat
    BY LengthsOK, LenProperties DEF TypeOK, Request, url, File, Held
  <1>1. CASE Begin  BY <1>1 DEF Begin, Fresh
  <1>2. CASE Check  BY <1>2 DEF Check, Return, Fresh, TypeOK
  <1>3. CASE Probe
    <2>1. CASE ~fault' /\ attempt' = 2
      <3>1. ~fault /\ attempt = 2 /\ Held = 0  BY <1>3, <2>1 DEF Probe, Fresh
      <3>2. size' = Length[url] /\ url' = url  BY <1>3, <2>1 DEF Probe, url
      <3>3. CASE step' = "verify"
        <4>1. Length[url] = 0  BY <1>0, <1>3, <3>1, <3>2, <3>3 DEF Probe
        <4> QED  BY <1>0, <3>2, <3>3, <4>1 DEF Fresh
      <3>4. CASE step' = "get"
        <4>1. file' \in {file, Absent}  BY <1>3, <3>4 DEF Probe
        <4>2. Held' = 0  BY <3>1, <4>1 DEF Held
        <4> QED  BY <3>4, <4>2 DEF Fresh
      <3> QED  BY <1>3, <3>3, <3>4 DEF Probe
    <2>2. step' \notin {"check", "finish"}  BY <1>3 DEF Probe
    <2> QED  BY <2>1, <2>2 DEF Fresh
  <1>4. CASE Answer
    <2>1. CASE ~fault' /\ attempt' = 2
      <3>1. ~fault /\ attempt = 2 /\ Held = 0  BY <1>4, <2>1 DEF Answer, Fresh
      <3>2. ~resumed /\ trunc /\ offset = 0
        BY <1>0, <1>4, <3>1 DEF Answer, Placed, Stream
      <3>3. reply' = "200" /\ trunc' /\ file' = file /\ url' = url
        BY <1>4, <2>1, <3>1, <3>2 DEF Answer, url
      <3>4. PartOf(url)
        BY <1>0, <3>1 DEF PartOf, Held, TypeOK, File
      <3>5. PartOf(url)' /\ Held' = 0  BY <3>1, <3>3, <3>4 DEF PartOf, Held
      <3> QED  BY <1>4, <3>3, <3>5 DEF Answer, Fresh
    <2> QED  BY <1>4, <2>1 DEF Answer, Fresh
  <1>5. CASE Receive
    <2>1. CASE ~fault' /\ attempt' = 2
      <3>1. ~fault /\ attempt = 2 /\ step = "receive"  BY <1>5, <2>1 DEF Receive
      <3>2. reply = "200" /\ PartOf(url) /\ Held = IF trunc THEN 0 ELSE next - 1
        BY <3>1 DEF Fresh
      <3>3. PartOf(url)'  BY <1>5, <3>2, ReceiveEffect
      <3>4. Held' = IF trunc \/ offset = Held THEN offset + 1 ELSE Held
        BY <1>5, ReceiveEffect
      <3>5. next = offset + 1 /\ (~trunc => offset = Held)
        BY <1>5, <3>2 DEF Receive, Placed
      <3>6. next' = next + 1 /\ ~trunc' /\ reply' = reply /\ step' = "receive"
        BY <1>5 DEF Receive
      <3>7. Held' = next' - 1  BY <1>0, <3>4, <3>5, <3>6
      <3> QED  BY <3>2, <3>3, <3>6, <3>7 DEF Fresh
    <2> QED  BY <1>5, <2>1 DEF Receive, Fresh
  <1>6. CASE EndReply
    <2>1. CASE ~fault' /\ attempt' = 2
      <3>1. /\ ~fault /\ attempt = 2 /\ step' = "verify" /\ url' = url /\ file' = file
            /\ next > Length[url]
        BY <1>6, <2>1 DEF EndReply, url
      <3>2. reply = "200" /\ PartOf(url) /\ Held = IF trunc THEN 0 ELSE next - 1
        BY <1>6, <3>1 DEF EndReply, Fresh
      <3>3. ASSUME Length[url] > 0
            PROVE  file = Copy(url)
        <4>1. next = offset + 1  BY <1>6, <3>2 DEF EndReply, Placed
        <4>2. ~trunc  BY <1>0, <1>6, <3>1, <3>3, <4>1 DEF EndReply, Stream
        <4>3. file # Absent /\ Held >= Length[url]
          BY <1>0, <1>6, <3>1, <3>2, <3>3, <4>2 DEF EndReply, Placed, Held
        <4>4. Len(file) = Length[url] /\ \A n \in 1 .. Len(file) : file[n] = <<url, n>>
          BY <1>0, <3>2, <4>3 DEF PartOf, Held
        <4> QED  BY <4>3, <4>4, WholePart DEF TypeOK, File, Request, url
      <3>4. Length[url'] > 0 => file' = Copy(url')  BY <3>1, <3>3
      <3>5. Copy(url)' = Copy(url')  BY DEF Copy
      <3> QED  BY <3>1, <3>4, <3>5 DEF Fresh
    <2>2. step' # "check" /\ (step' = "finish" => fault')  BY <1>6 DEF EndReply, NextAttempt
    <2> QED  BY <2>1, <2>2 DEF Fresh
  <1>7. CASE Accept  BY <1>7 DEF Accept, Return, Fresh
  <1>8. CASE Reject
    <2>1. url' = url /\ listed' = listed  BY <1>8 DEF Reject, url, listed
    <2>2. CASE step' = "finish"
      <3>1. ASSUME listed = url, Length[url] > 0, ~fault'
            PROVE  FALSE
        <4>1. attempt = 2 /\ ~fault  BY <1>8, <2>2, <3>1 DEF Reject, NextAttempt, TypeOK
        <4>2. file = Copy(url)  BY <1>8, <3>1, <4>1 DEF Reject, Fresh
        <4>3. file # Absent /\ Len(file) = Length[url]
          BY <4>2, CopyFile DEF TypeOK, Request, url
        <4>4. listed # NoEntry /\ Copy(listed) = Copy(url)
          BY <3>1, NamesOK DEF TypeOK, Request, url
        <4>5. Verifies  BY <3>1, <4>2, <4>3, <4>4 DEF Verifies
        <4> QED  BY <1>8, <4>5 DEF Reject
      <3> QED  BY <2>1, <2>2, <3>1 DEF Fresh
    <2>3. CASE step' = "probe"
      <3>1. attempt = 1 /\ file' \in {Absent, <<>>}
        BY <1>8, <2>3 DEF Reject, NextAttempt, TypeOK
      <3>2. Held' = 0  BY <3>1, EmptySeq DEF Held
      <3> QED  BY <2>3, <3>2 DEF Fresh
    <2> QED  BY <1>8, <2>2, <2>3 DEF Reject, NextAttempt
  <1>9. CASE Finish  BY <1>9 DEF Finish, Return, Fresh
  <1>10. CASE Hold  BY <1>10 DEF Hold, Fresh, http, Held, PartOf, url, listed, Copy
  <1>11. CASE Kill  BY <1>11 DEF Kill, Return, Fresh
  <1>12. CASE UNCHANGED vars
    BY <1>12 DEF vars, http, Fresh, Held, PartOf, url, listed, Copy
  <1> QED  BY <1>1, <1>2, <1>3, <1>4, <1>5, <1>6, <1>7, <1>8, <1>9, <1>10, <1>11, <1>12
           DEF Next, CallStep

(* A failure without a fault would need a second attempt without one.      *)
LEMMA FaultStep ==
  ASSUME Fresh, FailsOnlyOnFault, [Next]_vars
  PROVE  FailsOnlyOnFault'
  <1>1. CASE Begin  BY <1>1 DEF Begin, FailsOnlyOnFault
  <1>2. CASE Check  BY <1>2 DEF Check, Return, FailsOnlyOnFault, url, listed
  <1>3. CASE Probe  BY <1>3 DEF Probe, FailsOnlyOnFault, url, listed
  <1>4. CASE Answer  BY <1>4 DEF Answer, FailsOnlyOnFault, url, listed
  <1>5. CASE Receive  BY <1>5 DEF Receive, FailsOnlyOnFault, url, listed
  <1>6. CASE EndReply  BY <1>6 DEF EndReply, FailsOnlyOnFault, url, listed
  <1>7. CASE Accept  BY <1>7 DEF Accept, Return, FailsOnlyOnFault
  <1>8. CASE Reject  BY <1>8 DEF Reject, FailsOnlyOnFault, url, listed
  <1>9. CASE Finish  BY <1>9 DEF Finish, Return, FailsOnlyOnFault, Fresh, url, listed
  <1>10. CASE Hold  BY <1>10 DEF Hold, FailsOnlyOnFault, url, listed
  <1>11. CASE Kill  BY <1>11 DEF Kill, Return, FailsOnlyOnFault
  <1>12. CASE UNCHANGED vars  BY <1>12 DEF vars, FailsOnlyOnFault, url, listed
  <1> QED  BY <1>1, <1>2, <1>3, <1>4, <1>5, <1>6, <1>7, <1>8, <1>9, <1>10, <1>11, <1>12
           DEF Next, CallStep
-----------------------------------------------------------------------------
(* The files on disk and the idle call are where everything starts.        *)
LEMMA InitIInv == Init => IInv
  <1> SUFFICES ASSUME Init PROVE IInv  OBVIOUS
  <1>1. file \in File  BY CopyFile DEF Init, File
  <1>2. Flags  BY Zenon DEF Init, Flags
  <1>3. TypeOK  BY <1>1, <1>2 DEF Init, TypeOK, Flags
  <1>4. Stream /\ Placed /\ Sized /\ Fresh  BY DEF Init, Stream, Placed, Sized, Fresh
  <1>5. CleanResume /\ FailsOnlyOnFault  BY DEF Init, CleanResume, FailsOnlyOnFault
  <1> QED  BY <1>3, <1>4, <1>5 DEF IInv

(* Every step keeps the inductive invariant.                               *)
LEMMA NextIInv == IInv /\ [Next]_vars => IInv'
  BY TypeStep, StreamStep, PlacedStep, SizedStep, FreshStep, CleanStep, FaultStep DEF IInv

(* The inductive invariant, from which the theorems below follow.          *)
THEOREM Invariant == Spec => []IInv
  BY InitIInv, NextIInv, PTL DEF Spec

(* The variables keep their types; the file is always a sequence of blocks *)
(* or missing, however blocks and truncations follow each other.           *)
THEOREM TypeCorrect == Spec => []TypeOK
  <1>1. IInv => TypeOK  BY DEF IInv
  <1> QED  BY <1>1, Invariant, PTL

(* An undisturbed call for a file the manifest lists does not fail,        *)
(* whatever was on disk (DownloadResume.cpp:326-355).                      *)
THEOREM UndisturbedSucceeds == Spec => []FailsOnlyOnFault
  <1>1. IInv => FailsOnlyOnFault  BY DEF IInv
  <1> QED  BY <1>1, Invariant, PTL

(* A call, finished, failed or killed, leaves a part of the content of a   *)
(* part of the content (ResumeDownload.cpp:132-212).                       *)
THEOREM ResumesClean == Spec => []CleanResume
  <1>1. IInv => CleanResume  BY DEF IInv
  <1> QED  BY <1>1, Invariant, PTL
-----------------------------------------------------------------------------
Outcome == IF step = "idle" THEN result ELSE "running"
Asked == IF step = "idle" THEN NoEntry ELSE request
Busy == lock = "busy"

(* No step of a call completes another content than that of its URL: the   *)
(* blocks it adds are that content's or belong to none.                    *)
LEMMA WritesOwn ==
  ASSUME IInv, [Next]_vars, NEW v \in Version, file' = Copy(v)
  PROVE  file' = file \/ v = url \/ Length[v] = 0
  <1>a. TypeOK /\ Stream /\ Placed  BY DEF IInv
  <1>b. Copy(v) \in Seq(Block) /\ Len(Copy(v)) = Length[v] /\ Copy(v) # Absent
        /\ Length[v] \in Nat
    BY CopyFile, LengthsOK
  <1>1. CASE Receive
    <2> DEFINE base == IF trunc \/ file = Absent THEN <<>> ELSE file
               b == IF reply = "error" THEN Junk ELSE <<url, next>>
    <2>1. base \in Seq(Block) /\ Len(base) \in Nat
      BY <1>a, EmptySeq, LenProperties DEF TypeOK, File
    <2>2. b \in Block  BY <1>a DEF Block, TypeOK, Request, url
    <2>3. offset + 1 \in Nat \ {0} /\ offset \in Nat  BY <1>a DEF TypeOK
    <2>4. file' = Put(base, offset + 1, b)  BY <1>1 DEF Receive
    <2>5. offset + 1 \in 1 .. Len(file') /\ file'[offset + 1] = b
      <3> HIDE DEF base, b
      <3>1. /\ Len(file') = IF offset + 1 > Len(base) THEN offset + 1 ELSE Len(base)
            /\ \A i \in 1 .. Len(file') :
                 file'[i] = IF i = offset + 1 THEN b ELSE IF i <= Len(base) THEN base[i] ELSE Junk
        <4> DEFINE f == Put(base, offset + 1, b)
        <4>1. /\ Len(f) = IF offset + 1 > Len(base) THEN offset + 1 ELSE Len(base)
              /\ \A i \in 1 .. Len(f) :
                   f[i] = IF i = offset + 1 THEN b ELSE IF i <= Len(base) THEN base[i] ELSE Junk
          <5>1. HasPut(f, base, offset + 1, b)  BY ONLY <2>1, <2>2, <2>3, PutFile
          <5> HIDE DEF f
          <5> QED  BY ONLY <5>1 DEF HasPut
        <4> QED  BY <2>4, <4>1
      <3>2. offset + 1 \in 1 .. Len(file')  BY <2>1, <2>3, <3>1
      <3> QED  BY <3>1, <3>2
    <2>6. b = <<v, offset + 1>>  BY <1>b, <2>5 DEF Copy
    <2>7. b # Junk
      <3>1. <<v, offset + 1>> \in Version \X Nat  BY <2>3
      <3> QED  BY <2>6, <3>1, NamesOK
    <2>8. b = <<url, next>>  BY <2>7
    <2> QED  BY <2>6, <2>8
  <1>2. CASE ~Receive
    <2>1. file' \in {file, Absent, <<>>}
      BY <1>2 DEF Next, CallStep, Begin, Check, Probe, Answer, EndReply, Accept, Reject,
           Finish, Hold, Kill, vars
    <2>2. CASE file' = <<>>
      <3>1. Len(file') = 0  BY <2>2, EmptySeq
      <3> QED  BY <1>b, <3>1
    <2> QED  BY <1>b, <2>1, <2>2
  <1> QED  BY <1>1, <1>2

(* Every step of the call is a step of the contract, or changes nothing    *)
(* the caller sees.                                                        *)
LEMMA StepKeepsContract ==
  ASSUME IInv, IInv', [Next]_vars
  PROVE  [Contract!Next]_<<file, Asked, Outcome, Busy>>
  <1>a. TypeOK /\ Sized  BY DEF IInv
  <1>b. result # "running"  BY <1>a DEF TypeOK
  <1>c. file' \in File  BY DEF IInv, TypeOK
  <1> DEFINE Silent == UNCHANGED <<file, Asked, Outcome, Busy>>
             Running == step # "idle" /\ step' # "idle" /\ UNCHANGED <<request, lock>>
             Returns == step # "idle" /\ step' = "idle" /\ UNCHANGED <<file, lock>>
  <1>d. Running /\ lock # "busy" => Contract!Write
    <2>1. \A v \in Version : file' = Copy(v) =>
             file' = file \/ v = request.url \/ v \in {w \in Version : Length[w] = 0}
      BY WritesOwn DEF url
    <2> QED  BY <1>c, <2>1 DEF Contract!Write
  <1>e. Running /\ UNCHANGED file => Silent  BY DEF Asked, Outcome, Busy
  <1>f. Returns => Contract!End(result')  BY DEF Contract!End
  <1>1. CASE Begin
    <2>1. request' \in Request  BY <1>1 DEF Begin
    <2>2. Contract!Call  BY <1>1, <1>b, <2>1 DEF Begin, Contract!Call, Contract!Request, Request
    <2> QED  BY <2>2 DEF Contract!Next
  <1>2. CASE Check
    <2>1. CASE step' = "probe"
      <3>1. Running /\ UNCHANGED file  BY <1>2, <2>1 DEF Check
      <3> QED  BY <1>e, <3>1
    <2>2. CASE step' # "probe"
      <3>1. \/ request.deferrable /\ lock = "busy" /\ result' = "deferred"
            \/ result' = "failed"
        BY <1>2, <2>2 DEF Check, Return, IsFileBusyForWrite
      <3>2. Returns /\ UNCHANGED request  BY <1>2, <2>2 DEF Check, Return
      <3>3. Contract!Postpone \/ Contract!Fail
        BY <1>f, <3>1, <3>2 DEF Contract!Postpone, Contract!Fail
      <3> QED  BY <3>3 DEF Contract!Next
    <2> QED  BY <2>1, <2>2
  <1>3. CASE Probe \/ Answer \/ Receive \/ EndReply \/ Reject
    <2>1. Running
      BY <1>3, <1>a DEF Probe, Answer, Receive, EndReply, Reject, NextAttempt, TypeOK
    <2>2. file' # file => lock # "busy"
      <3>1. lock = "busy" => ~open  BY DEF IInv, Stream
      <3> QED  BY <1>3, <1>a, <3>1 DEF Probe, Answer, Receive, EndReply, Reject, TypeOK,
                 NextAttempt, IsFileBusyForWrite
    <2> QED  BY <1>d, <1>e, <2>1, <2>2 DEF Contract!Next
  <1>4. CASE Accept
    <2>1. /\ Returns /\ result' = "ok" /\ UNCHANGED request
          /\ Verifies /\ size = Length[url] /\ (Length[url] > 0 => Held = Length[url])
      BY <1>4, <1>a DEF Accept, Return, Sized
    <2>2. Fits(file, request.url)  BY <2>1 DEF Verifies, Fits, Held, url
    <2>3. request.listed # NoEntry => file = Copy(request.listed)
      BY <2>1 DEF Verifies, listed
    <2>4. Contract!Deliver  BY <1>f, <2>1, <2>2, <2>3 DEF Contract!Deliver
    <2> QED  BY <2>4 DEF Contract!Next
  <1>5. CASE Finish
    <2>1. \/ request.deferrable /\ lock = "busy" /\ result' = "deferred"
          \/ result' = "failed"
      BY <1>5 DEF Finish, Return, IsFileBusyForWrite
    <2>2. Returns /\ UNCHANGED request  BY <1>5 DEF Finish, Return
    <2>3. Contract!Postpone \/ Contract!Fail
      BY <1>f, <2>1, <2>2 DEF Contract!Postpone, Contract!Fail
    <2> QED  BY <2>3 DEF Contract!Next
  <1>6. CASE Kill
    <2>1. Contract!Fail  BY <1>6, <1>f DEF Kill, Return, Contract!Fail
    <2> QED  BY <2>1 DEF Contract!Next
  <1>7. CASE Hold
    <2>1. UNCHANGED <<file, request, step, result>>  BY <1>7 DEF Hold
    <2>2. Contract!Hold  BY <2>1 DEF Contract!Hold
    <2> QED  BY <2>2 DEF Contract!Next
  <1>8. CASE UNCHANGED vars  BY <1>8 DEF vars, Asked, Outcome, Busy
  <1> QED  BY <1>1, <1>2, <1>3, <1>4, <1>5, <1>6, <1>7, <1>8 DEF Next, CallStep

(* A call that reports success has left the content the manifest lists, a  *)
(* file changes only while a call for it runs and nobody holds it, into no *)
(* other content than that of the URL, and waits only where its caller     *)
(* allows it: the call implements its contract, for every set of contents  *)
(* (DownloadResume.cpp:135-154, 195-271, 325-366).                         *)
THEOREM CallsKeepContract == Spec => KeepsContract
  <1>1. Init => Contract!Init
    <2>1. Init => IInv  BY InitIInv
    <2> QED  BY <2>1 DEF Init, IInv, TypeOK, Contract!Init
  <1>2. IInv /\ IInv' /\ [Next]_vars => [Contract!Next]_<<file, Asked, Outcome, Busy>>
    BY StepKeepsContract
  <1> QED  BY <1>1, <1>2, Invariant, PTL
           DEF Spec, KeepsContract, Contract!Spec, Contract!vars, Asked, Outcome, Busy
-----------------------------------------------------------------------------
(* Each step of a running call, besides those of the game client, counts   *)
(* down.                                                                   *)
LEMMA StepCountsDown ==
  ASSUME IInv, [Next]_vars, step # "idle"
  PROVE  \/ step' = "idle" \/ StepsLeft' < StepsLeft
         \/ lock' # lock /\ StepsLeft' = StepsLeft
         \/ UNCHANGED vars
  <1>a. TypeOK /\ Sized  BY DEF IInv
  <1>b. Length[url] \in Nat  BY <1>a, LengthsOK DEF TypeOK, Request, url
  <1>1. CASE Check
    <2>1. step' = "idle" \/ (step' = "probe" /\ UNCHANGED <<request, attempt>>)
      BY <1>1 DEF Check, Return
    <2> QED  BY <1>1, <1>a, <1>b, <2>1 DEF Check, StepsLeft, TypeOK, url
  <1>2. CASE Probe
    <2>1. step' \in {"verify", "get"} /\ UNCHANGED <<request, attempt>>  BY <1>2 DEF Probe
    <2> QED  BY <1>2, <1>a, <1>b, <2>1 DEF Probe, StepsLeft, TypeOK, url
  <1>3. CASE Answer
    <2>1. next' \in Nat /\ next' >= 1  BY <1>3, <1>a DEF Answer, TypeOK
    <2>2. step = "get" /\ step' = "receive" /\ UNCHANGED <<request, attempt>>
      BY <1>3 DEF Answer
    <2> QED  BY <1>a, <1>b, <2>1, <2>2 DEF StepsLeft, TypeOK, url
  <1>4. CASE Receive
    <2>1. step = "receive" /\ UNCHANGED <<request, step, attempt, reply>>
      BY <1>4, Zenon DEF Receive
    <2>2. next \in Nat /\ next' = next + 1  BY <1>4, <1>a DEF Receive, TypeOK
    <2>3. reply \in {"200", "206"} \/ (reply = "error" /\ next = 1)
      BY <1>4, Zenon DEF Receive
    <2> QED  BY <1>a, <1>b, <2>1, <2>2, <2>3 DEF StepsLeft, TypeOK, url
  <1>5. CASE EndReply \/ Reject
    <2>1. /\ step \in {"receive", "verify"} /\ UNCHANGED request
          /\ \/ step = "receive" /\ step' = "verify" /\ attempt' = attempt
             \/ step' = "probe" /\ attempt = 1 /\ attempt' = 2
             \/ step' = "finish" /\ attempt' = attempt
      BY <1>5 DEF EndReply, Reject, NextAttempt
    <2>2. step = "receive" => StepsLeft >= 3 + IF attempt = 1 THEN Length[url] + 5 ELSE 0
      BY <1>a, <1>b DEF StepsLeft, Sized, TypeOK
    <2>3. step = "verify" => StepsLeft = 2 + IF attempt = 1 THEN Length[url] + 5 ELSE 0
      BY <1>a, <1>b DEF StepsLeft, TypeOK
    <2>4. url' = url  BY <2>1 DEF url
    <2> DEFINE more == IF attempt = 1 THEN Length[url] + 5 ELSE 0
    <2>5. CASE step' = "verify"
      <3>1. step = "receive" /\ attempt' = attempt  BY <2>1, <2>5
      <3>2. StepsLeft' = more + 2  BY <2>4, <2>5, <3>1, <1>b DEF StepsLeft
      <3> QED  BY <1>b, <2>2, <3>1, <3>2, <1>a DEF StepsLeft, Sized, TypeOK
    <2>6. CASE step' = "probe"
      <3>1. attempt = 1 /\ attempt' = 2  BY <2>1, <2>6
      <3>2. StepsLeft' = Length[url] + 6  BY <2>4, <2>6, <3>1, <1>b DEF StepsLeft
      <3> QED  BY <1>a, <1>b, <2>1, <2>2, <2>3, <3>1, <3>2 DEF StepsLeft, Sized, TypeOK
    <2>7. CASE step' = "finish"
      <3>1. attempt' = attempt  BY <2>1, <2>7
      <3>2. StepsLeft' = more + 1  BY <2>4, <2>7, <3>1, <1>b DEF StepsLeft
      <3> QED  BY <1>a, <1>b, <2>1, <2>2, <2>3, <3>1, <3>2 DEF StepsLeft, Sized, TypeOK
    <2> QED  BY <2>1, <2>5, <2>6, <2>7
  <1>6. CASE Accept \/ Finish \/ Kill  BY <1>6 DEF Accept, Finish, Kill, Return
  <1>7. CASE Hold
    <2>1. lock' # lock  BY <1>7 DEF Hold
    <2>2. UNCHANGED <<request, step, attempt, reply, next>>  BY <1>7 DEF Hold, http
    <2> QED  BY <2>1, <2>2 DEF StepsLeft, url
  <1>8. CASE Begin  BY <1>8 DEF Begin
  <1> QED  BY <1>1, <1>2, <1>3, <1>4, <1>5, <1>6, <1>7, <1>8 DEF Next, CallStep

(* Whatever the server, the network and the game clients do, a call is at  *)
(* most 2 * Length + 12 of its own steps from its return: it makes two     *)
(* attempts, each of one probe and one body, and never waits for a client  *)
(* to close the file (DownloadResume.cpp:325-366).                         *)
THEOREM CallRunsOut == Spec => []Bounded /\ CountsDown
  <1>1. IInv => Bounded
    <2> SUFFICES ASSUME IInv, step # "idle" PROVE StepsLeft \in 1 .. 2 * Length[url] + 12
      BY DEF Bounded
    <2>1. TypeOK /\ Sized  BY DEF IInv
    <2>2. Length[url] \in Nat  BY <2>1, LengthsOK DEF TypeOK, Request, url
    <2>3. step = "receive" /\ reply \in {"200", "206"} => next \in 1 .. Length[url] + 1
      <3>1. offset \in Nat /\ next \in Nat  BY <2>1 DEF TypeOK
      <3> QED  BY <2>1, <2>2, <3>1 DEF IInv, Placed, Sized
    <2> QED  BY <2>1, <2>2, <2>3 DEF StepsLeft, TypeOK
  <1>2. IInv /\ [Next]_vars =>
           [step # "idle" => \/ step' = "idle" \/ StepsLeft' < StepsLeft
                             \/ lock' # lock /\ StepsLeft' = StepsLeft]_vars
    BY StepCountsDown
  <1> QED  BY <1>1, <1>2, Invariant, PTL DEF Spec, CountsDown
=============================================================================
