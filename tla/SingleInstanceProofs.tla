-------------------------- MODULE SingleInstanceProofs --------------------------
(***************************************************************************)
(* Proofs about SingleInstance, for any set of processes and any number of *)
(* attempts and waiting handlers.                                          *)
(***************************************************************************)
EXTENDS SingleInstance, TLAPS

(* The end of a process and a failed attempt keep the types.               *)
LEMMA GoneTypes ==
  ASSUME TypeOK, NEW p \in Process, Gone(p)
  PROVE  TypeOK'
  BY ConstantsOK DEF Gone, TypeOK

LEMMA FailedTypes ==
  ASSUME TypeOK, NEW p \in Process, tries[p] > 0, NEW answered \in BOOLEAN, Failed(p, answered)
  PROVE  /\ tries' \in [Process -> Nat] /\ at' \in [Process -> Process \cup {Nobody}]
         /\ served' \in [Process -> BOOLEAN]
         /\ step' \in [Process -> {"idle", "ask", "wait", "done", "recover", "kill", "killing",
                                   "take", "create", "box"}]
  BY ConstantsOK DEF Failed, TypeOK

(* One answer per request keeps the types and the attempts.                *)
LEMMA RepliesTypes ==
  ASSUME TypeOK, AttemptLeft, RequestsKept, NEW q \in Process, Replies(q)
  PROVE  /\ tries' \in [Process -> Nat] /\ at' \in [Process -> Process \cup {Nobody}]
         /\ served' \in [Process -> BOOLEAN] /\ again' \in [Process -> BOOLEAN]
         /\ step' \in [Process -> {"idle", "ask", "wait", "done", "recover", "kill", "killing",
                                   "take", "create", "box"}]
  <1>1. PICK p \in Process :
          /\ flow[q] = p
          /\ \/ at[p] = q /\ served[p] /\ Failed(p, TRUE)
             \/ /\ at[p] = q /\ served[p]
                /\ at' = [at EXCEPT ![p] = Nobody] /\ served' = [served EXCEPT ![p] = FALSE]
                /\ step' = [step EXCEPT ![p] = IF role[p] = "second" THEN "done" ELSE "idle"]
                /\ UNCHANGED tries
             \/ ~(at[p] = q /\ served[p]) /\ UNCHANGED client
          /\ UNCHANGED again
    BY DEF Replies
  <1>2. CASE at[p] = q /\ served[p] /\ Failed(p, TRUE)
    <2>1. tries[p] > 0  BY <1>2, ConstantsOK DEF RequestsKept, AttemptLeft
    <2> QED  BY <1>1, <1>2, <2>1, FailedTypes DEF TypeOK
  <1>3. CASE /\ at' = [at EXCEPT ![p] = Nobody] /\ served' = [served EXCEPT ![p] = FALSE]
             /\ step' = [step EXCEPT ![p] = IF role[p] = "second" THEN "done" ELSE "idle"]
             /\ UNCHANGED tries
    BY <1>1, <1>3 DEF TypeOK
  <1>4. CASE UNCHANGED client  BY <1>1, <1>4 DEF client, TypeOK
  <1> QED  BY <1>1, <1>2, <1>3, <1>4
-----------------------------------------------------------------------------
(* Types.  An attempt is only counted down when one is left.               *)
LEMMA TypeStep ==
  ASSUME IInv, [Next]_vars
  PROVE  TypeOK'
  <1> USE DEF IInv
  <1>1. ASSUME NEW p \in Process, Start(p) PROVE TypeOK'
    <2>1. handle' \subseteq Process  BY <1>1 DEF Start, TypeOK
    <2>2. CASE BecomesMain(p) /\ UNCHANGED tries
      BY <1>1, <2>1, <2>2 DEF Start, BecomesMain, TypeOK
    <2>3. CASE /\ role' = [role EXCEPT ![p] = "second"] /\ step' = [step EXCEPT ![p] = "ask"]
               /\ tries' = [tries EXCEPT ![p] = StartTries] /\ UNCHANGED run
      BY <1>1, <2>1, <2>3, ConstantsOK DEF Start, TypeOK
    <2> QED  BY <1>1, <2>2, <2>3 DEF Start
  <1>2. ASSUME NEW p \in Process, Ends(p) \/ Exits(p) PROVE TypeOK'
    BY <1>2, GoneTypes DEF Ends, Exits
  <1>3. ASSUME NEW p \in Process, Click(p) PROVE TypeOK'
    BY <1>3, ConstantsOK DEF Click, service, TypeOK
  <1>4. ASSUME NEW p \in Process, Ask(p) PROVE TypeOK'
    <2>1. tries[p] > 0  BY <1>4 DEF Ask, AttemptLeft
    <2>2. CASE Failed(p, FALSE) /\ UNCHANGED queue
      BY <1>4, <2>1, <2>2, FailedTypes DEF Ask, TypeOK
    <2>3. ASSUME NEW q \in Process,
                 queue' = [queue EXCEPT ![q][p] = @ + 1],
                 at' = [at EXCEPT ![p] = q] /\ step' = [step EXCEPT ![p] = "wait"],
                 UNCHANGED <<tries, served>>
          PROVE TypeOK'
      BY <1>4, <2>3 DEF Ask, TypeOK
    <2> QED  BY <1>4, <2>2, <2>3 DEF Ask
  <1>5. ASSUME NEW p \in Process, GivesUp(p) PROVE TypeOK'
    <2>1. tries[p] > 0  BY <1>5 DEF GivesUp, AttemptLeft
    <2> QED  BY <1>5, <2>1, FailedTypes DEF GivesUp, service, TypeOK
  <1>6. ASSUME NEW p \in Process, Recover(p) PROVE TypeOK'
    BY <1>6, ConstantsOK DEF Recover, RequestWebServiceRecovery, TypeOK
  <1>7. ASSUME NEW p \in Process, DismissBox(p) PROVE TypeOK'
    <2>1. CASE Gone(p)  BY <2>1, GoneTypes
    <2>2. CASE /\ step' = [step EXCEPT ![p] = "idle"]
               /\ UNCHANGED <<role, handle, targets, tries, again, at, served, service>>
      BY <2>2 DEF service, TypeOK
    <2> QED  BY <1>7, <2>1, <2>2 DEF DismissBox
  <1>8. ASSUME NEW p \in Process, Looks(p) PROVE TypeOK'
    BY <1>8 DEF Looks, service, TypeOK
  <1>9. ASSUME NEW p \in Process, Kills(p) PROVE TypeOK'
    <2>1. PICK q \in targets[p] :
            \/ Gone(q)
            \/ /\ targets' = [targets EXCEPT ![p] = @ \ {q}]
               /\ UNCHANGED <<role, handle, client, service>>
      BY <1>9 DEF Kills
    <2>2. q \in Process  BY <2>1 DEF TypeOK
    <2>3. CASE targets' = [targets EXCEPT ![p] = @ \ {q}] /\ UNCHANGED <<role, handle, client, service>>
      BY <2>3 DEF TypeOK, client, service
    <2> QED  BY <2>1, <2>2, <2>3, GoneTypes
  <1>10. ASSUME NEW p \in Process, Killed(p) PROVE TypeOK'
    BY <1>10, ConstantsOK DEF Killed, service, TypeOK
  <1>11. ASSUME NEW p \in Process, Closes(p) PROVE TypeOK'
    BY <1>11 DEF Closes, service, TypeOK
  <1>12. ASSUME NEW p \in Process, Creates(p) PROVE TypeOK'
    <2>1. tries[p] > 0  BY <1>12 DEF Creates, AttemptLeft
    <2>2. CASE handle' = {p} /\ BecomesMain(p) /\ UNCHANGED tries
      BY <1>12, <2>2 DEF Creates, BecomesMain, TypeOK
    <2>3. CASE /\ tries' = [tries EXCEPT ![p] = @ - 1]
               /\ \/ handle' = handle \cup {p} /\ step' = [step EXCEPT ![p] = "take"]
                  \/ step' = [step EXCEPT ![p] = "box"] /\ UNCHANGED handle
               /\ UNCHANGED <<role, run>>
      <3>1. tries' \in [Process -> Nat]  BY <2>1, <2>3 DEF TypeOK
      <3>2. handle' \subseteq Process  BY <2>3 DEF TypeOK
      <3>3. \E s \in {"take", "box"} : step' = [step EXCEPT ![p] = s]  BY <2>3
      <3> QED  BY <1>12, <2>3, <3>1, <3>2, <3>3 DEF Creates, TypeOK
    <2> QED  BY <1>12, <2>2, <2>3 DEF Creates
  <1>13. ASSUME NEW q \in Process, Prepares(q) \/ Listens(q) \/ Drained(q) PROVE TypeOK'
    <2>1. CASE Prepares(q)  BY <2>1 DEF Prepares, client, TypeOK
    <2>2. CASE Listens(q)  BY <2>2 DEF Listens, client, TypeOK
    <2>3. CASE Drained(q)  BY <2>3 DEF Drained, client, TypeOK
    <2> QED  BY <1>13, <2>1, <2>2, <2>3
  <1>14. ASSUME NEW q \in Process, HandlerStarts(q) PROVE TypeOK'
    <2>1. PICK p \in Process :
            /\ queue[q][p] > 0 /\ queue' = [queue EXCEPT ![q][p] = @ - 1]
            /\ flow' = [flow EXCEPT ![q] = p]
            /\ served' \in {served, [served EXCEPT ![p] = TRUE]}
      BY <1>14 DEF HandlerStarts
    <2>2. queue' \in [Process -> [Process -> Nat]]  BY <2>1 DEF TypeOK
    <2>3. served' \in [Process -> BOOLEAN]  BY <2>1 DEF TypeOK
    <2> QED  BY <1>14, <2>1, <2>2, <2>3 DEF HandlerStarts, TypeOK
  <1>15. ASSUME NEW q \in Process, HandlerEnds(q) PROVE TypeOK'
    BY <1>15, RepliesTypes DEF HandlerEnds, TypeOK
  <1>16. ASSUME NEW q \in Process,
                WorkerUpdates(q) \/ WorkerReady(q) \/ WorkerFails(q) \/ AlertDismissed(q)
         PROVE TypeOK'
    <2>1. CASE WorkerUpdates(q)  BY <2>1 DEF WorkerUpdates, client, TypeOK
    <2>2. CASE WorkerReady(q)  BY <2>2 DEF WorkerReady, client, TypeOK
    <2>3. CASE WorkerFails(q)  BY <2>3 DEF WorkerFails, client, TypeOK
    <2>4. CASE AlertDismissed(q)  BY <2>4 DEF AlertDismissed, client, TypeOK
    <2> QED  BY <1>16, <2>1, <2>2, <2>3, <2>4
  <1>17. ASSUME NEW q \in Process, Busy(q) \/ BusyEnds(q) PROVE TypeOK'
    BY <1>17 DEF Busy, BusyEnds, client, TypeOK
  <1>18. CASE UNCHANGED vars  BY <1>18 DEF vars, client, service, TypeOK
  <1> QED  BY <1>1, <1>2, <1>3, <1>4, <1>5, <1>6, <1>7, <1>8, <1>9, <1>10, <1>11, <1>12, <1>13,
              <1>14, <1>15, <1>16, <1>17, <1>18 DEF Next, Requester, Service
-----------------------------------------------------------------------------
(* What the service's steps leave alone: only an answer moves a client.    *)
LEMMA ServiceFrame ==
  ASSUME NEW q \in Process, Service(q)
  PROVE  /\ UNCHANGED <<role, handle, targets, again>>
         /\ HandlerEnds(q) \/ UNCHANGED <<step, tries, at>>
  BY DEF Service, Prepares, Listens, Drained, HandlerStarts, HandlerEnds, Replies, WorkerUpdates,
         WorkerReady, WorkerFails, AlertDismissed, Busy, BusyEnds, client

(* Where an attempt that failed, or was answered, leaves its process.      *)
LEMMA FailedStep ==
  ASSUME TypeOK, AttemptLeft, NEW p \in Process, NEW answered \in BOOLEAN, Failed(p, answered),
         step[p] \in {"ask", "wait"}
  PROVE  /\ \A o \in Process \ {p} : step'[o] = step[o] /\ tries'[o] = tries[o]
         /\ step'[p] \in {"ask", "recover", "box", "kill"}
         /\ step'[p] = "ask" => tries'[p] > 0
         /\ step'[p] = "recover" => role[p] = "main"
         /\ step'[p] = "kill" => role[p] # "main"
  BY DEF Failed, TypeOK, AttemptLeft

LEMMA AnswerStep ==
  ASSUME TypeOK, AttemptLeft, RequestsKept, NEW q \in Process, HandlerEnds(q)
  PROVE  \/ UNCHANGED <<step, tries, at, served>>
         \/ \E p \in Process :
              /\ flow[q] = p /\ at[p] = q /\ served[p] /\ step[p] = "wait"
              /\ at' = [at EXCEPT ![p] = Nobody] /\ served' = [served EXCEPT ![p] = FALSE]
              /\ \A o \in Process \ {p} : step'[o] = step[o] /\ tries'[o] = tries[o]
              /\ step'[p] \in {"idle", "done", "ask", "recover", "box", "kill"}
              /\ step'[p] = "ask" => tries'[p] > 0
              /\ step'[p] = "done" => role[p] = "second"
              /\ step'[p] = "recover" => role[p] = "main"
              /\ step'[p] = "kill" => role[p] # "main"
  <1>1. PICK p \in Process :
          /\ flow[q] = p
          /\ \/ at[p] = q /\ served[p] /\ Failed(p, TRUE)
             \/ /\ at[p] = q /\ served[p]
                /\ at' = [at EXCEPT ![p] = Nobody] /\ served' = [served EXCEPT ![p] = FALSE]
                /\ step' = [step EXCEPT ![p] = IF role[p] = "second" THEN "done" ELSE "idle"]
                /\ UNCHANGED tries
             \/ ~(at[p] = q /\ served[p]) /\ UNCHANGED client
    BY DEF HandlerEnds, Replies
  <1>2. at[p] = q => step[p] = "wait"  BY ConstantsOK DEF RequestsKept
  <1>3. CASE at[p] = q /\ served[p] /\ Failed(p, TRUE)
    <2>1. at' = [at EXCEPT ![p] = Nobody] /\ served' = [served EXCEPT ![p] = FALSE]
      BY <1>3 DEF Failed
    <2> QED  BY <1>1, <1>2, <1>3, <2>1, FailedStep
  <1>4. CASE /\ at[p] = q /\ served[p]
             /\ at' = [at EXCEPT ![p] = Nobody] /\ served' = [served EXCEPT ![p] = FALSE]
             /\ step' = [step EXCEPT ![p] = IF role[p] = "second" THEN "done" ELSE "idle"]
             /\ UNCHANGED tries
    BY <1>1, <1>2, <1>4 DEF TypeOK
  <1>5. CASE UNCHANGED client  BY <1>5 DEF client
  <1> QED  BY <1>1, <1>3, <1>4, <1>5
-----------------------------------------------------------------------------
(* Roles.  Only the mutex makes a launcher, and only a process without a   *)
(* request of its own leaves its role.                                     *)
LEMMA RolesStep ==
  ASSUME IInv, [Next]_vars
  PROVE  RolesKept'
  <1> USE DEF IInv
  <1>1. ASSUME NEW p \in Process, Start(p) PROVE RolesKept'
    <2>1. CASE BecomesMain(p)
      BY <1>1, <2>1 DEF Start, BecomesMain, TypeOK, RolesKept
    <2>2. CASE role' = [role EXCEPT ![p] = "second"] /\ step' = [step EXCEPT ![p] = "ask"]
      BY <1>1, <2>2 DEF Start, TypeOK, RolesKept
    <2> QED  BY <1>1, <2>1, <2>2 DEF Start
  <1>a. ASSUME NEW p \in Process, Gone(p) PROVE RolesKept'
    BY <1>a DEF Gone, TypeOK, RolesKept
  <1>2. ASSUME NEW p \in Process, Ends(p) \/ Exits(p) PROVE RolesKept'
    BY <1>2, <1>a DEF Ends, Exits
  <1>3. ASSUME NEW p \in Process, Click(p) PROVE RolesKept'
    BY <1>3 DEF Click, TypeOK, RolesKept
  <1>4. ASSUME NEW p \in Process, Ask(p) PROVE RolesKept'
    <2>1. CASE Failed(p, FALSE)
      <3>1. step[p] = "ask" /\ UNCHANGED <<role, handle>>  BY <1>4 DEF Ask
      <3>2. role[p] \in {"second", "main"}  BY <3>1 DEF TypeOK, RolesKept
      <3> QED  BY <2>1, <3>1, <3>2, FailedStep DEF RolesKept
    <2>2. CASE step' = [step EXCEPT ![p] = "wait"]
      BY <1>4, <2>2 DEF Ask, TypeOK, RolesKept
    <2> QED  BY <1>4, <2>1, <2>2 DEF Ask
  <1>5. ASSUME NEW p \in Process, GivesUp(p) PROVE RolesKept'
    <2>1. step[p] = "wait" /\ UNCHANGED <<role, handle>> /\ Failed(p, FALSE)  BY <1>5 DEF GivesUp
    <2>2. role[p] \in {"second", "main"}  BY <2>1 DEF TypeOK, RolesKept
    <2>3. FALSE \in BOOLEAN  OBVIOUS
    <2> QED  BY <2>1, <2>2, <2>3, FailedStep DEF RolesKept
  <1>6. ASSUME NEW p \in Process, Recover(p) PROVE RolesKept'
    BY <1>6 DEF Recover, RequestWebServiceRecovery, TypeOK, RolesKept
  <1>7. ASSUME NEW p \in Process, DismissBox(p) PROVE RolesKept'
    <2>1. CASE role[p] = "main" /\ step' = [step EXCEPT ![p] = "idle"] /\ UNCHANGED <<role, handle>>
      BY <2>1 DEF TypeOK, RolesKept
    <2> QED  BY <1>7, <1>a, <2>1 DEF DismissBox
  <1>8. ASSUME NEW p \in Process, Looks(p) \/ Killed(p) PROVE RolesKept'
    BY <1>8 DEF Looks, Killed, TypeOK, RolesKept
  <1>9. ASSUME NEW p \in Process, Kills(p) PROVE RolesKept'
    <2>1. PICK q \in targets[p] : Gone(q) \/ UNCHANGED <<role, handle, client>>
      BY <1>9 DEF Kills
    <2>2. q \in Process  BY <2>1 DEF TypeOK
    <2>3. CASE UNCHANGED <<role, handle, client>>  BY <2>3 DEF client, RolesKept
    <2> QED  BY <1>a, <2>1, <2>2, <2>3
  <1>10. ASSUME NEW p \in Process, Closes(p) PROVE RolesKept'
    BY <1>10 DEF Closes, TypeOK, RolesKept
  <1>11. ASSUME NEW p \in Process, Creates(p) PROVE RolesKept'
    <2>1. CASE handle = {} /\ handle' = {p} /\ BecomesMain(p)
      BY <1>11, <2>1 DEF BecomesMain, TypeOK, RolesKept
    <2>2. CASE /\ \/ handle' = handle \cup {p} /\ step' = [step EXCEPT ![p] = "take"]
                  \/ step' = [step EXCEPT ![p] = "box"] /\ UNCHANGED handle
               /\ UNCHANGED role
      <3>1. role[p] = "second"  BY <1>11 DEF Creates, RolesKept
      <3> QED  BY <2>2, <3>1 DEF TypeOK, RolesKept
    <2> QED  BY <1>11, <2>1, <2>2 DEF Creates
  <1>12. ASSUME NEW q \in Process, Service(q) PROVE RolesKept'
    <2>1. CASE UNCHANGED step  BY <1>12, <2>1, ServiceFrame DEF RolesKept
    <2>2. CASE HandlerEnds(q)
      <3>1. UNCHANGED <<role, handle>>  BY <1>12, ServiceFrame
      <3>2. CASE UNCHANGED step  BY <3>1, <3>2 DEF RolesKept
      <3>3. CASE step' # step
        <4>1. PICK p \in Process :
                /\ step[p] = "wait" /\ \A o \in Process \ {p} : step'[o] = step[o]
                /\ step'[p] \in {"idle", "done", "ask", "recover", "box", "kill"}
                /\ step'[p] = "done" => role[p] = "second"
                /\ step'[p] = "recover" => role[p] = "main"
                /\ step'[p] = "kill" => role[p] # "main"
          BY <2>2, <3>3, AnswerStep
        <4>2. role[p] \in {"second", "main"}  BY <4>1 DEF TypeOK, RolesKept
        <4> QED  BY <3>1, <4>1, <4>2 DEF RolesKept
      <3> QED  BY <3>2, <3>3
    <2> QED  BY <1>12, <2>1, <2>2, ServiceFrame
  <1>13. CASE UNCHANGED vars  BY <1>13 DEF vars, client, RolesKept
  <1> QED  BY <1>1, <1>2, <1>3, <1>4, <1>5, <1>6, <1>7, <1>8, <1>9, <1>10, <1>11, <1>12, <1>13
              DEF Next, Requester

(* Attempts.  An attempt that fails leaves one more, or ends the request.  *)
LEMMA AttemptStep ==
  ASSUME IInv, [Next]_vars
  PROVE  AttemptLeft'
  <1> USE DEF IInv
  <1>a. ASSUME NEW p \in Process, Gone(p) PROVE AttemptLeft'
    BY <1>a DEF Gone, TypeOK, AttemptLeft
  <1>1. ASSUME NEW p \in Process, Start(p) PROVE AttemptLeft'
    <2>1. CASE BecomesMain(p) /\ UNCHANGED tries
      BY <2>1 DEF BecomesMain, TypeOK, AttemptLeft
    <2>2. CASE /\ step' = [step EXCEPT ![p] = "ask"]
               /\ tries' = [tries EXCEPT ![p] = StartTries]
      BY <2>2, ConstantsOK DEF TypeOK, AttemptLeft
    <2> QED  BY <1>1, <2>1, <2>2 DEF Start
  <1>2. ASSUME NEW p \in Process, Ends(p) \/ Exits(p) PROVE AttemptLeft'
    BY <1>2, <1>a DEF Ends, Exits
  <1>3. ASSUME NEW p \in Process, Click(p) PROVE AttemptLeft'
    BY <1>3, ConstantsOK DEF Click, TypeOK, AttemptLeft
  <1>4. ASSUME NEW p \in Process, Ask(p) PROVE AttemptLeft'
    <2>1. step[p] = "ask"  BY <1>4 DEF Ask
    <2>2. CASE Failed(p, FALSE)  BY <2>1, <2>2, FailedStep DEF AttemptLeft
    <2>3. CASE step' = [step EXCEPT ![p] = "wait"] /\ UNCHANGED tries
      BY <2>1, <2>3 DEF TypeOK, AttemptLeft
    <2> QED  BY <1>4, <2>2, <2>3 DEF Ask
  <1>5. ASSUME NEW p \in Process, GivesUp(p) PROVE AttemptLeft'
    BY <1>5, FailedStep DEF GivesUp, AttemptLeft
  <1>6. ASSUME NEW p \in Process, Recover(p) PROVE AttemptLeft'
    BY <1>6, ConstantsOK DEF Recover, RequestWebServiceRecovery, TypeOK, AttemptLeft
  <1>7. ASSUME NEW p \in Process, DismissBox(p) PROVE AttemptLeft'
    BY <1>7, <1>a DEF DismissBox, TypeOK, AttemptLeft
  <1>8. ASSUME NEW p \in Process, Looks(p) PROVE AttemptLeft'
    BY <1>8 DEF Looks, TypeOK, AttemptLeft
  <1>9. ASSUME NEW p \in Process, Kills(p) PROVE AttemptLeft'
    <2>1. PICK q \in targets[p] : Gone(q) \/ UNCHANGED client
      BY <1>9 DEF Kills
    <2>2. q \in Process  BY <2>1 DEF TypeOK
    <2>3. CASE UNCHANGED client  BY <2>3 DEF client, AttemptLeft
    <2> QED  BY <1>a, <2>1, <2>2, <2>3
  <1>10. ASSUME NEW p \in Process, Killed(p) PROVE AttemptLeft'
    BY <1>10, ConstantsOK DEF Killed, TypeOK, AttemptLeft
  <1>11. ASSUME NEW p \in Process, Closes(p) PROVE AttemptLeft'
    BY <1>11 DEF Closes, TypeOK, AttemptLeft
  <1>12. ASSUME NEW p \in Process, Creates(p) PROVE AttemptLeft'
    <2>1. CASE BecomesMain(p) /\ UNCHANGED tries
      BY <2>1 DEF BecomesMain, TypeOK, AttemptLeft
    <2>2. CASE /\ tries' = [tries EXCEPT ![p] = @ - 1]
               /\ \/ tries[p] > 1 /\ step' = [step EXCEPT ![p] = "take"]
                  \/ step' = [step EXCEPT ![p] = "box"]
      BY <2>2 DEF TypeOK, AttemptLeft
    <2> QED  BY <1>12, <2>1, <2>2 DEF Creates
  <1>13. ASSUME NEW q \in Process, Service(q) PROVE AttemptLeft'
    <2>1. CASE UNCHANGED <<step, tries, at>>  BY <2>1 DEF AttemptLeft
    <2>2. CASE HandlerEnds(q)  BY <2>2, AnswerStep DEF AttemptLeft
    <2> QED  BY <1>13, <2>1, <2>2, ServiceFrame
  <1>14. CASE UNCHANGED vars  BY <1>14 DEF vars, client, AttemptLeft
  <1> QED  BY <1>1, <1>2, <1>3, <1>4, <1>5, <1>6, <1>7, <1>8, <1>9, <1>10, <1>11, <1>12, <1>13,
              <1>14 DEF Next, Requester

(* The service belongs to the launcher: flow is released by its owner, and *)
(* a handler only waits at a listener.                                     *)
LEMMA ServiceStep ==
  ASSUME IInv, [Next]_vars
  PROVE  ServiceOwned'
  <1> USE DEF IInv
  <1>a. ASSUME NEW p \in Process, Gone(p) PROVE ServiceOwned'
    BY <1>a DEF Gone, TypeOK, ServiceOwned
  <1>b. ASSUME UNCHANGED <<worker, listener, flow, queue>>,
               \A q \in Process : role[q] = "main" => role'[q] = "main"
        PROVE  ServiceOwned'
    BY <1>b DEF ServiceOwned
  <1>1. ASSUME NEW p \in Process, Start(p) PROVE ServiceOwned'
    BY <1>1, <1>b DEF Start, BecomesMain, TypeOK
  <1>2. ASSUME NEW p \in Process, Ends(p) \/ Exits(p) PROVE ServiceOwned'
    BY <1>2, <1>a DEF Ends, Exits
  <1>3. ASSUME NEW p \in Process,
               Click(p) \/ GivesUp(p) \/ Looks(p) \/ Killed(p) \/ Closes(p)
        PROVE  ServiceOwned'
    BY <1>3, <1>b DEF Click, GivesUp, Looks, Killed, Closes, service
  <1>4. ASSUME NEW p \in Process, Ask(p) PROVE ServiceOwned'
    <2>1. CASE UNCHANGED queue  BY <1>4, <1>b, <2>1 DEF Ask
    <2>2. ASSUME NEW q \in Process, listener[q] = "up",
                 queue' = [queue EXCEPT ![q][p] = @ + 1]
          PROVE ServiceOwned'
      <3>1. UNCHANGED <<role, worker, listener, flow>>  BY <1>4 DEF Ask
      <3>2. role[q] = "main"  BY <2>2 DEF ServiceOwned
      <3>3. \A r \in Process \ {q} : queue'[r] = queue[r]  BY <2>2 DEF TypeOK
      <3> QED  BY <3>1, <3>2, <3>3 DEF ServiceOwned
    <2> QED  BY <1>4, <2>1, <2>2 DEF Ask
  <1>5. ASSUME NEW p \in Process, Recover(p) PROVE ServiceOwned'
    BY <1>5 DEF Recover, RequestWebServiceRecovery, TypeOK, ServiceOwned
  <1>6. ASSUME NEW p \in Process, DismissBox(p) PROVE ServiceOwned'
    BY <1>6, <1>a, <1>b DEF DismissBox, service
  <1>7. ASSUME NEW p \in Process, Kills(p) PROVE ServiceOwned'
    <2>1. PICK q \in targets[p] : Gone(q) \/ UNCHANGED <<role, service>>
      BY <1>7 DEF Kills
    <2>2. q \in Process  BY <2>1 DEF TypeOK
    <2>3. CASE UNCHANGED <<role, service>>  BY <1>b, <2>3 DEF service
    <2> QED  BY <1>a, <2>1, <2>2, <2>3
  <1>8. ASSUME NEW p \in Process, Creates(p) PROVE ServiceOwned'
    BY <1>8, <1>b DEF Creates, BecomesMain, TypeOK
  <1>9. ASSUME NEW q \in Process, Prepares(q) PROVE ServiceOwned'
    BY <1>9 DEF Prepares, TypeOK, ServiceOwned
  <1>10. ASSUME NEW q \in Process, Listens(q) \/ Drained(q) PROVE ServiceOwned'
    <2>1. listener[q] # "down"  BY <1>10 DEF Listens, Drained
    <2>2. role[q] = "main"  BY <2>1 DEF ServiceOwned
    <2>3. PICK to : listener' = [listener EXCEPT ![q] = to]  BY <1>10 DEF Listens, Drained
    <2>4. UNCHANGED <<role, worker, flow, queue>>  BY <1>10 DEF Listens, Drained
    <2> QED  BY <2>2, <2>3, <2>4 DEF TypeOK, ServiceOwned
  <1>11. ASSUME NEW q \in Process, HandlerStarts(q) PROVE ServiceOwned'
    <2>1. PICK p \in Process :
            /\ queue[q][p] > 0 /\ queue' = [queue EXCEPT ![q][p] = @ - 1]
            /\ flow' = [flow EXCEPT ![q] = p]
      BY <1>11 DEF HandlerStarts
    <2>2. flow[q] = "free" /\ UNCHANGED <<role, worker, listener>>  BY <1>11 DEF HandlerStarts
    <2>3. role[q] = "main"  BY <2>1 DEF ServiceOwned
    <2>4. worker[q] # "update"  BY <2>2 DEF ServiceOwned
    <2>5. \A r \in Process \ {q} : queue'[r] = queue[r] /\ flow'[r] = flow[r]
      BY <2>1 DEF TypeOK
    <2> QED  BY <2>2, <2>3, <2>4, <2>5 DEF ServiceOwned
  <1>12. ASSUME NEW q \in Process, HandlerEnds(q) PROVE ServiceOwned'
    <2>1. flow[q] \in Process  BY <1>12 DEF HandlerEnds, Replies
    <2>2. worker[q] # "update"  BY <2>1, ConstantsOK DEF ServiceOwned
    <2>3. flow' = [flow EXCEPT ![q] = "free"] /\ UNCHANGED <<role, worker, listener, queue>>
      BY <1>12 DEF HandlerEnds
    <2> QED  BY <2>2, <2>3 DEF TypeOK, ServiceOwned
  <1>13. ASSUME NEW q \in Process, WorkerUpdates(q) PROVE ServiceOwned'
    BY <1>13 DEF WorkerUpdates, TypeOK, ServiceOwned
  <1>14. ASSUME NEW q \in Process, WorkerReady(q) PROVE ServiceOwned'
    BY <1>14 DEF WorkerReady, TypeOK, ServiceOwned
  <1>15. ASSUME NEW q \in Process, WorkerFails(q) PROVE ServiceOwned'
    BY <1>15 DEF WorkerFails, TypeOK, ServiceOwned
  <1>16. ASSUME NEW q \in Process, AlertDismissed(q) PROVE ServiceOwned'
    BY <1>16 DEF AlertDismissed, TypeOK, ServiceOwned
  <1>17. ASSUME NEW q \in Process, Busy(q) PROVE ServiceOwned'
    BY <1>17 DEF Busy, TypeOK, ServiceOwned
  <1>18. ASSUME NEW q \in Process, BusyEnds(q) PROVE ServiceOwned'
    BY <1>18 DEF BusyEnds, TypeOK, ServiceOwned
  <1>19. CASE UNCHANGED vars  BY <1>19, <1>b DEF vars, service
  <1> QED  BY <1>1, <1>2, <1>3, <1>4, <1>5, <1>6, <1>7, <1>8, <1>9, <1>10, <1>11, <1>12, <1>13,
              <1>14, <1>15, <1>16, <1>17, <1>18, <1>19 DEF Next, Requester, Service

(* A process is served for the request it waits for.                       *)
LEMMA ServedStep ==
  ASSUME IInv, [Next]_vars
  PROVE  ServedWaits'
  <1> USE DEF IInv
  <1>a. ASSUME UNCHANGED <<at, served>> PROVE ServedWaits'
    BY <1>a DEF ServedWaits
  <1>b. ASSUME NEW p \in Process, Gone(p) PROVE ServedWaits'
    BY <1>b DEF Gone, TypeOK, ServedWaits
  <1>c. ASSUME NEW p \in Process,
               at' = [at EXCEPT ![p] = Nobody], served' = [served EXCEPT ![p] = FALSE]
        PROVE  ServedWaits'
    BY <1>c DEF TypeOK, ServedWaits
  <1>1. ASSUME NEW p \in Process, Requester(p) PROVE ServedWaits'
    <2>1. CASE Ends(p) \/ Exits(p) \/ DismissBox(p)
      BY <1>a, <1>b, <2>1 DEF Ends, Exits, DismissBox
    <2>2. CASE Ask(p)
      <3>1. CASE Failed(p, FALSE)  BY <1>c, <3>1 DEF Failed
      <3>2. ASSUME NEW q \in Process, at' = [at EXCEPT ![p] = q], UNCHANGED served
            PROVE  ServedWaits'
        BY <3>2, ConstantsOK DEF TypeOK, ServedWaits
      <3> QED  BY <2>2, <3>1, <3>2 DEF Ask
    <2>3. CASE GivesUp(p)  BY <1>c, <2>3 DEF GivesUp, Failed
    <2>4. CASE Kills(p)
      <3>1. PICK q \in targets[p] : Gone(q) \/ UNCHANGED client  BY <2>4 DEF Kills
      <3>2. q \in Process  BY <3>1 DEF TypeOK
      <3> QED  BY <1>a, <1>b, <3>1, <3>2 DEF client
    <2>5. CASE \/ Start(p) \/ Click(p) \/ Recover(p) \/ Looks(p) \/ Killed(p) \/ Closes(p)
               \/ Creates(p)
      BY <1>a, <2>5 DEF Start, Click, Recover, RequestWebServiceRecovery, Looks, Killed, Closes, Creates
    <2> QED  BY <1>1, <2>1, <2>2, <2>3, <2>4, <2>5 DEF Requester
  <1>2. ASSUME NEW q \in Process, Service(q) PROVE ServedWaits'
    <2>1. CASE HandlerStarts(q)
      <3>1. CASE UNCHANGED served  BY <1>a, <2>1, <3>1 DEF HandlerStarts
      <3>2. ASSUME NEW p \in Process, at[p] = q, served' = [served EXCEPT ![p] = TRUE]
            PROVE  ServedWaits'
        BY <2>1, <3>2, ConstantsOK DEF HandlerStarts, TypeOK, ServedWaits
      <3> QED  BY <2>1, <3>1, <3>2 DEF HandlerStarts
    <2>2. CASE HandlerEnds(q)  BY <1>a, <1>c, <2>2, AnswerStep
    <2>3. CASE UNCHANGED <<at, served>>  BY <1>a, <2>3
    <2> QED  BY <1>2, <2>1, <2>2, <2>3 DEF Service, Prepares, Listens, Drained, WorkerUpdates,
                WorkerReady, WorkerFails, AlertDismissed, Busy, BusyEnds, client
  <1>3. CASE UNCHANGED vars  BY <1>a, <1>3 DEF vars, client
  <1> QED  BY <1>1, <1>2, <1>3 DEF Next

(* Requests.  A process that waits is in the queue of its launcher or has  *)
(* the mutex there, until it is answered, gives up, or one of both ends.   *)
LEMMA RequestsStep ==
  ASSUME IInv, [Next]_vars
  PROVE  RequestsKept'
  <1> USE DEF IInv
  <1>a. ASSUME NEW p \in Process, Gone(p) PROVE RequestsKept'
    <2>1. \A o \in Process : at'[o] # Nobody =>
            /\ at'[o] = at[o] /\ at[o] # p /\ o # p
            /\ step'[o] = step[o] /\ served'[o] = served[o]
      BY <1>a DEF Gone, TypeOK
    <2>2. \A q \in Process \ {p} : flow'[q] = flow[q] /\ queue'[q] = queue[q]
      BY <1>a DEF Gone, TypeOK
    <2> QED  BY <2>1, <2>2 DEF RequestsKept, TypeOK
  <1>b. ASSUME NEW p \in Process, at[p] = Nobody, UNCHANGED <<at, served, flow, queue>>,
               \A o \in Process \ {p} : step'[o] = step[o]
        PROVE  RequestsKept'
    BY <1>b DEF RequestsKept
  <1>c. \A p \in Process : step[p] # "wait" => at[p] = Nobody
    BY DEF RequestsKept
  <1>d. ASSUME NEW p \in Process, NEW answered \in BOOLEAN, Failed(p, answered),
               UNCHANGED <<flow, queue>>
        PROVE  RequestsKept'
    <2>1. \A o \in Process : at'[o] # Nobody =>
            o # p /\ at'[o] = at[o] /\ step'[o] = step[o] /\ served'[o] = served[o]
      BY <1>d DEF Failed, TypeOK
    <2> QED  BY <1>d, <2>1 DEF RequestsKept
  <1>1. ASSUME NEW p \in Process, Start(p) PROVE RequestsKept'
    <2>1. at[p] = Nobody  BY <1>1, <1>c DEF Start, RolesKept
    <2>2. \A o \in Process \ {p} : step'[o] = step[o]  BY <1>1 DEF Start, BecomesMain, TypeOK
    <2> QED  BY <1>1, <1>b, <2>1, <2>2 DEF Start
  <1>2. ASSUME NEW p \in Process, Ends(p) \/ Exits(p) PROVE RequestsKept'
    BY <1>2, <1>a DEF Ends, Exits
  <1>3. ASSUME NEW p \in Process, Click(p) \/ Looks(p) \/ Killed(p) \/ Closes(p)
        PROVE  RequestsKept'
    <2>1. step[p] # "wait"  BY <1>3 DEF Click, Looks, Killed, Closes
    <2>2. \A o \in Process \ {p} : step'[o] = step[o]
      BY <1>3 DEF Click, Looks, Killed, Closes, TypeOK
    <2> QED  BY <1>3, <1>b, <1>c, <2>1, <2>2 DEF Click, Looks, Killed, Closes, service
  <1>4. ASSUME NEW p \in Process, Ask(p) PROVE RequestsKept'
    <2>1. step[p] = "ask" /\ UNCHANGED flow  BY <1>4 DEF Ask
    <2>2. CASE Failed(p, FALSE) /\ UNCHANGED queue  BY <1>d, <2>1, <2>2
    <2>3. ASSUME NEW q \in Process, queue' = [queue EXCEPT ![q][p] = @ + 1],
                 at' = [at EXCEPT ![p] = q], step' = [step EXCEPT ![p] = "wait"],
                 UNCHANGED served
          PROVE RequestsKept'
      <3>1. queue'[q][p] > 0  BY <2>3 DEF TypeOK
      <3>2. \A r, o \in Process : queue[r][o] > 0 => queue'[r][o] > 0  BY <2>3 DEF TypeOK
      <3>3. ~served[p]  BY <1>c, <2>1 DEF ServedWaits
      <3> QED  BY <2>1, <2>3, <3>1, <3>2, <3>3 DEF RequestsKept, TypeOK
    <2> QED  BY <1>4, <2>2, <2>3 DEF Ask
  <1>5. ASSUME NEW p \in Process, GivesUp(p) PROVE RequestsKept'
    BY <1>5, <1>d DEF GivesUp, service
  <1>6. ASSUME NEW p \in Process, Recover(p) PROVE RequestsKept'
    <2>1. \A o \in Process \ {p} : step'[o] = step[o]  BY <1>6 DEF Recover, RequestWebServiceRecovery, TypeOK
    <2> QED  BY <1>6, <1>b, <1>c, <2>1 DEF Recover, RequestWebServiceRecovery
  <1>7. ASSUME NEW p \in Process, DismissBox(p) PROVE RequestsKept'
    <2>1. CASE step' = [step EXCEPT ![p] = "idle"] /\ UNCHANGED <<at, served, service>>
      <3>1. \A o \in Process \ {p} : step'[o] = step[o]  BY <2>1 DEF TypeOK
      <3> QED  BY <1>7, <1>b, <1>c, <2>1, <3>1 DEF DismissBox, service
    <2> QED  BY <1>7, <1>a, <2>1 DEF DismissBox
  <1>8. ASSUME NEW p \in Process, Kills(p) PROVE RequestsKept'
    <2>1. PICK q \in targets[p] : Gone(q) \/ UNCHANGED <<client, service>>
      BY <1>8 DEF Kills
    <2>2. q \in Process  BY <2>1 DEF TypeOK
    <2>3. CASE UNCHANGED <<client, service>>  BY <2>3 DEF client, service, RequestsKept
    <2> QED  BY <1>a, <2>1, <2>2, <2>3
  <1>9. ASSUME NEW p \in Process, Creates(p) PROVE RequestsKept'
    <2>1. \A o \in Process \ {p} : step'[o] = step[o]  BY <1>9 DEF Creates, BecomesMain, TypeOK
    <2> QED  BY <1>9, <1>b, <1>c, <2>1 DEF Creates
  <1>10. ASSUME NEW q \in Process, HandlerStarts(q) PROVE RequestsKept'
    <2>1. PICK p \in Process :
            /\ queue[q][p] > 0 /\ queue' = [queue EXCEPT ![q][p] = @ - 1]
            /\ flow' = [flow EXCEPT ![q] = p]
            /\ \/ at[p] = q /\ ~served[p] /\ served' = [served EXCEPT ![p] = TRUE]
               \/ (at[p] = q /\ ~served[p] => queue[q][p] > 1) /\ UNCHANGED served
      BY <1>10 DEF HandlerStarts
    <2>2. flow[q] = "free" /\ UNCHANGED <<step, at>>  BY <1>10 DEF HandlerStarts
    <2>3. \A r, o \in Process : r # q \/ o # p => queue'[r][o] = queue[r][o]  BY <2>1 DEF TypeOK
    <2>4. queue'[q][p] = queue[q][p] - 1 /\ queue[q][p] \in Nat  BY <2>1 DEF TypeOK
    <2>5. \A r \in Process : flow'[r] = IF r = q THEN p ELSE flow[r]  BY <2>1 DEF TypeOK
    <2>6. \A o \in Process \ {p} : served'[o] = served[o]  BY <2>1 DEF TypeOK
    <2>7. \A o \in Process : at[o] = q => ~served[o]  BY <2>2, ConstantsOK DEF RequestsKept
    <2>8. ASSUME NEW o \in Process, at[o] # Nobody
          PROVE  /\ step[o] = "wait"
                 /\ IF served'[o] THEN flow'[at[o]] = o ELSE queue'[at[o]][o] > 0
      <3>1. at[o] \in Process  BY <2>8 DEF TypeOK
      <3>2. step[o] = "wait" /\ IF served[o] THEN flow[at[o]] = o ELSE queue[at[o]][o] > 0
        BY <2>8 DEF RequestsKept
      <3>3. CASE o = p /\ at[o] = q
        <4>1. CASE served' = [served EXCEPT ![p] = TRUE]
          BY <2>5, <3>2, <3>3, <4>1 DEF TypeOK
        <4>2. CASE (at[p] = q /\ ~served[p] => queue[q][p] > 1) /\ UNCHANGED served
          BY <2>4, <2>7, <3>2, <3>3, <4>2
        <4> QED  BY <2>1, <4>1, <4>2
      <3>4. CASE o # p \/ at[o] # q
        <4>1. served'[o] = served[o]  BY <2>1, <2>6, <3>4
        <4>2. CASE at[o] = q  BY <2>3, <2>7, <3>1, <3>2, <3>4, <4>1, <4>2
        <4>3. CASE at[o] # q  BY <2>3, <2>5, <3>1, <3>2, <4>1, <4>3
        <4> QED  BY <4>2, <4>3
      <3> QED  BY <3>3, <3>4
    <2> QED  BY <2>2, <2>8 DEF RequestsKept
  <1>11. ASSUME NEW q \in Process, HandlerEnds(q) PROVE RequestsKept'
    <2>1. PICK p \in Process :
            /\ flow[q] = p
            /\ \/ /\ at' = [at EXCEPT ![p] = Nobody] /\ served' = [served EXCEPT ![p] = FALSE]
                  /\ step' = [step EXCEPT ![p] = step'[p]]
               \/ ~(at[p] = q /\ served[p]) /\ UNCHANGED <<at, served, step>>
      BY <1>11 DEF HandlerEnds, Replies, Failed, client, TypeOK
    <2>2. flow' = [flow EXCEPT ![q] = "free"] /\ UNCHANGED queue  BY <1>11 DEF HandlerEnds
    <2>3. \A r \in Process \ {q} : flow'[r] = flow[r]  BY <2>2 DEF TypeOK
    <2>4. \A o \in Process : at'[o] # Nobody =>
            /\ at'[o] = at[o] /\ served'[o] = served[o] /\ step'[o] = step[o]
            /\ ~(at[o] = q /\ served[o])
      <3>1. \A o \in Process : at[o] = q /\ served[o] => o = p
        BY <2>1, ConstantsOK DEF RequestsKept
      <3> QED  BY <2>1, <3>1 DEF TypeOK
    <2> QED  BY <2>2, <2>3, <2>4 DEF RequestsKept, TypeOK
  <1>12. ASSUME NEW q \in Process, Prepares(q) \/ Listens(q) \/ Drained(q) \/ WorkerFails(q)
         PROVE RequestsKept'
    BY <1>12 DEF Prepares, Listens, Drained, WorkerFails, client, RequestsKept
  <1>13. ASSUME NEW q \in Process,
                \/ WorkerUpdates(q) \/ WorkerReady(q) \/ AlertDismissed(q)
                \/ Busy(q) \/ BusyEnds(q)
         PROVE RequestsKept'
    <2>1. UNCHANGED <<client, queue>>
      BY <1>13 DEF WorkerUpdates, WorkerReady, AlertDismissed, Busy, BusyEnds
    <2>2. flow[q] \in Process => flow'[q] = flow[q]
      BY <1>13, ConstantsOK DEF WorkerUpdates, WorkerReady, AlertDismissed, Busy, BusyEnds,
         ServiceOwned, TypeOK
    <2>3. \A r \in Process \ {q} : flow'[r] = flow[r]
      BY <1>13 DEF WorkerUpdates, WorkerReady, AlertDismissed, Busy, BusyEnds, TypeOK
    <2> QED  BY <2>1, <2>2, <2>3 DEF client, RequestsKept, TypeOK
  <1>14. CASE UNCHANGED vars  BY <1>14 DEF vars, client, service, RequestsKept
  <1> QED  BY <1>1, <1>2, <1>3, <1>4, <1>5, <1>6, <1>7, <1>8, <1>9, <1>10, <1>11, <1>12, <1>13,
              <1>14 DEF Next, Requester, Service
-----------------------------------------------------------------------------
(* One launcher.  Who becomes it found no handle at all, and the launcher  *)
(* keeps its own.                                                          *)
LEMMA OneMainStep ==
  ASSUME IInv, [Next]_vars
  PROVE  OneMain'
  <1> USE DEF IInv
  <1>1. ASSUME \A p \in Process : role'[p] = "main" => role[p] = "main"
        PROVE  OneMain'
    BY <1>1 DEF OneMain
  <1>2. ASSUME NEW p \in Process, handle = {}, BecomesMain(p)
        PROVE  OneMain'
    <2>1. \A q \in Process : role[q] # "main"  BY <1>2 DEF RolesKept
    <2> QED  BY <1>2, <2>1 DEF BecomesMain, OneMain, TypeOK
  <1>3. ASSUME NEW p \in Process, Gone(p) PROVE OneMain'
    BY <1>1, <1>3 DEF Gone, TypeOK
  <1>4. ASSUME NEW p \in Process, Requester(p) PROVE OneMain'
    <2>1. CASE Start(p)  BY <1>1, <1>2, <2>1 DEF Start, TypeOK
    <2>2. CASE Ends(p) \/ Exits(p) \/ DismissBox(p)
      BY <1>1, <1>3, <2>2 DEF Ends, Exits, DismissBox
    <2>3. CASE Kills(p)
      <3>1. PICK q \in targets[p] : Gone(q) \/ UNCHANGED role  BY <2>3 DEF Kills
      <3>2. q \in Process  BY <3>1 DEF TypeOK
      <3> QED  BY <1>1, <1>3, <3>1, <3>2
    <2>4. CASE Creates(p)  BY <1>1, <1>2, <2>4 DEF Creates
    <2>5. CASE \/ Click(p) \/ Ask(p) \/ GivesUp(p) \/ Recover(p) \/ Looks(p) \/ Killed(p)
               \/ Closes(p)
      BY <1>1, <2>5 DEF Click, Ask, GivesUp, Recover, RequestWebServiceRecovery, Looks, Killed, Closes
    <2> QED  BY <1>4, <2>1, <2>2, <2>3, <2>4, <2>5 DEF Requester
  <1>5. ASSUME NEW q \in Process, Service(q) PROVE OneMain'
    BY <1>1, <1>5, ServiceFrame
  <1>6. CASE UNCHANGED vars  BY <1>1, <1>6 DEF vars
  <1> QED  BY <1>4, <1>5, <1>6 DEF Next
-----------------------------------------------------------------------------
(* The inductive invariant of the launcher processes.                      *)
THEOREM Invariant == Spec => []IInv
  <1>1. Init => IInv
    BY ConstantsOK DEF Init, IInv, TypeOK, RolesKept, AttemptLeft, ServiceOwned,
       ServedWaits, RequestsKept, OneMain
  <1>2. IInv /\ [Next]_vars => IInv'
    BY TypeStep, RolesStep, AttemptStep, ServiceStep, ServedStep, RequestsStep,
       OneMainStep DEF IInv
  <1> QED  BY <1>1, <1>2, PTL DEF Spec

(* Type correctness: attempts are counted down to zero at most.            *)
THEOREM TypeCorrect == Spec => []TypeOK
  <1>1. IInv => TypeOK  BY DEF IInv
  <1> QED  BY <1>1, Invariant, PTL

(* There is never a second launcher (AcquireSingleInstanceMutexWithRetry   *)
(* and the takeover of wWinMain).                                          *)
THEOREM OneLauncher == Spec => []OneMain
  <1>1. IInv => OneMain  BY DEF IInv
  <1> QED  BY <1>1, Invariant, PTL
-----------------------------------------------------------------------------
(* The way of a request to its end.                                        *)

\* A request under way is not set back.
GoesOn(p) == step[p] \notin {"idle", "box"} => Advances(p) \/ Stands(p)

(* The end of a process ends its request, and leaves the others one        *)
(* process less to terminate.                                              *)
LEMMA GoneGoesOn ==
  ASSUME TypeOK, NEW q \in Process, Gone(q), NEW p \in Process
  PROVE  GoesOn(p)
  <1>1. CASE p = q
    <2>1. step'[p] = "idle" /\ Phase(p)' = 0  BY <1>1 DEF Gone, TypeOK, Phase
    <2>2. step[p] \notin {"idle", "box"} => Phase(p) > 0  BY DEF Phase, TypeOK
    <2> QED  BY <2>1, <2>2 DEF GoesOn, Advances
  <1>2. CASE p # q
    <2>1. step'[p] = step[p] /\ tries'[p] = tries[p] /\ again'[p] = again[p]
      BY <1>2 DEF Gone, TypeOK
    <2>2. targets'[p] = targets[p] \ {q}  BY <1>2 DEF Gone, TypeOK
    <2> QED  BY <2>1, <2>2 DEF GoesOn, Advances, Stands
  <1> QED  BY <1>1, <1>2

(* A failed attempt is one less, and the last one ends the phase.          *)
LEMMA FailedGoesOn ==
  ASSUME TypeOK, NEW p \in Process, tries[p] > 0, step[p] \in {"ask", "wait"},
         NEW answered \in BOOLEAN, Failed(p, answered), UNCHANGED <<again, targets>>
  PROVE  \A r \in Process : GoesOn(r)
  <1>1. tries'[p] = tries[p] - 1 /\ tries[p] \in Nat  BY DEF Failed, TypeOK
  <1>2. \/ step'[p] \in {"ask", "box", "kill"}
        \/ step'[p] = "recover" /\ ~again[p]
    BY DEF Failed, TypeOK
  <1>3. Phase(p)' < Phase(p) \/ Phase(p)' = Phase(p)
    BY <1>2 DEF Phase, TypeOK
  <1>4. Advances(p)  BY <1>1, <1>3 DEF Advances
  <1>5. \A r \in Process \ {p} : Stands(r)  BY DEF Failed, TypeOK, Stands
  <1> QED  BY <1>4, <1>5 DEF GoesOn

(* The steps of the processes.                                             *)
LEMMA RequesterGoesOn ==
  ASSUME IInv, NEW q \in Process, Requester(q), NEW p \in Process
  PROVE  GoesOn(p)
  <1>a. TypeOK /\ AttemptLeft  BY DEF IInv
  <1>b. /\ step[p] = "idle" => GoesOn(p)
        /\ Advances(p) \/ Stands(p) => GoesOn(p)
    BY DEF GoesOn
  <1>1. CASE Start(q)
    <2>1. step[q] = "idle"  BY <1>1 DEF IInv, RolesKept, Start
    <2>2. p # q => Stands(p)  BY <1>1, <1>a DEF Start, BecomesMain, TypeOK, Stands
    <2> QED  BY <1>b, <2>1, <2>2
  <1>2. CASE Ends(q) \/ Exits(q)
    <2>1. Gone(q)  BY <1>2 DEF Ends, Exits
    <2> QED  BY <1>a, <2>1, GoneGoesOn
  <1>3. CASE Click(q)
    <2>1. p # q => Stands(p)  BY <1>3, <1>a DEF Click, TypeOK, Stands
    <2> QED  BY <1>3, <1>b, <2>1 DEF Click
  <1>4. CASE Ask(q)
    <2>1. CASE Failed(q, FALSE)
      <3>1. step[q] = "ask" /\ tries[q] > 0 /\ UNCHANGED <<again, targets>>
        BY <1>4, <1>a DEF Ask, AttemptLeft
      <3> QED  BY <1>a, <2>1, <3>1, FailedGoesOn
    <2>2. CASE ~Failed(q, FALSE)
      <3>1. /\ step[q] = "ask" /\ step' = [step EXCEPT ![q] = "wait"]
            /\ UNCHANGED <<tries, again, targets>>
        BY <1>4, <2>2 DEF Ask
      <3>2. p = q => Advances(p)  BY <1>a, <3>1 DEF Advances, TypeOK
      <3>3. p # q => Stands(p)  BY <1>a, <3>1 DEF Stands, TypeOK
      <3> QED  BY <1>b, <3>2, <3>3
    <2> QED  BY <2>1, <2>2
  <1>5. CASE GivesUp(q)
    <2>1. step[q] = "wait" /\ tries[q] > 0 /\ UNCHANGED <<again, targets>> /\ Failed(q, FALSE)
      BY <1>5, <1>a DEF GivesUp, AttemptLeft
    <2> QED  BY <1>a, <2>1, FailedGoesOn
  <1>6. CASE Recover(q)
    <2>1. p = q => Phase(p) = 6 /\ Phase(p)' = 5  BY <1>6, <1>a DEF Recover, Phase, TypeOK
    <2>2. p # q => Stands(p)  BY <1>6, <1>a DEF Recover, Stands, TypeOK
    <2> QED  BY <1>b, <2>1, <2>2 DEF Advances
  <1>7. CASE DismissBox(q)
    <2>1. CASE Gone(q)  BY <1>a, <2>1, GoneGoesOn
    <2>2. CASE ~Gone(q)
      <3>1. step[q] = "box"  BY <1>7 DEF DismissBox
      <3>2. p # q => Stands(p)  BY <1>7, <1>a, <2>2 DEF DismissBox, Stands, TypeOK
      <3> QED  BY <1>b, <3>1, <3>2 DEF GoesOn
    <2> QED  BY <2>1, <2>2
  <1>8. CASE Looks(q)
    <2>1. p = q => Phase(p) = 4 /\ Phase(p)' = 3  BY <1>8, <1>a DEF Looks, Phase, TypeOK
    <2>2. p # q => Stands(p)  BY <1>8, <1>a DEF Looks, Stands, TypeOK
    <2> QED  BY <1>b, <2>1, <2>2 DEF Advances
  <1>9. CASE Kills(q)
    <2>1. PICK t \in targets[q] :
            \/ Gone(t)
            \/ /\ targets' = [targets EXCEPT ![q] = @ \ {t}]
               /\ UNCHANGED <<role, handle, client, service>>
      BY <1>9 DEF Kills
    <2>2. CASE Gone(t)
      <3>1. t \in Process  BY <1>a, <2>1 DEF TypeOK
      <3> QED  BY <1>a, <2>2, <3>1, GoneGoesOn
    <2>3. CASE targets' = [targets EXCEPT ![q] = @ \ {t}] /\ UNCHANGED client
      <3>1. targets'[p] = IF p = q THEN targets[p] \ {t} ELSE targets[p]
        BY <1>a, <2>3 DEF TypeOK
      <3>2. UNCHANGED <<step, tries, again>>  BY <2>3 DEF client
      <3> QED  BY <1>b, <3>1, <3>2 DEF Advances, Stands
    <2> QED  BY <2>1, <2>2, <2>3
  <1>10. CASE Killed(q)
    <2>1. p = q => Phase(p) = 3 /\ Phase(p)' = 2  BY <1>10, <1>a DEF Killed, Phase, TypeOK
    <2>2. p # q => Stands(p)  BY <1>10, <1>a DEF Killed, Stands, TypeOK
    <2> QED  BY <1>b, <2>1, <2>2 DEF Advances
  <1>11. CASE Closes(q)
    <2>1. p = q => Advances(p)  BY <1>11, <1>a DEF Closes, Advances, TypeOK
    <2>2. p # q => Stands(p)  BY <1>11, <1>a DEF Closes, Stands, TypeOK
    <2> QED  BY <1>b, <2>1, <2>2
  <1>12. CASE Creates(q)
    <2>1. p # q => Stands(p)
      BY <1>12, <1>a DEF Creates, BecomesMain, Stands, TypeOK
    <2>2. step[q] = "create" /\ Phase(q) = 2 /\ tries[q] \in Nat
      BY <1>12, <1>a DEF Creates, Phase, TypeOK
    <2>3. CASE BecomesMain(q)
      <3>1. Phase(q)' = 0  BY <2>3, <1>a DEF BecomesMain, Phase, TypeOK
      <3> QED  BY <1>b, <2>1, <2>2, <3>1 DEF Advances
    <2>4. CASE ~BecomesMain(q)
      <3>1. /\ tries' = [tries EXCEPT ![q] = @ - 1]
            /\ \/ step' = [step EXCEPT ![q] = "take"]
               \/ step' = [step EXCEPT ![q] = "box"]
        BY <1>12, <2>4 DEF Creates
      <3>2. tries'[q] < tries[q]  BY <1>a, <2>2, <3>1 DEF TypeOK
      <3>3. Phase(q)' \in {0, 2}  BY <1>a, <3>1 DEF Phase, TypeOK
      <3> QED  BY <1>b, <2>1, <2>2, <3>2, <3>3 DEF Advances
    <2> QED  BY <2>3, <2>4
  <1> QED  BY <1>1, <1>2, <1>3, <1>4, <1>5, <1>6, <1>7, <1>8, <1>9, <1>10, <1>11, <1>12
           DEF Requester

(* A launcher answers a request or lets it go on.                          *)
LEMMA ServiceGoesOn ==
  ASSUME IInv, NEW q \in Process, Service(q), NEW p \in Process
  PROVE  GoesOn(p)
  <1>a. TypeOK /\ AttemptLeft /\ RequestsKept  BY DEF IInv
  <1>b. Advances(p) \/ Stands(p) => GoesOn(p)  BY DEF GoesOn
  <1>1. CASE HandlerEnds(q)
    <2>1. PICK r \in Process :
            /\ flow[q] = r
            /\ \/ at[r] = q /\ served[r] /\ Failed(r, TRUE)
               \/ /\ at[r] = q /\ served[r]
                  /\ at' = [at EXCEPT ![r] = Nobody] /\ served' = [served EXCEPT ![r] = FALSE]
                  /\ step' = [step EXCEPT ![r] = IF role[r] = "second" THEN "done" ELSE "idle"]
                  /\ UNCHANGED tries
               \/ ~(at[r] = q /\ served[r]) /\ UNCHANGED client
            /\ UNCHANGED again
      BY <1>1 DEF HandlerEnds, Replies
    <2>2. UNCHANGED <<again, targets>>  BY <1>1, <2>1 DEF HandlerEnds
    <2>3. at[r] = q /\ served[r] => step[r] = "wait" /\ tries[r] > 0
      BY <1>a, ConstantsOK DEF RequestsKept, AttemptLeft
    <2>4. CASE at[r] = q /\ served[r] /\ Failed(r, TRUE)
      BY <1>a, <2>2, <2>3, <2>4, FailedGoesOn
    <2>5. CASE /\ at[r] = q /\ served[r]
               /\ step' = [step EXCEPT ![r] = IF role[r] = "second" THEN "done" ELSE "idle"]
               /\ UNCHANGED tries
      <3>1. p = r => Phase(p)' < Phase(p)  BY <1>a, <2>3, <2>5 DEF Phase, TypeOK
      <3>2. p # r => Stands(p)  BY <1>a, <2>2, <2>5 DEF Stands, TypeOK
      <3> QED  BY <1>b, <3>1, <3>2 DEF Advances
    <2>6. CASE UNCHANGED client  BY <1>b, <2>2, <2>6 DEF client, Stands
    <2> QED  BY <2>1, <2>4, <2>5, <2>6
  <1>2. CASE ~HandlerEnds(q)
    <2>1. UNCHANGED <<step, tries, again, targets>>
      BY <1>2 DEF Service, Prepares, Listens, Drained, HandlerStarts, WorkerUpdates, WorkerReady,
                  WorkerFails, AlertDismissed, Busy, BusyEnds, client
    <2> QED  BY <1>b, <2>1 DEF Stands
  <1> QED  BY <1>1, <1>2

(* No step of any process or launcher sets a request back: its phases,     *)
(* their attempts and the processes to terminate only get fewer, until it  *)
(* has a game, the mutex or an error box (RebornLauncher.cpp:657-875).     *)
THEOREM RequestsRunOut == Spec => RequestAdvances
  <1>1. IInv /\ [Next]_vars =>
          [\A p \in Process : step[p] \notin {"idle", "box"} => Advances(p) \/ Stands(p)]_vars
    BY RequesterGoesOn, ServiceGoesOn DEF Next, GoesOn
  <1> QED  BY <1>1, Invariant, PTL DEF Spec, RequestAdvances
=============================================================================
