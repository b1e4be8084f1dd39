---------------------------- MODULE SingleInstance ----------------------------
(***************************************************************************)
(* Launcher processes of one directory, started by double clicks: the      *)
(* named mutex that lets one of them be the launcher, the /RunClient       *)
(* requests by which the others (and a click on its own window) have it    *)
(* start a game, the takeover from a launcher that does not answer, and    *)
(* the listener of its web service with its restarts.                      *)
(*                                                                         *)
(* CreateMutex is taken to return a handle.  What a handler does under     *)
(* m_launchFlowMutex is in UpdateFlow; here it answers 200 or an error.    *)
(***************************************************************************)
EXTENDS Integers

CONSTANTS
  Process,    \* launcher processes; one that ended may be started again
  Nobody,
  StartTries, \* attempts of a second launcher
  ClickTries, \* attempts of a click on the launcher's window
  AgainTries, \* its attempts after the recovery
  TakeTries,  \* attempts at the mutex
  Limit       \* bound of the model: handlers that wait on behalf of one process

ASSUME ConstantsOK ==
  /\ Nobody \notin Process
  /\ {"free", "worker", "busy"} \cap Process = {}
  /\ {StartTries, ClickTries, AgainTries, TakeTries} \subseteq Nat \ {0}
  /\ Limit \in Nat

VARIABLES
  role,     \* nothing, a second launcher, or the launcher
  handle,   \* processes with a handle of the named mutex
  step,     \* where RequestRunningLauncherRunClient and its caller stand
  tries,    \* attempts left
  again,    \* the attempts are those after the recovery
  targets,  \* processes TerminateOtherLauncherProcesses has still to terminate
  at,       \* the launcher whose answer the process waits for, or Nobody
  served,   \* the handler of that request owns m_launchFlowMutex
  run,      \* m_runtimeState.run
  worker,   \* the worker thread: before, in and after its update, or at an error box
  listener, \* the loop of WebServiceThread
  flow,     \* owner of m_launchFlowMutex: the worker, another job, or a /RunClient
            \* handler, named by the process that asked
  queue     \* queue[q][p]: handlers of q that wait for it, on behalf of p

client  == <<step, tries, again, at, served>>
service == <<run, worker, listener, flow, queue>>
vars == <<role, handle, targets, client, service>>

TypeOK ==
  /\ role \in [Process -> {"off", "second", "main"}]
  /\ handle \subseteq Process
  /\ step \in [Process -> {"idle", "ask", "wait", "done", "recover", "kill", "killing",
                           "take", "create", "box"}]
  /\ tries \in [Process -> Nat]
  /\ again \in [Process -> BOOLEAN]
  /\ targets \in [Process -> SUBSET Process]
  /\ at \in [Process -> Process \cup {Nobody}]
  /\ served \in [Process -> BOOLEAN]
  /\ run \in [Process -> BOOLEAN]
  /\ worker \in [Process -> {"boot", "update", "up", "alert"}]
  /\ listener \in [Process -> {"down", "ready", "up", "drain"}]
  /\ flow \in [Process -> {"free", "worker", "busy"} \cup Process]
  /\ queue \in [Process -> [Process -> Nat]]

-----------------------------------------------------------------------------
(* The life of a process.                                                  *)

\* Its handles are closed, its handlers and connections gone.
Gone(p) ==
  /\ role' = [role EXCEPT ![p] = "off"]
  /\ handle' = handle \ {p}
  /\ step' = [step EXCEPT ![p] = "idle"] /\ tries' = [tries EXCEPT ![p] = 0]
  /\ again' = [again EXCEPT ![p] = FALSE]
  /\ targets' = [q \in Process |-> IF q = p THEN {} ELSE targets[q] \ {p}]
  /\ at' = [q \in Process |-> IF p \in {q, at[q]} THEN Nobody ELSE at[q]]
  /\ served' = [q \in Process |-> p \notin {q, at[q]} /\ served[q]]
  /\ run' = [run EXCEPT ![p] = FALSE]
  /\ worker' = [worker EXCEPT ![p] = "boot"]
  /\ listener' = [listener EXCEPT ![p] = "down"]
  /\ flow' = [flow EXCEPT ![p] = "free"]
  /\ queue' = [queue EXCEPT ![p] = [q \in Process |-> 0]]

\* The window and the coordinator with its two threads are created.
BecomesMain(p) ==
  /\ role' = [role EXCEPT ![p] = "main"] /\ step' = [step EXCEPT ![p] = "idle"]
  /\ run' = [run EXCEPT ![p] = TRUE]

Start(p) ==
  /\ role[p] = "off" /\ handle' = handle \cup {p}
  /\ \/ handle = {} /\ BecomesMain(p) /\ UNCHANGED tries
     \/ /\ handle # {}
        /\ role' = [role EXCEPT ![p] = "second"] /\ step' = [step EXCEPT ![p] = "ask"]
        /\ tries' = [tries EXCEPT ![p] = StartTries] /\ UNCHANGED run
  /\ UNCHANGED <<again, at, served, targets, worker, listener, flow, queue>>

\* The window is closed, UpdateTemp.exe replaces the launcher, or it is killed.
Ends(p) == role[p] # "off" /\ Gone(p)

\* The second launcher's request was answered with 200.
Exits(p) == step[p] = "done" /\ Gone(p)

-----------------------------------------------------------------------------
(* RequestRunningLauncherRunClient and its callers.                        *)

\* RequestNewGameAsync: a click during a request is ignored.
Click(p) ==
  /\ role[p] = "main" /\ step[p] = "idle" /\ step' = [step EXCEPT ![p] = "ask"]
  /\ tries' = [tries EXCEPT ![p] = ClickTries] /\ again' = [again EXCEPT ![p] = FALSE]
  /\ UNCHANGED <<role, handle, targets, at, served, service>>

\* Variant with a bug: only attempts with an answer are counted.
FailedUncounted(p, answered) ==
  /\ tries' = [tries EXCEPT ![p] = IF answered THEN @ - 1 ELSE @]
  /\ at' = [at EXCEPT ![p] = Nobody] /\ served' = [served EXCEPT ![p] = FALSE]
  /\ step' = [step EXCEPT ![p] =
       CASE ~answered \/ tries[p] > 1 -> "ask"
         [] OTHER -> IF role[p] = "main" /\ ~again[p] THEN "recover" ELSE "box"]

\* An attempt failed.  After the last one a click tries the recovery, once, and a
\* second launcher whose last attempt had no answer at all takes over.
Failed(p, answered) ==
  /\ tries' = [tries EXCEPT ![p] = @ - 1]
  /\ at' = [at EXCEPT ![p] = Nobody] /\ served' = [served EXCEPT ![p] = FALSE]
  /\ step' = [step EXCEPT ![p] =
       CASE tries[p] > 1 -> "ask"
         [] tries[p] <= 1 /\ role[p] = "main" -> IF again[p] THEN "box" ELSE "recover"
         [] OTHER -> IF answered THEN "box" ELSE "kill"]

\* Refused when nobody listens.  Beyond Limit an attempt fails and leaves no handler.
Ask(p) ==
  /\ step[p] = "ask"
  /\ \/ \E q \in Process :
          /\ listener[q] = "up" /\ queue[q][p] < Limit
          /\ queue' = [queue EXCEPT ![q][p] = @ + 1]
          /\ at' = [at EXCEPT ![p] = q] /\ step' = [step EXCEPT ![p] = "wait"]
          /\ UNCHANGED <<tries, served>>
     \/ /\ \A q \in Process : listener[q] = "up" => queue[q][p] >= Limit
        /\ Failed(p, FALSE) /\ UNCHANGED queue
  /\ UNCHANGED <<role, handle, targets, again, run, worker, listener, flow>>

\* No answer within 2 s, or the connection is gone; the handler does not notice.
GivesUp(p) ==
  /\ step[p] = "wait" /\ Failed(p, FALSE)
  /\ UNCHANGED <<role, handle, targets, again, service>>

\* Only a listener that listens can be stopped; the loop of WebServiceThread starts another.
RequestWebServiceRecovery(p) ==
  listener' = [listener EXCEPT ![p] = IF @ = "up" THEN "drain" ELSE @]

Recover(p) ==
  /\ step[p] = "recover" /\ step' = [step EXCEPT ![p] = "ask"]
  /\ tries' = [tries EXCEPT ![p] = AgainTries] /\ again' = [again EXCEPT ![p] = TRUE]
  /\ RequestWebServiceRecovery(p)
  /\ UNCHANGED <<role, handle, targets, at, served, run, worker, flow, queue>>

DismissBox(p) ==
  /\ step[p] = "box"
  /\ \/ role[p] = "second" /\ Gone(p)
     \/ /\ role[p] = "main" /\ step' = [step EXCEPT ![p] = "idle"]
        /\ UNCHANGED <<role, handle, targets, tries, again, at, served, service>>

-----------------------------------------------------------------------------
(* The takeover.                                                           *)

Looks(p) ==
  /\ step[p] = "kill" /\ step' = [step EXCEPT ![p] = "killing"]
  /\ targets' = [targets EXCEPT ![p] = {q \in Process \ {p} : role[q] # "off"}]
  /\ UNCHANGED <<role, handle, tries, again, at, served, service>>

\* A process that runs with other rights cannot be opened.
Kills(p) ==
  /\ step[p] = "killing"
  /\ \E q \in targets[p] :
       \/ Gone(q)
       \/ /\ targets' = [targets EXCEPT ![p] = @ \ {q}]
          /\ UNCHANGED <<role, handle, client, service>>

Killed(p) ==
  /\ step[p] = "killing" /\ targets[p] = {} /\ step' = [step EXCEPT ![p] = "take"]
  /\ tries' = [tries EXCEPT ![p] = TakeTries]
  /\ UNCHANGED <<role, handle, targets, again, at, served, service>>

\* AcquireSingleInstanceMutexWithRetry: the own handle is closed first, and the new
\* one tells whether another process has one.
Closes(p) ==
  /\ step[p] = "take" /\ step' = [step EXCEPT ![p] = "create"] /\ handle' = handle \ {p}
  /\ UNCHANGED <<role, targets, tries, again, at, served, service>>

\* Variant with a bug: any handle will do.
CreatesAnyway(p) ==
  /\ step[p] = "create" /\ handle' = handle \cup {p} /\ BecomesMain(p)
  /\ UNCHANGED <<targets, tries, again, at, served, worker, listener, flow, queue>>

\* Variant with a bug: the attempts are not bounded.
CreatesForever(p) ==
  /\ step[p] = "create" /\ handle' = handle \cup {p}
  /\ \/ handle = {} /\ BecomesMain(p) /\ UNCHANGED tries
     \/ /\ handle # {} /\ tries' = [tries EXCEPT ![p] = @ - 1]
        /\ step' = [step EXCEPT ![p] = "take"] /\ UNCHANGED <<role, run>>
  /\ UNCHANGED <<targets, again, at, served, worker, listener, flow, queue>>

Creates(p) ==
  /\ step[p] = "create"
  /\ \/ handle = {} /\ handle' = {p} /\ BecomesMain(p) /\ UNCHANGED tries
     \/ /\ handle # {} /\ tries' = [tries EXCEPT ![p] = @ - 1]
        /\ \/ tries[p] > 1 /\ handle' = handle \cup {p} /\ step' = [step EXCEPT ![p] = "take"]
           \/ tries[p] <= 1 /\ step' = [step EXCEPT ![p] = "box"] /\ UNCHANGED handle
        /\ UNCHANGED <<role, run>>
  /\ UNCHANGED <<targets, again, at, served, worker, listener, flow, queue>>

-----------------------------------------------------------------------------
(* The web service of launcher q.                                          *)

\* WebServiceThread looks at run before it creates a server, then listens in any case.
Prepares(q) ==
  /\ role[q] = "main" /\ listener[q] = "down" /\ run[q]
  /\ listener' = [listener EXCEPT ![q] = "ready"]
  /\ UNCHANGED <<role, handle, targets, client, run, worker, flow, queue>>

\* The port may be taken.
Listens(q) ==
  /\ listener[q] = "ready" /\ \E to \in {"up", "down"} : listener' = [listener EXCEPT ![q] = to]
  /\ UNCHANGED <<role, handle, targets, client, run, worker, flow, queue>>

\* listen() returns when the handlers of its server have ended; those of /download are not
\* counted, each ends by its timeouts, so it may return later than here.
Drained(q) ==
  /\ listener[q] = "drain" /\ flow[q] \notin Process /\ \A p \in Process : queue[q][p] = 0
  /\ listener' = [listener EXCEPT ![q] = "down"]
  /\ UNCHANGED <<role, handle, targets, client, run, worker, flow, queue>>

\* A handler gets the mutex; its client may have given up.
HandlerStarts(q) ==
  /\ flow[q] = "free"
  /\ \E p \in Process :
       /\ queue[q][p] > 0 /\ queue' = [queue EXCEPT ![q][p] = @ - 1]
       /\ flow' = [flow EXCEPT ![q] = p]
       /\ \/ at[p] = q /\ ~served[p] /\ served' = [served EXCEPT ![p] = TRUE]
          \/ (at[p] = q /\ ~served[p] => queue[q][p] > 1) /\ UNCHANGED served
  /\ UNCHANGED <<role, handle, targets, step, tries, again, at, run, worker, listener>>

\* A game is launched, or the refresh, the sync or the launch failed.
Replies(q) ==
  \E p \in Process :
    /\ flow[q] = p
    /\ \/ at[p] = q /\ served[p] /\ Failed(p, TRUE)
       \/ /\ at[p] = q /\ served[p]
          /\ at' = [at EXCEPT ![p] = Nobody] /\ served' = [served EXCEPT ![p] = FALSE]
          /\ step' = [step EXCEPT ![p] = IF role[p] = "second" THEN "done" ELSE "idle"]
          /\ UNCHANGED tries
       \/ ~(at[p] = q /\ served[p]) /\ UNCHANGED client
    /\ UNCHANGED again

\* Variant with a bug: a handler whose client is gone returns without releasing the mutex.
HandlerEndsLocked(q) ==
  /\ Replies(q)
  /\ flow' = [flow EXCEPT ![q] = IF at[@] = q /\ served[@] THEN "free" ELSE @]
  /\ UNCHANGED <<role, handle, targets, run, worker, listener, queue>>

HandlerEnds(q) ==
  /\ Replies(q) /\ flow' = [flow EXCEPT ![q] = "free"]
  /\ UNCHANGED <<role, handle, targets, run, worker, listener, queue>>

\* The worker's update, /download, the async worker and the poll hold the mutex too.
WorkerUpdates(q) ==
  /\ role[q] = "main" /\ worker[q] = "boot" /\ flow[q] = "free"
  /\ worker' = [worker EXCEPT ![q] = "update"] /\ flow' = [flow EXCEPT ![q] = "worker"]
  /\ UNCHANGED <<role, handle, targets, client, run, listener, queue>>

WorkerReady(q) ==
  /\ worker[q] = "update"
  /\ worker' = [worker EXCEPT ![q] = "up"] /\ flow' = [flow EXCEPT ![q] = "free"]
  /\ UNCHANGED <<role, handle, targets, client, run, listener, queue>>

\* FailWithMessage, with or without the mutex.
WorkerFails(q) ==
  /\ role[q] = "main" /\ worker[q] \in {"boot", "update"}
  /\ worker' = [worker EXCEPT ![q] = "alert"]
  /\ UNCHANGED <<role, handle, targets, client, run, listener, flow, queue>>

\* Stop: /Stop finds a listener or not, then run is cleared; the window stays.
AlertDismissed(q) ==
  /\ worker[q] = "alert" /\ worker' = [worker EXCEPT ![q] = "up"]
  /\ listener' = [listener EXCEPT ![q] = IF @ = "up" THEN "drain" ELSE @]
  /\ run' = [run EXCEPT ![q] = FALSE]
  /\ flow' = [flow EXCEPT ![q] = IF @ = "worker" THEN "free" ELSE @]
  /\ UNCHANGED <<role, handle, targets, client, queue>>

Busy(q) ==
  /\ role[q] = "main" /\ flow[q] = "free" /\ flow' = [flow EXCEPT ![q] = "busy"]
  /\ UNCHANGED <<role, handle, targets, client, run, worker, listener, queue>>

BusyEnds(q) ==
  /\ flow[q] = "busy" /\ flow' = [flow EXCEPT ![q] = "free"]
  /\ UNCHANGED <<role, handle, targets, client, run, worker, listener, queue>>

-----------------------------------------------------------------------------
Init ==
  /\ role = [p \in Process |-> "off"] /\ handle = {}
  /\ step = [p \in Process |-> "idle"] /\ tries = [p \in Process |-> 0]
  /\ again = [p \in Process |-> FALSE] /\ targets = [p \in Process |-> {}]
  /\ at = [p \in Process |-> Nobody] /\ served = [p \in Process |-> FALSE]
  /\ run = [p \in Process |-> FALSE] /\ worker = [p \in Process |-> "boot"]
  /\ listener = [p \in Process |-> "down"] /\ flow = [p \in Process |-> "free"]
  /\ queue = [p \in Process |-> [q \in Process |-> 0]]

\* One process starts, asks, takes over and ends.
Requester(p) ==
  \/ Start(p) \/ Ends(p) \/ Exits(p) \/ Click(p) \/ Ask(p) \/ GivesUp(p) \/ Recover(p)
  \/ DismissBox(p) \/ Looks(p) \/ Kills(p) \/ Killed(p) \/ Closes(p) \/ Creates(p)

Service(q) ==
  \/ Prepares(q) \/ Listens(q) \/ Drained(q) \/ HandlerStarts(q) \/ HandlerEnds(q)
  \/ WorkerUpdates(q) \/ WorkerReady(q) \/ WorkerFails(q) \/ AlertDismissed(q)
  \/ Busy(q) \/ BusyEnds(q)

Next == \E p \in Process : Requester(p) \/ Service(p)

Spec == Init /\ [][Next]_vars

(* Fairness: attempts time out, calls under the mutex too, and a handler   *)
(* that waits for it gets it in the end; the port does not stay taken.     *)
(* Nothing is assumed of the user, of error boxes, or of new processes.    *)
FairSpec ==
  /\ Spec
  /\ \A p \in Process :
       /\ WF_vars(Ask(p) \/ Exits(p) \/ Recover(p) \/ Looks(p) \/ Kills(p) \/ Killed(p)
                    \/ Closes(p) \/ Creates(p))
       /\ WF_vars(GivesUp(p)) /\ WF_vars(Prepares(p)) /\ SF_vars(Listens(p) /\ listener'[p] = "up")
       /\ WF_vars(Listens(p)) /\ WF_vars(Drained(p)) /\ WF_vars(HandlerEnds(p)) /\ WF_vars(BusyEnds(p))
       /\ WF_vars(WorkerReady(p) \/ WorkerFails(p)) /\ SF_vars(HandlerStarts(p))

-----------------------------------------------------------------------------
(* Properties.                                                             *)

(* There is one launcher, however many processes start, ask, give up,      *)
(* terminate each other and race for the mutex at the same time            *)
(* (RebornLauncher.cpp:783-828, 954-1006).                                 *)
OneMain == \A p, q \in Process : role[p] = "main" /\ role[q] = "main" => p = q

(* Every start and every click comes to an end: a game, a takeover or an   *)
(* error box, and nobody asks for ever (RebornLauncher.cpp:657-875).       *)
RequestEnds == \A p \in Process : step[p] # "idle" ~> step[p] \in {"idle", "box"}

\* The phases of a request: attempts, the recovery of a click and its attempts, and
\* the takeover of a second launcher.
Phase(p) == CASE step[p] \in {"ask", "wait"} -> IF again[p] THEN 5 ELSE 7
              [] step[p] = "recover" -> 6
              [] step[p] = "kill" -> 4
              [] step[p] = "killing" -> 3
              [] step[p] \in {"take", "create"} -> 2
              [] step[p] = "done" -> 1
              [] OTHER -> 0

\* The request goes on: a later phase, an attempt less, or a step of the same attempt.
Advances(p) ==
  \/ Phase(p)' < Phase(p)
  \/ Phase(p)' = Phase(p) /\ tries'[p] < tries[p]
  \/ /\ tries'[p] = tries[p] /\ again'[p] = again[p]
     /\ \/ <<step[p], step'[p]>> \in {<<"ask", "wait">>, <<"take", "create">>}
        \/ step'[p] = step[p] /\ targets'[p] \subseteq targets[p] /\ targets'[p] # targets[p]

Stands(p) == /\ step'[p] = step[p] /\ tries'[p] = tries[p] /\ again'[p] = again[p]
             /\ targets'[p] = targets[p]

(* Nothing sets a request back, neither its own steps nor other processes, *)
(* the launcher it asks or the end of that launcher: each phase has its    *)
(* attempts, and a click recovers once (RebornLauncher.cpp:657-875).       *)
RequestAdvances ==
  [][\A p \in Process : step[p] \notin {"idle", "box"} => Advances(p) \/ Stands(p)]_vars

(* The web service comes back after a recovery or a port that was taken,   *)
(* as long as the launcher runs and no error box holds the mutex           *)
(* (WebService.cpp:251-395).                                               *)
ServiceReturns ==
  \A q \in Process :
    (role[q] = "main" /\ listener[q] # "up" ~>
       listener[q] = "up" \/ role[q] # "main" \/ ~run[q] \/ worker[q] = "alert")

-----------------------------------------------------------------------------
(* The inductive invariant.                                                *)

\* Only the launcher asks from its window, only a second one takes over, and the
\* launcher has its handle.
RolesKept ==
  \A p \in Process :
    /\ role[p] = "off" => step[p] = "idle" /\ p \notin handle
    /\ role[p] = "main" => p \in handle
    /\ step[p] \in {"done", "kill", "killing", "take", "create"} => role[p] = "second"
    /\ step[p] = "recover" => role[p] = "main"

\* Whoever asks or tries for the mutex has an attempt left.
AttemptLeft == \A p \in Process : step[p] \in {"ask", "wait", "take", "create"} => tries[p] > 0

\* Only the launcher serves, and its worker updates under the mutex.
ServiceOwned ==
  \A q \in Process :
    /\ worker[q] = "update" => flow[q] = "worker"
    /\ role[q] # "main" =>
         /\ listener[q] = "down" /\ flow[q] = "free" /\ worker[q] = "boot"
         /\ \A p \in Process : queue[q][p] = 0

\* The mutex is held for requests that wait.
ServedWaits == \A p \in Process : served[p] => at[p] # Nobody

\* A request that is waited for is in the queue of its launcher, or has the mutex.
RequestsKept ==
  \A p \in Process : at[p] # Nobody =>
    /\ step[p] = "wait"
    /\ IF served[p] THEN flow[at[p]] = p ELSE queue[at[p]][p] > 0

IInv == TypeOK /\ RolesKept /\ AttemptLeft /\ ServiceOwned /\ ServedWaits
        /\ RequestsKept /\ OneMain
=============================================================================
