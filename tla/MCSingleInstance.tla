--------------------------- MODULE MCSingleInstance ---------------------------
(***************************************************************************)
(* Instances of SingleInstance, and the launcher that is terminated while  *)
(* it is well.                                                             *)
(***************************************************************************)
EXTENDS SingleInstance, TLC

\* Attempts only time out while the mutex is held for longer than 2 s.
Prompt == \A p \in Process :
  step[p] = "wait" /\ at[p] # Nobody /\ at'[p] = Nobody => flow[at[p]] \in {"worker", "busy"}

PromptSpec == Init /\ [][Next /\ Prompt]_vars

\* The launcher listens, and whoever holds its mutex is at work.
Healthy(q) == role[q] = "main" /\ listener[q] = "up" /\ worker[q] # "alert"

(* A second launcher goes on to terminate the launcher because nothing     *)
(* answers, never one that took its request and is at work on it or on     *)
(* what is before it (RebornLauncher.cpp:953-968).                         *)
HealthyKept ==
  [][\A p, q \in Process : at[p] = q /\ Healthy(q) => step'[p] # "kill"]_vars
=============================================================================
