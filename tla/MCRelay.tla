-------------------------------- MODULE MCRelay --------------------------------
(***************************************************************************)
(* Three names: the launcher's, UpdateTemp.exe, and one a browser made.    *)
(***************************************************************************)
EXTENDS Relay, TLC, FiniteSets

CONSTANTS p1, p2, p3

\* One copy has been downloaded; an installation has the launcher's name.
OneCopyInit ==
  /\ Init
  /\ Cardinality({q \in Place : file[q] # Absent /\ Dir(q) = "out"}) <= 1
  /\ \A q \in Place : file[q] # Absent /\ Dir(q) = "home" => NameOf(q) = Canonical
OneCopySpec == OneCopyInit /\ [][Next]_vars /\ Fairness
Sym == Permutations(Proc)
=============================================================================
