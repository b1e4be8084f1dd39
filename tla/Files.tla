--------------------------------- MODULE Files ---------------------------------
(***************************************************************************)
(* What a release consists of.  A file's path, its page, is a sequence of  *)
(* names.                                                                  *)
(***************************************************************************)
EXTENDS Naturals, Sequences, FiniteSets

CONSTANTS
  Page,     \* the files a release may have
  Content,  \* contents a file may have
  Absent,   \* no such file
  Cut       \* a file cut short, being written, or written by two threads at once

ASSUME PagesOK == Page \subseteq Seq(STRING) \ {<<>>} /\ IsFiniteSet(Page)
ASSUME ContentsOK == Absent \notin Content /\ Cut \notin Content /\ Absent # Cut
=============================================================================
