SPECIFICATION FairSpec
CONSTANTS
  FileSize = 3
  ChunkSize = 2
  Threads = 2
  Attempts = 2
  Mirrors = 1
  Replies = {"206", "200", "error"}
  Zero = Zero
  Junk = Junk
  Absent = Absent
  Partial = Partial
  NoState = NoState
INVARIANTS
  IInv
  Accounted
  ResumeSafe
  ArchiveExact
PROPERTIES
  ExecutorEnds
CONSTRAINT
  SpoiltOnce
CHECK_DEADLOCK FALSE
