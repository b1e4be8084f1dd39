SPECIFICATION SpecCalm
CONSTANTS
  FileSize = 2
  ChunkSize = 1
  Threads = 2
  Attempts = 2
  Mirrors = 1
  Replies = {"206"}
  Zero = Zero
  Junk = Junk
  Absent = Absent
  Partial = Partial
  NoState = NoState
INVARIANTS
  ReturnsArchive
CHECK_DEADLOCK FALSE
