SPECIFICATION FairSpec
CONSTANTS
  Page <- MCPage
  Exe = {"game.exe"}
  Content = {a, b}
  Folder = {v1, v2, draft}
  Version <- MCVersion
  Size <- MCSize
  Thread = {t1, t2}
  Start <- MCStart
  Rank <- MCRank
  Copied <- MCCopied
  Hw = 4
  MaxActs = 2
  Unreadable <- MCUnreadable
  Absent = Absent
  Cut = Cut
  None = None
  a = a
  b = b
  v1 = v1
  v2 = v2
  draft = draft
  t1 = t1
  t2 = t2
INVARIANTS
  IInv
  ManifestExact
  PackInstalls
PROPERTIES
  WorkEnds
CHECK_DEADLOCK FALSE
