SPECIFICATION Spec
CONSTANTS
  exe = exe
  img = img
  dat = dat
  a = a
  b = b
  c = c
  m1 = m1
  m2 = m2
  NoEntry = NoEntry
  Absent = Absent
  NoManifest = NoManifest
  Torn = Torn
  SelfPage = exe
  LocalOnly = {dat}
  RuntimePage <- LauncherPage
  Shipped = a
  Page <- LauncherPage
  Content <- MCContent
  Size <- MCSize
  Manifest <- MCManifest
  Listing <- SelfListing
  BasePackage <- SelfBase
INVARIANTS
  SelfWhole
CHECK_DEADLOCK FALSE
