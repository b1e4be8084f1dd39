SPECIFICATION SpecPolling
CONSTANTS
  exe = exe
  img = img
  dat = dat
  a = a
  b = b
  c = c
  m1 = m1
  m2 = m2
  NoEntry = NoEntry
  Absent = Absent
  NoManifest = NoManifest
  Torn = Torn
  SelfPage = exe
  LocalOnly = {}
  RuntimePage = {img}
  Shipped = a
  Page <- DataPage
  Content <- MCContent
  Size <- MCSize
  Manifest <- MCManifest
  Listing <- DataListing
  BasePackage <- DataBase
INVARIANTS
  LaunchCurrent
CHECK_DEADLOCK FALSE
