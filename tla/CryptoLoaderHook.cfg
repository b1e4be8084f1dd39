SPECIFICATION FairSpec
CONSTANTS
  Thread = {t1}
  img = img
  a = a
  b = b
  Page <- MCPage
  Content <- MCContent
  Manifest <- MCManifest
  Listing <- MCListing
  First = 1
  NoEntry = NoEntry
  Torn = Torn
  Absent = Absent
  Partial = Partial
  NoManifest = NoManifest
  NoPage = NoPage
  NoStamp = NoStamp
  NoCache = NoCache
  MaxStamp = 1
INVARIANTS
  IInv
  CacheSound
PROPERTIES
  MapCatchesUp
  UpdatesArrive
ACTION_CONSTRAINT
  PublishesNew
