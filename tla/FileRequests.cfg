SPECIFICATION FairSpec
CONSTANTS
  img = img
  IMG = IMG
  other = other
  a = a
  b = b
  NoPage = NoPage
  NoEntry = NoEntry
  NoTask = NoTask
  Broken = Broken
  Latest = 3
  Page <- MCPage
  Name <- MCName
  Key <- MCKey
  PageOf <- MCPageOf
  KeyOf <- MCKeyOf
  Content <- MCContent
  Size <- MCSize
  Listing <- MCListing
INVARIANTS
  IInv
  FreshUrl
  NoDeferredLost
PROPERTIES
  CallsContracted
  DeferredArrives
  AsyncServed
CHECK_DEADLOCK FALSE
