CONSTANTS
  nobody = nobody
  shared = shared
  deflt = deflt
  Attorney = {1, 2}
  Day = 8
  Week = 2
  Zones <- MCZones
  Hours <- MCHours
  Policies <- MCPolicies
  Routings <- MCRoutings
  Requests <- MCRequests
  Busy <- MCBusy
  Feeds <- MCFeeds
  MaxFeed = 6
  MaxWindow = 2
  Now = 1
  Limit = 2
  ChangeLimit = 1
  Shared = shared
  Default = deflt
  Nobody = nobody
SPECIFICATION Spec
CHECK_DEADLOCK FALSE
INVARIANTS
  OffersAreDocumented
  EvenSpread
  NoBetterSlotLeftOut
