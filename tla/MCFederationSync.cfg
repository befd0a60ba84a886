SPECIFICATION Spec
CONSTANTS
  r1 = r1
  r2 = r2
  None = None
  Rows = {r1, r2}
  MaxTime = 2
  MaxWrites = 2
  MaxFaults = 2
INVARIANTS TypeOK CursorCovers PrivateStays
PROPERTIES HubNeverGoesBack EventuallyDelivered
