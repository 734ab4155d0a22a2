SPECIFICATION FairSpec
CONSTANTS
  k1 = k1
  k2 = k2
  c1 = c1
  c2 = c2
  Keys = {k1}
  UIDs = {k1}
  UidOf <- OwnUid
  Names = {"n1"}
  FirstOctet = 2
  LastOctet = 2
  NoLease = NoLease
  Conns = {c1, c2}
  RoomModes = {TRUE}
  MaxRoomKeys = 1
  MaxAttempts = 2
  MaxFaults = 0
  MaxRestarts = 1
PROPERTIES AttemptsEnd RemovedIsUnlisted StopCompletes
CHECK_DEADLOCK FALSE
