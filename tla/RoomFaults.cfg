SPECIFICATION Spec
CONSTANTS
  k1 = k1
  k2 = k2
  c1 = c1
  c2 = c2
  Keys = {k1}
  UIDs = {k1}
  UidOf <- OwnUid
  Names = {"n1", "n2"}
  FirstOctet = 2
  LastOctet = 2
  NoLease = NoLease
  Conns = {c1}
  RoomModes = {TRUE}
  MaxRoomKeys = 2
  MaxAttempts = 2
  MaxFaults = 2
  MaxRestarts = 1
INVARIANTS DiskInSync
