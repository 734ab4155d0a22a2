SPECIFICATION Spec
CONSTANTS
  k1 = k1
  k2 = k2
  c1 = c1
  c2 = c2
  Keys = {k1, k2}
  UIDs = {k1, k2}
  UidOf <- OwnUid
  Names = {"n1"}
  FirstOctet = 2
  LastOctet = 2
  NoLease = NoLease
  Conns = {c1, c2}
  RoomModes = {TRUE}
  MaxRoomKeys = 1
  MaxAttempts = 2
  MaxFaults = 0
  MaxRestarts = 0
INVARIANT
  UnackedReclaimed
SYMMETRY Symmetry
