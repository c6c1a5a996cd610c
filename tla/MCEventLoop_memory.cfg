SPECIFICATION LoopSpec
CONSTANTS
  Cameras = {c1}
  Streams = {s1}
  DEVICE_TIMEOUT_SECOND = 1
  MaxTime = 3
  Names = {"ann", "bob"}
  Passwords = {"x", "y"}
  MaxRows = 2
  MaxChanges = 1
INVARIANTS
  LoopTypeOK
  AnsweredAsRead
PROPERTIES
  TestCameraAlwaysListed
