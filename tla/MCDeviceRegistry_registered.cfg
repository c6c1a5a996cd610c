SPECIFICATION Spec
CONSTANTS
  Cameras = {c1, c2}
  Streams = {s1, s2}
  DEVICE_TIMEOUT_SECOND = 2
  MaxTime = 6
PROPERTIES
  RegisteredIsListed
