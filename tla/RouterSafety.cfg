SPECIFICATION Spec
CONSTANTS
  IfCount = 2
  HostFrames <- MCHostFrames
INVARIANTS OnlyFirstSeesNoList WrongWayExplained
PROPERTIES RefinesWire
CHECK_DEADLOCK FALSE
