SPECIFICATION Spec
CONSTANTS
  US = 8
  IntRange = 16
  SLEEPTIME = 1
  Ways = {1, 4}
  Jitters = {0, 1}
  Overheads = {0}
  Handlings = {1}
  Starts = {7}
  Leads <- MCLeads
  Sharings <- MCSharings
  MaxRounds = 4
  MaxForeign = 1
CONSTRAINT SharedShort
ACTION_CONSTRAINT Prompt
INVARIANTS OffsetRight
PROPERTIES SetClockRight FrozenForGood
CHECK_DEADLOCK FALSE
