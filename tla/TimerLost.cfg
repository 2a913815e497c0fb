SPECIFICATION TimersFairSpec
CONSTANTS
  Slots = {1, 2}
  TimerTasks = 2
  Delays = {0, 1, 3}
  Period = 2
  Overlap = TRUE
  Late = 1
  Timeouts = 2
  AddBy = 2
  MaxTime = 6
PROPERTIES
  EveryTimerFires
CHECK_DEADLOCK FALSE
