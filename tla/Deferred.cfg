SPECIFICATION MCSpec
CONSTANTS
  Threads = {shell, user}
  First = shell
  Killable = {user}
  Priorities = {1, 2, 3}
  MaxTasks = 3
  MaxNested = 3
  Arrivals = 5
  Slots = {1, 2, 3}
  TimerTasks = 2
  Delays = {0, 1, 3}
  Period = 2
  Overlap = FALSE
  Late = 1
  Timeouts = 3
  AddBy = 2
  MaxTime = 6
PROPERTIES
  BestFirst
  EveryTaskRuns
  PrintedInOrder
  EveryTimerFires
CHECK_DEADLOCK FALSE
