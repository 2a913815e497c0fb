SPECIFICATION Spec
CONSTANTS
  UserThreads = {user}
  KernelThreads = {shell}
  Boot = shell
  NoStack = NoStack
  Depth = 2
  Onward = TRUE
PROPERTIES
  DataPreserved
