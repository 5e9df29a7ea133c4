SPECIFICATION Spec
CONSTANTS
  DEPTH = 4
  Data = {1, 2, 3}
INVARIANT FlagsSafe
PROPERTIES ImplementsQueue
