SPECIFICATION DotNetSpec
CONSTANTS
  Slots = {"r1", "r2", "r3"}
  Focuses = {"AnnotatedString"}
  MaxWrapped = 2
  Careful = TRUE
INVARIANTS
  Reclaimed
CHECK_DEADLOCK FALSE
