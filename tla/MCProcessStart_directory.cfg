SPECIFICATION Spec
CONSTANTS
  MaxStarts = 2
PROPERTIES
  DirectoryIsHarmless
CHECK_DEADLOCK FALSE
