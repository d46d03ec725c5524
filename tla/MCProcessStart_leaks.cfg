SPECIFICATION Spec
CONSTANTS
  MaxStarts = 3
INVARIANTS
  AllOrNothing
  ChildInheritsItsEnds
PROPERTIES
  NothingReleasedTwice
CHECK_DEADLOCK FALSE
