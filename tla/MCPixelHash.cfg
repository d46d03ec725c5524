SPECIFICATION Spec
CONSTANTS
  Width = 8
  Far = 4
  Near = 3
  Pixels <- SomePixels
  Length = 2
  Sizes <- SomeSizes
INVARIANTS
  OnePixelShows
CHECK_DEADLOCK FALSE
