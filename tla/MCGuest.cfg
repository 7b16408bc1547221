CONSTANTS
  MemSize = 5
  Byte = {0, 1, 2}
  Half = 256
  MaxWidth = 5
  AddressSpace = 64
  HeapStart = 8
  HeapEnd = 36
  mlim = 20
  Sizes = {0, 1, 7, 8, 9, 16, 20, 28, 40, 56, 57, 63}
  MaxBlocks = 3
  MAX_LENGTH = 5
  Width = 3
  Height = 3
SPECIFICATION GuestSpec
INVARIANTS StringsRight PrintsNumber BlocksDisjoint ScreenShowsSnake
PROPERTIES ArenaZeroed
CHECK_DEADLOCK FALSE
