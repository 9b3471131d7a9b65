\* every content of five cells; numbers of eight bits; lines of two bytes
CONSTANTS
  Memories <- SomeMemories
  Radixes <- TwoToSixteen
  LineLength = 2
SPECIFICATION CharSpec
INVARIANTS
  SearchAgrees
  EditKeeps
  MemKeeps
  NumbersReadBack
  
CHECK_DEADLOCK FALSE
