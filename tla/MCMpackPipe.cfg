\* every format, after each of the objects that leave something behind
CONSTANT Objects <- AnyAfterAny
SPECIFICATION PipeFairSpec
INVARIANTS
  PipeTypeOK
  HeaderDecodes
  StreamWhole
  WrittenAgrees
  GetsWritten
  GetsRepresentable
PROPERTIES
  ReaderInStep
  Delivered
