SPECIFICATION Spec
CONSTANTS
  MaxSections = 6
  MaxStack = 14
  BufferSize = 9
  Packages = 5
  MaxDepth = 3
  MaxText = 10
  MaxAllocs = 6
  MaxLines = 8
  MaxSets = 5
  NoInput = NoInput
CHECK_DEADLOCK FALSE
INVARIANTS
  DocumentSound
  ParserSound
  FramesAgree
  TablesSound
PROPERTIES
  CodecsAgree
  TextsAgree
