SPECIFICATION Spec
CONSTANTS
  MaxRegs = 83
  Load <- CompileText
  MeantBy <- SourceMeaning
  Programs <- AllPrograms
  Tables <- HostTables
  Answers <- HostAnswers
  MaxAnswers = 3
  StackSize = 44
INVARIANTS
  MeansItsSource
  RejectsExactly
  FramesKeepRegisters
PROPERTY Terminates
