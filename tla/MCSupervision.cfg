CONSTANTS
  \* Reconciler
  Declarations <- AllDeclarations
  QueueNames = {"keyboard", "dialogue"}
  DropCorrupts = {"dialogue"}
  Breakable = {"write_protect"}
  MaxQueues = 1
  SamplePeriod = 2
  WaitLimit = 2
  MaxViolations = 1
  MaxPasses = 1
  \* SectionProtection
  Range <- ReadOnlyRange
  Data = {"data", "irq"}
  Targets = {"rodata", "data"}
  HandlerPages = {"irq", "text"}
  WriteProtect = TRUE
  Bytes = {0, 1}
  MaxProbes = 2
  \* ProcessorSleep
  Ratios = {0, 3}
  MaxTime = 5
  MaxWrites = 2
  MaxCalls = 3

SPECIFICATION Spec

INVARIANTS
  NoFalseAlarm
  RecordsReadable
  TimeAccounted
  MindHoldsRegion
  DialogueHonest

PROPERTIES
  ProbeTruthful
  
  WriteEndsSleep
