SPECIFICATION MCSpec
CONSTANTS
  Contracts = {"a", "b"}
  Origin = "o"
  Precompiled = "n"
  Deployed = {"a"}
  Hashes = {0, 1}
  CallCreateDepth = 1
  TxGas = 4
  ViewGas = 4
  Requests = {0, 3}
  RetainedShare = 4
  MaxWrites = 2
  MaxEvaluations = 2
  MaxHeight = 2
INVARIANTS
  
  InstructionsAgree
  StackIsChecked
  JumpsLandOnCode
  GasExact
  MemoryCovered
  
PROPERTIES
  StaticKeeps
  GasShrinks
CHECK_DEADLOCK FALSE
