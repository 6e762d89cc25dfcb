SPECIFICATION Spec
CONSTANTS
  k1 = k1
  Graphs <- DiamondOnly
  Keys = {k1}
  Values = {0, 1}
  MaxIterations = 3
  MaxSteps = 6
  Absent = Absent
  Always = Always
  Broken = Broken
  Pipelines <- SomePipelines
  MaxPasses = 3
  NoNode = NoNode
  Procs = {p1, p2}
  StepLimit = 2
  MaxCalls = 2
  Settings <- SomeSettings
  None = None
INVARIANT
  BranchUpdatesMerged
CHECK_DEADLOCK FALSE
