SPECIFICATION Spec
CONSTANTS
  k1 = k1
  Graphs <- SomeGraphs
  Keys = {k1}
  Values = {0, 1}
  MaxIterations = 3
  MaxSteps = 6
  Absent = Absent
  Always = Always
  Broken = Broken
  Pipelines <- SomePipelines
  MaxPasses = 3
  NoNode = NoNode
  Procs = {p1, p2}
  StepLimit = 2
  MaxCalls = 2
  Settings <- SomeSettings
  None = None
INVARIANTS
  JoinsOnce
  FreshKeysKept
  CyclesJudged
  RecordedWorkKept
  FailuresHandled
  CheckpointsExist
  SavesCoherent
  ToolsRepeatOnlyAfterCuts
  HistoryComplete
PROPERTIES
  EveryRunEnds
CHECK_DEADLOCK FALSE
