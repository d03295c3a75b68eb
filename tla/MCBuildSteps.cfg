SPECIFICATION FairSpec
CONSTANTS
  Workers = {w1, w2}
  Names = {"a", "b", "c", "d"}
  NoOne = NoOne
  Programs <- MCPrograms
INVARIANTS IInv RunsAfterDependencies ReturnsAfterAllSteps RefusesCycles
PROPERTIES ImplementsTaskGraph EveryStepEnds
