SPECIFICATION FairSpec
CONSTANTS
  Workers = {w1, w2}
  Names = {"a", "b", "c", "d"}
  NoOne = NoOne
  Programs <- Shapes
PROPERTY ExecutorReturns
