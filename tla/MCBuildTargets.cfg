SPECIFICATION Spec
CONSTANTS
  Targets = {"lib", "app"}
  KindOf <- MCKind
  NameOf <- OwnNames
  SourcesOf <- MCSources
  LinksOf <- MCLinks
  ObjectOf <- MCObjects
  Files = {"lib.cpp", "app.cpp", "api.h"}
  Headers = {"api.h"}
  Includes <- MCIncludes
  Needed <- MCNeeded
  Hidden <- NoIncludes
  Versions = {1, 2}
  FlagSets = {"debug", "release"}
  Compilers = {"g++"}
  FamilyOf <- TwoFamilies
  Gxx = "g++"
  Generated = {"api.h"}
  Regimes <- MCRegimes
  Nothing = Nothing
INVARIANTS BuildInv UpToDate SecondBuildIsNoOp TornIsRebuilt PlannedIsDone
PROPERTIES RecordsFreshOutputs LinksReadyLibraries
