SPECIFICATION Spec
CONSTANTS
  Targets = {"app"}
  KindOf <- MCKind
  NameOf <- OwnNames
  SourcesOf <- MCSources
  LinksOf <- MCLinks
  ObjectOf <- MCObjects
  Files = {"app.cpp", "api.h"}
  Headers = {"api.h"}
  Includes <- MCIncludes
  Needed <- MCNeeded
  Hidden <- NoIncludes
  Versions = {1, 2}
  FlagSets = {"debug"}
  Compilers = {"g++", "clang++"}
  FamilyOf <- TwoFamilies
  Gxx = "g++"
  Generated = {}
  Regimes <- RevertsOnly
  Nothing = Nothing
INVARIANT UpToDate
