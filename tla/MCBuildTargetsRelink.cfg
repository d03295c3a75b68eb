SPECIFICATION Spec
CONSTANTS
  Targets = {"lib", "app"}
  KindOf <- MCKind
  NameOf <- OwnNames
  SourcesOf <- MCSources
  LinksOf <- MCLinks
  ObjectOf <- MCObjects
  Files = {"lib.cpp", "app.cpp", "api.h"}
  Headers = {"api.h"}
  Includes <- NoIncludes
  Needed <- NoIncludes
  Hidden <- NoIncludes
  Versions = {1, 2}
  FlagSets = {"debug"}
  Compilers = {"g++"}
  FamilyOf <- TwoFamilies
  Gxx = "g++"
  Generated = {}
  Regimes <- RevertsOnly
  Nothing = Nothing
INVARIANT LinkedUpToDate
