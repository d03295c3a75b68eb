SPECIFICATION Spec
CONSTANTS
  Projects <- MCProjects
  Versions = {1, 2, 3, 4}
  Broken = {3}
  Throwing = {4}
  Headers = {"old", "new"}
  MaxName = 3
  Nothing = Nothing
  Torn = Torn
  Releases = {"old", "new"}
  NoFile = NoFile
  Partial = Partial
  SelfUpdating <- MCSelf
  LibraryNames <- MCLibraryNames
  Programs <- MCLinkPrograms
  RootLists <- MCRootLists
  link_flags <- MCLinkFlags
  PackageNames <- MCPackageNames
  Nested <- MCNested
  Manifests <- MCManifests
  FrameworkLists <- MCFrameworkLists
INVARIANT
  FrameworksAreLocked
CHECK_DEADLOCK FALSE
