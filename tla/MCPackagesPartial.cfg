SPECIFICATION Spec
CONSTANTS
  Names = {"git_pkg", "dir_pkg", "reg_pkg"}
  KindOf <- MCKind
  Versions = {"v1"}
  Toolchains = {"g++"}
  OldToolchains = {"clang++"}
  Profiles = {"debug"}
  Registries = {"local"}
  Nothing = Nothing
  Torn = Torn
INVARIANT SyncedIsComplete
