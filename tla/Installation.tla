---------------------------- MODULE Installation -----------------------------
(***************************************************************************)
(* A project and the cppup it is built with: ConfigurationLoader, whose    *)
(* commands are run by the binary that Update replaces.  The header inside *)
(* the program is that of the binary that is installed.                    *)
(***************************************************************************)
EXTENDS ConfigurationLoader, Update

CONSTANT SelfUpdating   \* the projects between whose commands cppup updates itself

ASSUME InstallationAssumption == Releases = Headers /\ SelfUpdating \subseteq Projects

installationVars == <<loadVars, updateVars>>

InstallationInit ==
  /\ LoadInit /\ UpdateInit
  /\ target \in {program, NoFile}
  /\ project \notin SelfUpdating => target = program

\* An update that moved the binary aside and stopped has left the commands of a
\* project without a cppup, or with half of one.
RunCommand ==
  /\ \E c \in Commands : Start(c)
  /\ target \in Releases
  /\ UNCHANGED updateVars

UpdateItself ==
  /\ project \in SelfUpdating /\ Idle
  /\ UpdateNext
  /\ program' = IF target' \in Releases THEN target' ELSE program
  /\ UNCHANGED <<disk, command, step, loading, loaded, flaws>>

\* Another way to install: a package manager puts the binary in place at once.
InstallAnother ==
  /\ project \notin SelfUpdating
  /\ \E p \in Headers : Upgrade(p)
  /\ target' = program'
  /\ UNCHANGED <<backup, staged, wanted, at, updated, cut>>

LoadProject == LoadStep /\ UNCHANGED updateVars

UseProject ==
  /\ \/ \E d \in DOMAIN project.dirs : Edit(d)
     \/ CleanLibraries
     \/ Kill
  /\ UNCHANGED updateVars

InstallationNext ==
  LoadProject \/ RunCommand \/ UseProject \/ UpdateItself \/ InstallAnother

InstallationSpec == InstallationInit /\ [][InstallationNext]_installationVars

------------------------------------------------------------------------------
\* What the loader and the update keep holds of the two together; a project that
\* another way to install serves never sees an update.
InstallationInv ==
  /\ LoadInv /\ UpdateInv
  /\ project \notin SelfUpdating => at = "idle" /\ updated = "none" /\ target = program
==============================================================================
