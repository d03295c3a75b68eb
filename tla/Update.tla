------------------------------- MODULE Update --------------------------------
(***************************************************************************)
(* `cppup update` (cli/commands/update.cpp): a release is downloaded into  *)
(* /tmp, compared with its published checksum and swapped in for the       *)
(* installed binary, which is moved aside.  Any step may fail, and the     *)
(* process may be killed between two of them, or in the middle of the copy *)
(* that stands in for the swap when /tmp is another file system.  The      *)
(* update need not be run by the binary it replaces: the bootstrap has the *)
(* command too.                                                            *)
(***************************************************************************)
EXTENDS Naturals, Sequences

CONSTANTS
  Releases,   \* the binaries published, known by their version
  NoFile,     \* no such file
  Partial     \* a file cut short, on its way here or from /tmp

ASSUME UpdateAssumption ==
  NoFile \notin Releases /\ Partial \notin Releases /\ NoFile # Partial

VARIABLES
  target, backup,  \* <install_dir>/cppup and cppup.prev
  staged,          \* the download, under a name of its own in /tmp
  wanted,          \* the version asked for, or the latest
  at,              \* where executeUpdate is
  updated,         \* outcome of the last update
  cut              \* history: a copy into target was cut short

install    == <<target, backup>>
updateVars == <<install, staged, wanted, at, updated, cut>>

Files == Releases \cup {NoFile, Partial}

(* Versions as parse_version_components leaves them; what is missing is 0 *)

Component(version, i) == IF i \in DOMAIN version THEN version[i] ELSE 0

is_newer_version(latest, running) ==
  \E i \in DOMAIN latest \cup DOMAIN running :
    /\ Component(latest, i) > Component(running, i)
    /\ \A j \in 1..(i - 1) : Component(latest, j) = Component(running, j)

------------------------------------------------------------------------------
UpdateInit ==
  /\ target \in Releases \cup {NoFile}
  /\ backup = NoFile
  /\ staged = NoFile
  /\ wanted \in Releases
  /\ at = "idle"
  /\ updated = "none"
  /\ cut = FALSE

Leave(outcome) == at' = "idle" /\ updated' = outcome

StartUpdate ==
  /\ at = "idle"
  /\ wanted' \in Releases
  /\ staged' = NoFile
  /\ at' = "download" /\ updated' = "none"
  /\ UNCHANGED <<install, cut>>

\* What curl leaves when it says it succeeded need not be what was published.
Download ==
  /\ at = "download"
  /\ staged' \in {wanted, Partial}
  /\ at' = "verify"
  /\ UNCHANGED <<install, wanted, updated, cut>>

\* The download fails; or its checksum cannot be had, or is another.
DownloadFails ==
  /\ at = "download"
  /\ staged' \in {NoFile, Partial}
  /\ Leave("error")
  /\ UNCHANGED <<install, wanted, cut>>

\* WRONG variant: the checksum is fetched, and looked at by nobody.
VerifyNothing ==
  /\ at = "verify"
  /\ at' = "install"
  /\ UNCHANGED <<install, staged, wanted, updated, cut>>

Verify ==
  /\ at = "verify" /\ staged = wanted
  /\ at' = "install"
  /\ UNCHANGED <<install, staged, wanted, updated, cut>>

VerifyFails ==
  /\ at = "verify"
  /\ staged' = NoFile
  /\ Leave("error")
  /\ UNCHANGED <<install, wanted, cut>>

(* install_atomic *)

\* WRONG variant: the backup goes before it is known that there is a target.
DropAnyBackup ==
  /\ at = "install"
  /\ backup' = NoFile
  /\ at' = IF target = NoFile THEN "chmod" ELSE "aside"
  /\ UNCHANGED <<target, staged, wanted, updated, cut>>

\* A backup that cannot be removed is left to be overwritten.
DropStaleBackup ==
  /\ at = "install"
  /\ IF target = NoFile
     THEN at' = "chmod" /\ UNCHANGED backup
     ELSE at' = "aside" /\ backup' \in {NoFile, backup}
  /\ UNCHANGED <<target, staged, wanted, updated, cut>>

MoveAside ==
  /\ at = "aside"
  /\ backup' = target /\ target' = NoFile
  /\ at' = "chmod"
  /\ UNCHANGED <<staged, wanted, updated, cut>>

MakeExecutable ==
  /\ at = "chmod"
  /\ at' = "swap"
  /\ UNCHANGED <<install, staged, wanted, updated, cut>>

Swap ==
  /\ at = "swap"
  /\ target' = staged /\ staged' = NoFile
  /\ Leave("installed")
  /\ UNCHANGED <<backup, wanted, cut>>

\* The rename is refused, as it is from one file system to another.
BeginCopy ==
  /\ at = "swap"
  /\ target' = Partial
  /\ at' = "copy"
  /\ UNCHANGED <<backup, staged, wanted, updated, cut>>

\* The staged file is removed if it can be.
EndCopy ==
  /\ at = "copy"
  /\ target' = staged
  /\ staged' \in {NoFile, staged}
  /\ Leave("installed")
  /\ UNCHANGED <<backup, wanted, cut>>

\* No directory, no rename, no chmod, or no room for the copy: what was done stays.
InstallFails ==
  /\ at \in {"install", "aside", "chmod", "swap", "copy"}
  /\ Leave("error")
  /\ cut' = (cut \/ at = "copy")
  /\ UNCHANGED <<install, staged, wanted>>

KillUpdate ==
  /\ at # "idle"
  /\ Leave("killed")
  /\ cut' = (cut \/ at = "copy")
  /\ UNCHANGED <<install, staged, wanted>>

UpdateNext ==
  \/ StartUpdate \/ Download \/ DownloadFails \/ Verify \/ VerifyFails
  \/ DropStaleBackup \/ MoveAside \/ MakeExecutable
  \/ Swap \/ BeginCopy \/ EndCopy \/ InstallFails \/ KillUpdate

UpdateSpec == UpdateInit /\ [][UpdateNext]_updateVars

------------------------------------------------------------------------------
UpdateTypeOK ==
  /\ target \in Files /\ backup \in Files /\ staged \in Files
  /\ wanted \in Releases
  /\ at \in {"idle", "download", "verify", "install", "aside", "chmod", "swap", "copy"}
  /\ updated \in {"none", "installed", "error", "killed"}
  /\ cut \in BOOLEAN

\* What is installed is what was verified (update.cpp:534-540): after an update that
\* says so the binary is the release it was asked for, and as long as no copy was
\* cut short neither the binary nor the one moved aside is anything but a release.
InstalledIsVerified ==
  /\ updated = "installed" => target = wanted
  /\ ~cut => /\ target \in Releases \/ target = NoFile \/ at = "copy"
             /\ backup \in Releases \cup {NoFile}

Runs(f) == f \in Releases

\* install_atomic takes the installed binary away before it puts the new one there
\* (update.cpp:309-347): whichever step fails and wherever updates are killed, time
\* and again, a binary that runs is left as cppup or as cppup.prev, if there was one.
\* Not so once a copy was cut short: the next update moves the torn file aside, over
\* the last binary that runs.
LastBinaryKept ==
  [][~cut' /\ (Runs(target) \/ Runs(backup)) => Runs(target') \/ Runs(backup')]_updateVars

------------------------------------------------------------------------------
(* The inductive invariant behind them *)

\* What goes in is what was verified; no binary is there while it goes in; and what
\* was moved aside, or is there, runs, unless a copy was cut short.
UpdateInv ==
  /\ UpdateTypeOK
  /\ at \in {"install", "aside", "chmod", "swap", "copy"} => staged = wanted
  /\ at \in {"chmod", "swap"} => target = NoFile
  /\ at = "aside" => target # NoFile
  /\ updated = "installed" => at = "idle" /\ target = wanted
  /\ at # "copy" /\ ~cut => target # Partial
  /\ ~cut => backup # Partial
==============================================================================
