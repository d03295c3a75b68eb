------------------------- MODULE ConfigurationLoader -------------------------
(***************************************************************************)
(* From build.cpp to a BuildConfiguration.  `cppup build`, `package lock`  *)
(* and `compile-commands` compile the build.cpp of a project and of its    *)
(* subprojects into shared libraries under .cppup/build/config             *)
(* (configuration/compiler.cpp), load them (loader.cpp) and merge what     *)
(* they return (subproject_loader.hpp).  Libraries outlive the command,    *)
(* and the header they are compiled against comes out of the program, so   *)
(* what is loaded depends on edits, on upgrades of cppup, and on which     *)
(* commands ran, or were killed, before.                                   *)
(*                                                                         *)
(* A component of a path is a sequence of words, each with the "_", ":" or *)
(* "\" that joins it to the one before.  A library is named by the texts   *)
(* of the words of its path: all that joins them has become "_".  Files    *)
(* are known by versions, ages by who is newer.                            *)
(***************************************************************************)
EXTENDS Naturals, FiniteSets, Sequences, SequencesExt, Functions

CONSTANTS
  Projects,   \* [dirs, saved, own]: the directories, those whose build.cpp is edited,
              \* and the configuration.hpp in the project's own include or src
  Versions,   \* of a build.cpp
  Broken,     \* those that do not compile
  Throwing,   \* those whose configure() throws
  Headers,    \* the configuration.hpp of each version of cppup
  MaxName,    \* words in the longest name of a file
  Nothing, Torn

BuildSystem  == {"cppup", "cmake", "make", "header_only"}
Words        == [join : STRING, text : STRING]
Paths        == Seq(Seq(Words))
Declarations == [path : Paths, system : BuildSystem \cup {Nothing}]

ASSUME LoaderAssumption ==
  /\ Broken \subseteq Versions /\ Throwing \subseteq Versions \ Broken
  /\ Versions # Broken \cup Throwing
  /\ Nothing \notin Headers /\ Torn \notin Headers
  /\ MaxName \in Nat

ASSUME ProjectsAssumption ==
  \A p \in Projects :
    /\ <<>> \in DOMAIN p.dirs /\ p.saved \subseteq DOMAIN p.dirs
    /\ p.own \in Headers \cup {Nothing}
    /\ \A d \in DOMAIN p.dirs : p.dirs[d].declares \in Seq(Declarations)

VARIABLES
  project,    \* a directory has markers and declares subprojects [path, system]
  source,     \* the version of each build.cpp
  header,     \* .cppup/include/cppup/configuration.hpp
  library,    \* .cppup/build/config: what each library was compiled from
  newer,      \* <<d, n>>: the build.cpp of d was saved after library n was written
  program,    \* the header inside the cppup that is installed
  command, step,
  current,    \* the path being compiled and loaded
  reading,    \* the text of its build.cpp that the compiler has read
  worklist,   \* subprojects to come, with their parent's path
  merged, external,  \* what load_with_subprojects has so far
  loaded,     \* outcome of the last command
  unswept,    \* history: a header was replaced and libraries made with another left
  unwritten,  \* history: the command's write of the header went wrong
  unseen      \* history: libraries that look newer than a save they are without

disk     == <<project, source, header, library, newer, unseen>>
loading  == <<current, reading, worklist, merged, external>>
flaws    == <<unswept, unwritten>>
loadVars == <<disk, program, command, step, loading, loaded, flaws>>

Commands == {"build", "lock", "compile_commands"}
Idle     == command = "none"

(* Paths and names *)

Word(t) == [join |-> "", text |-> t]
Up      == <<Word("..")>>

\* The directory a path leads to from the root of the project, or above it.
DirOf(path) ==
  FoldLeft(LAMBDA d, c : IF c = Up /\ d # <<>> /\ Last(d) # Up THEN Front(d) ELSE Append(d, c),
           <<>>, path)

get_shared_library_path(path) ==
  LET words == FlattenSeq(path) IN [k \in DOMAIN words |-> words[k].text]

IsDirectory(path) == DirOf(path) \in DOMAIN project.dirs
Markers(path)     == project.dirs[DirOf(path)].markers

(* infer_build_system: one marker decides, several are ambiguous *)

infer_build_system(path) ==
  IF ~IsDirectory(path) THEN "error"
  ELSE LET kinds == Markers(path) \cap {"build.cpp", "cmake", "make"}
       IN  CASE kinds = {"build.cpp"} -> "cppup"
             [] kinds = {"cmake"} -> "cmake"
             [] kinds = {"make"} -> "make"
             [] kinds = {} /\ Markers(path) = {"headers"} -> "header_only"
             [] OTHER -> "error"

resolve_build_system(declared, path) ==
  IF declared.system # Nothing THEN declared.system ELSE infer_build_system(path)

(* The compiler *)

\* WRONG variant: a library that is there is taken.
RecompileIfMissing(path) == get_shared_library_path(path) \notin DOMAIN library

needs_recompilation(path) ==
  LET n == get_shared_library_path(path)
  IN  n \notin DOMAIN library \/ <<DirOf(path), n>> \in newer

HasBuildFile(path) == IsDirectory(path) /\ "build.cpp" \in Markers(path)

\* .cppup/include, where there is one and the command passes it, then include and src.
HeaderFound ==
  IF command # "compile_commands" /\ header # Nothing THEN header ELSE project.own

Compiles(path) ==
  /\ source[DirOf(path)] \notin Broken
  /\ Len(get_shared_library_path(path)) <= MaxName
  /\ HeaderFound \in Headers

Without(f, S) == Restrict(f, DOMAIN f \ S)

------------------------------------------------------------------------------
LoadInit ==
  /\ project \in Projects
  /\ source = [d \in DOMAIN project.dirs |-> CHOOSE v \in Versions \ (Broken \cup Throwing) : TRUE]
  /\ header = Nothing
  /\ library = <<>>
  /\ newer = {}
  /\ program \in Headers
  /\ command = "none" /\ step = "none"
  /\ current = <<>> /\ reading = Nothing
  /\ worklist = <<>> /\ merged = <<>> /\ external = <<>>
  /\ loaded = "none"
  /\ unswept = FALSE /\ unwritten = FALSE /\ unseen = {}

(* What the user does *)

LibrariesOf(d) == {n \in DOMAIN library : library[n] # Torn /\ library[n].dir = d}

\* build.cpp is saved, with another text, or one with an older time is put in its
\* place.  Commands may be running; after the look at the ages of a build.cpp and its
\* library nothing is asked of it before the next look.
Edit(d) ==
  /\ d \in project.saved /\ step # "load"
  /\ \E v \in Versions \ {source[d]} : source' = [source EXCEPT ![d] = v]
  /\ \/ /\ newer' = newer \cup {<<d, n>> : n \in DOMAIN library}
        /\ unseen' = unseen \ LibrariesOf(d)
     \/ /\ newer' = {e \in newer : e[1] # d}
        /\ unseen' = unseen \cup LibrariesOf(d)
  /\ UNCHANGED <<project, header, library, program, command, step, loading, loaded, flaws>>

\* Another cppup is installed.
Upgrade(p) ==
  /\ Idle /\ p # program
  /\ program' = p
  /\ UNCHANGED <<disk, command, step, loading, loaded, flaws>>

\* remove_all: of the libraries in S.
RemoveLibraries(S) ==
  /\ library' = Without(library, S)
  /\ newer' = {e \in newer : e[2] \notin S}
  /\ unseen' = unseen \ S

\* `cppup clean` removes .cppup/build, as far as it can.
CleanLibraries ==
  /\ Idle /\ library # <<>>
  /\ \E left \in {{}, DOMAIN library} :
       /\ RemoveLibraries(DOMAIN library \ left)
       /\ unswept' = (unswept /\ left # {})
  /\ UNCHANGED <<project, source, header, program, command, step, loading, loaded, unwritten>>

(* The header, then the root *)

Start(c) ==
  /\ Idle
  /\ "build.cpp" \in project.dirs[<<>>].markers
  /\ command' = c
  /\ step' = IF c = "compile_commands" THEN "compile" ELSE "header"
  /\ current' = <<>> /\ worklist' = <<>> /\ merged' = <<>> /\ external' = <<>>
  /\ loaded' = "none"
  /\ UNCHANGED <<disk, program, reading, flaws>>

HeaderIsCurrent ==
  /\ step = "header" /\ header = program
  /\ step' = "compile"
  /\ UNCHANGED <<disk, program, command, loading, loaded, flaws>>

\* Only materialize_configuration_header goes on to remove the libraries.
AfterTheHeader == IF command = "build" THEN "wipe" ELSE "compile"

\* Whether the file was opened is not looked at.
TruncateHeader ==
  /\ step = "header" /\ header # program
  /\ \/ header' = Torn /\ step' = "write" /\ unwritten' = unwritten
     \/ header' = header /\ step' = AfterTheHeader /\ unwritten' = TRUE
  /\ UNCHANGED <<project, source, library, newer, unseen, program, command, loading, loaded, unswept>>

\* Nor whether all of it was written.
WriteHeader ==
  /\ step = "write"
  /\ \/ /\ header' = program
        /\ unswept' = (unswept \/ library # <<>>) /\ unwritten' = unwritten
     \/ header' = Torn /\ unswept' = unswept /\ unwritten' = TRUE
  /\ step' = AfterTheHeader
  /\ UNCHANGED <<project, source, library, newer, unseen, program, command, loading, loaded>>

\* The error code of remove_all is not looked at.
WipeLibraries ==
  /\ step = "wipe"
  /\ \E left \in {{}, DOMAIN library} :
       /\ RemoveLibraries(DOMAIN library \ left)
       /\ unswept' = (unswept /\ left # {})
  /\ step' = "compile"
  /\ UNCHANGED <<project, source, header, program, command, loading, loaded, unwritten>>

\* What was not returned is gone with the process.
End(result) ==
  /\ command' = "none" /\ step' = "none"
  /\ loaded' = result /\ unwritten' = FALSE
  /\ current' = <<>> /\ reading' = Nothing /\ worklist' = <<>>
  /\ IF result = "ok" THEN UNCHANGED external ELSE merged' = <<>> /\ external' = <<>>

\* create_directories throws for a build.
HeaderFails ==
  /\ step = "header" /\ header = Nothing /\ command = "build"
  /\ End("error")
  /\ UNCHANGED <<disk, program, unswept>>

(* compile_and_load *)

Reuse ==
  /\ step = "compile" /\ HasBuildFile(current)
  /\ ~needs_recompilation(current)
  /\ step' = "load"
  /\ UNCHANGED <<disk, program, command, loading, loaded, flaws>>

\* Put library what under the name of path, newer than every build.cpp.
WriteLibrary(path, what) ==
  LET n == get_shared_library_path(path)
  IN  /\ library' = [m \in DOMAIN library \cup {n} |-> IF m = n THEN what ELSE library[m]]
      /\ newer' = {e \in newer : e[2] # n}
      /\ unseen' = (unseen \ {n}) \cup (IF what = Torn \/ what.source = source[what.dir]
                                       THEN {} ELSE {n})

\* The compiler runs; build.cpp may be saved before it is done.
StartCompiler ==
  /\ step = "compile" /\ HasBuildFile(current)
  /\ needs_recompilation(current) /\ Compiles(current)
  /\ reading' = source[DirOf(current)]
  /\ step' = "compiler"
  /\ UNCHANGED <<disk, program, command, current, worklist, merged, external, loaded, flaws>>

Compile ==
  /\ step = "compiler"
  /\ WriteLibrary(current, [dir |-> DirOf(current), source |-> reading, header |-> HeaderFound])
  /\ reading' = Nothing
  /\ step' = "load"
  /\ UNCHANGED <<project, source, header, program, command, current, worklist, merged, external,
                 loaded, flaws>>

\* WRONG variant: the compiler is tried again.
CompileAgain ==
  /\ step = "compile"
  /\ ~HasBuildFile(current) \/ (needs_recompilation(current) /\ ~Compiles(current))
  /\ UNCHANGED loadVars

\* The library of an earlier build.cpp stays.
CompileFails ==
  /\ step = "compile"
  /\ ~HasBuildFile(current) \/ (needs_recompilation(current) /\ ~Compiles(current))
  /\ End("error")
  /\ UNCHANGED <<disk, program, unswept>>

\* WRONG variant: a nested subproject is taken to be relative to the root.
PendingOfRoot(path) ==
  LET declared == project.dirs[DirOf(path)].declares
  IN  [i \in DOMAIN declared |-> [declared |-> declared[i], parent |-> <<>>]]

Pending(path) ==
  LET declared == project.dirs[DirOf(path)].declares
  IN  [i \in DOMAIN declared |-> [declared |-> declared[i], parent |-> path]]

\* What dlopen and configure() can make of the library of the current path.
Library == library[get_shared_library_path(current)]
Loads   == Library # Torn /\ Library.source \notin Throwing

\* merge_rebased_into; for compile-commands the root is all.
Load ==
  /\ step = "load" /\ Loads
  /\ merged' = Append(merged, [path |-> current, from |-> Library])
  /\ IF command = "compile_commands"
     THEN End("ok")
     ELSE /\ worklist' = worklist \o Pending(current)
          /\ step' = "next"
          /\ UNCHANGED <<command, current, reading, external, loaded, unwritten>>
  /\ UNCHANGED <<disk, program, unswept>>

LoadFails ==
  /\ step = "load" /\ ~Loads
  /\ End("error")
  /\ UNCHANGED <<disk, program, unswept>>

(* load_with_subprojects: the worklist is a stack *)

Popped     == Last(worklist)
PoppedPath == Popped.parent \o Popped.declared.path
System     == resolve_build_system(Popped.declared, PoppedPath)

Enter ==
  /\ step = "next" /\ worklist # <<>> /\ System = "cppup"
  /\ worklist' = Front(worklist)
  /\ current' = PoppedPath
  /\ step' = "compile"
  /\ UNCHANGED <<disk, program, command, reading, merged, external, loaded, flaws>>

Delegate ==
  /\ step = "next" /\ worklist # <<>> /\ System \notin {"cppup", "error"}
  /\ worklist' = Front(worklist)
  /\ external' = Append(external, [path |-> PoppedPath, system |-> System])
  /\ UNCHANGED <<disk, program, command, step, current, reading, merged, loaded, flaws>>

Unresolved ==
  /\ step = "next" /\ worklist # <<>> /\ System = "error"
  /\ End("error")
  /\ UNCHANGED <<disk, program, unswept>>

ReturnConfiguration ==
  /\ step = "next" /\ worklist = <<>>
  /\ End("ok")
  /\ UNCHANGED <<disk, program, merged, unswept>>

(* The command is killed; a compiler it was waiting for dies with its output *)
(* cut short, or not yet begun.                                              *)
Kill ==
  /\ ~Idle
  /\ \/ UNCHANGED <<library, newer, unseen>>
     \/ /\ step = "compiler"
        /\ \/ WriteLibrary(current, Torn)
           \/ RemoveLibraries({get_shared_library_path(current)})
  /\ End("killed")
  /\ UNCHANGED <<project, source, header, program, unswept>>

LoadStep ==
  \/ HeaderIsCurrent \/ TruncateHeader \/ WriteHeader \/ WipeLibraries \/ HeaderFails
  \/ Reuse \/ StartCompiler \/ Compile \/ CompileFails \/ Load \/ LoadFails
  \/ Enter \/ Delegate \/ Unresolved \/ ReturnConfiguration

LoadUser ==
  \/ \E d \in DOMAIN project.dirs : Edit(d)
  \/ \E p \in Headers : Upgrade(p)
  \/ \E c \in Commands : Start(c)
  \/ CleanLibraries
  \/ Kill

LoadNext == LoadStep \/ LoadUser

\* The system runs a command that is not killed.
LoadSpec == LoadInit /\ [][LoadNext]_loadVars /\ WF_loadVars(LoadStep)

------------------------------------------------------------------------------
Libraries == [dir : DOMAIN project.dirs, source : Versions \ Broken, header : Headers]

LoadTypeOK ==
  /\ project \in Projects
  /\ source \in [DOMAIN project.dirs -> Versions]
  /\ header \in Headers \cup {Nothing, Torn}
  /\ program \in Headers
  /\ \A n \in DOMAIN library : library[n] = Torn \/ library[n] \in Libraries
  /\ newer \subseteq (DOMAIN project.dirs) \X (DOMAIN library)
  /\ command \in Commands \cup {"none"}
  /\ step \in {"none", "header", "write", "wipe", "compile", "compiler", "load", "next"}
  /\ (step = "none") = Idle
  /\ current \in Paths
  /\ worklist \in Seq([declared : Declarations, parent : Paths])
  /\ merged \in Seq([path : Paths, from : Libraries])
  /\ external \in Seq([path : Paths, system : BuildSystem \ {"cppup"}])
  /\ loaded \in {"none", "ok", "error", "killed"}
  /\ unswept \in BOOLEAN /\ unwritten \in BOOLEAN /\ unseen \subseteq DOMAIN library
  /\ step = "compiler" => reading \in Versions \ Broken

\* What a step has just loaded.
News == {merged'[i] : i \in {j \in DOMAIN merged' : j > Len(merged)}}

\* Whatever was edited, upgraded, cleaned and killed before, each directory's
\* part is what its own present build.cpp says (compiler.cpp looks at ages only),
\* and build and lock read it through the structures of the running program, which
\* are those it was compiled with.  Exceptions: a build.cpp that was saved while it
\* was compiled, or that has an older time than its library; and for the header, one
\* that could not be written, libraries left when it was replaced (by `package lock`,
\* package.cpp:226, by a build that was killed or could not remove them), and those
\* made with a header of the project's own.
LoadsCurrent ==
  [][\A part \in News :
       /\ part.from.dir = DirOf(part.path)
       /\ \/ part.from.source = source[DirOf(part.path)]
          \/ get_shared_library_path(part.path) \in unseen
       /\ command # "compile_commands" =>
            /\ header = program \/ unwritten
            /\ \/ part.from.header \in {program, project.own}
               \/ unswept \/ unwritten]_loadVars

\* Without the libraries that are left as an exception: where the header was written
\* and the project has none of its own, build and lock never read a library made
\* with the header of another cppup, as the comment at build.cpp:778-782 would have it.
LoadsThisProgramsLayout ==
  [][command # "compile_commands" /\ ~unwritten /\ project.own = Nothing =>
       \A part \in News : part.from.header = program]_loadVars

(* The tree of subprojects: a node is known by the chain of declarations, each *)
(* by its place in the list, that leads down to it.                            *)
Declares(p, path) == IF DirOf(path) \in DOMAIN p.dirs THEN p.dirs[DirOf(path)].declares ELSE <<>>

\* The path i leads to from the directory a path leads to.
Below(p, path, i) ==
  IF i \in DOMAIN Declares(p, path) THEN path \o Declares(p, path)[i].path ELSE path

PathsOf(p) ==
  LET path[chain \in Seq(Nat)] ==
        IF chain = <<>> THEN <<>> ELSE Below(p, path[Front(chain)], Last(chain))
  IN  path

PathOf(chain)     == PathsOf(project)[chain]
DeclaredAt(chain) == Declares(project, PathOf(Front(chain)))[Last(chain)]
SystemOf(chain)   ==
  IF chain = <<>> THEN "cppup" ELSE resolve_build_system(DeclaredAt(chain), PathOf(chain))

IsChain(chain) ==
  \A k \in DOMAIN chain : LET above == SubSeq(chain, 1, k - 1) IN
    /\ SystemOf(above) = "cppup"
    /\ chain[k] \in DOMAIN Declares(project, PathOf(above))

\* No chain is longer than there are directories above its end.
Chains ==
  LET places == UNION {DOMAIN project.dirs[d].declares : d \in DOMAIN project.dirs}
  IN  {chain \in UNION {[1..k -> places] : k \in 0..Len(merged)} : IsChain(chain)}

Node(chain)  == <<PathOf(chain), SystemOf(chain)>>
Nodes        == [i \in DOMAIN merged |-> <<merged[i].path, "cppup">>]
                  \o [i \in DOMAIN external |-> <<external[i].path, external[i].system>>]
Times(s, x)  == Cardinality({i \in DOMAIN s : s[i] = x})

\* A load that succeeds has merged every cppup directory and handed on every
\* other, as often as the tree declares it and under its path from the root.
MergesTheTree ==
  loaded = "ok" /\ Len(Nodes) > 1 =>
    /\ \A chain \in Chains :
         Times(Nodes, Node(chain)) = Cardinality({other \in Chains : Node(other) = Node(chain)})
    /\ Len(Nodes) = Cardinality(Chains)

\* A load ends, even when a subproject leads back to one that contains it: its
\* name grows with every turn until no file can have it, and the compiler fails.
LoadReturns == ~Idle ~> Idle

------------------------------------------------------------------------------
(* Why what is loaded is current: the inductive invariant *)

\* A library no older than the build.cpp it was made from says what that says, if it
\* has not missed a save.
AgesInv ==
  \A n \in DOMAIN library \ unseen :
    library[n] # Torn /\ <<library[n].dir, n>> \notin newer =>
      library[n].source = source[library[n].dir]

\* The libraries were made with the header there is, or the project's own, unless some
\* were left when it was replaced; once build and lock are past the header, it is the
\* program's, if it could be written.
HeaderInv ==
  /\ header \in Headers /\ ~unswept =>
       \A n \in DOMAIN library :
         library[n] # Torn => library[n].header \in {header, project.own}
  /\ command \in {"build", "lock"} /\ step \notin {"header", "write"} =>
       header = program \/ unwritten

\* What is being compiled has a header and a name; what is about to be loaded needs no
\* compilation.
ReadyInv ==
  /\ step = "compiler" =>
       /\ HasBuildFile(current) /\ HeaderFound \in Headers
       /\ Len(get_shared_library_path(current)) <= MaxName
  /\ step = "load" => HasBuildFile(current) /\ ~needs_recompilation(current)

LoadInv == LoadTypeOK /\ AgesInv /\ HeaderInv /\ ReadyInv
==============================================================================
