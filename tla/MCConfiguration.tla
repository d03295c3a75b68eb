--------------------------- MODULE MCConfiguration ---------------------------
(***************************************************************************)
(* What is done with a build.cpp: it is compiled, loaded and merged with   *)
(* those of its subprojects by a cppup that is updated now and then        *)
(* (Installation), or what it says is walked, by `cppup package lock` over *)
(* the packages and by the build over the libraries of an executable       *)
(* (LockWalk, LinkResolution).  The walks do not depend on how the         *)
(* configuration was loaded, so an instance does one or the other.         *)
(***************************************************************************)
EXTENDS Installation, LinkResolution, LockWalk, TLC

Few(S, n) == UNION {[1..k -> S] : k \in 0..n}

(* Libraries: every graph of three names, any of them undeclared, with lists *)
(* of at most two, the same library twice included.  Roots are taken up to a *)
(* renaming of the libraries, since the graphs are all there are; flags      *)
(* differ by name, so two roots come in three orders.                        *)
MCLibraryNames == {"a", "b", "c"}
MCLinkLists    == Few(MCLibraryNames, 2)
MCRootLists    == {<<>>, <<"a">>, <<"a", "a">>, <<"a", "b">>, <<"b", "c">>, <<"c", "a">>}
MCLinkPrograms == UNION {[D -> MCLinkLists] : D \in SUBSET MCLibraryNames}
MCLinkFlags    == [n \in MCLibraryNames |->
                     CASE n = "a" -> <<"-lm", "-ldl">>
                       [] n = "b" -> <<"-lz", "-lm">>
                       [] n = "c" -> <<"-ldl", "-lz", "-ldl">>]

(* Packages: all trees of two levels, taken two at a time, and those of      *)
(* three levels over one tree of two, or over two that do not branch.        *)
MCPackageNames == 1..3
Tree(lists)    == [name : MCPackageNames, dependencies : lists]
Leaves         == Tree({<<>>})
Small          == Tree(Few(Leaves, 2))
Thin           == Tree(Few(Leaves, 1))
Tall           == Tree(Few(Small, 1) \cup Few(Thin, 2))
MCNested       == <<Leaves, Small, Tall>>
MCManifests    == Few(Small, 2) \cup Few(Tall, 1)

(* No framework, or one, with or without a package of its own and a plugin  *)
(* with or without a default.                                               *)
Framework(n, package, default) == [name |-> n, package |-> package, default |-> default]
MCFrameworkLists ==
  {<<>>} \cup {<<Framework(3, p, d)>> : p \in {<<>>, <<[name |-> 2, dependencies |-> <<>>]>>},
                                        d \in {<<>>, <<[name |-> 1, dependencies |-> <<>>]>>}}

(* Projects: alone, with a header of its own, with one subproject whose      *)
(* build.cpp is edited, nested, diamonds and detours over .., a subproject   *)
(* two levels up, one that leads back, directories that are ambiguous,       *)
(* missing or without any marker.                                            *)
a == <<Word("a")>>
b == <<Word("b")>>
Dir(m, d) == [markers |-> m, declares |-> d]
Sub(p, s) == [path |-> p, system |-> s]
Plain(p) == Sub(p, Nothing)
Cpp(d) == Dir({"build.cpp"}, d)
P(d, s) == [dirs |-> d, saved |-> s, own |-> Nothing]
RootOf(d) == <<>> :> Cpp(d)

Alone == P(RootOf(<<>>), {})
MCProjects == {
  Alone,
  [P(RootOf(<<>>), {<<>>}) EXCEPT !.own = "new"],
  P(RootOf(<<Plain(<<a>>)>>) @@ <<a>> :> Cpp(<<>>), {<<a>>}),
  P(RootOf(<<Plain(<<a>>), Plain(<<b>>)>>) @@ <<a>> :> Cpp(<<Plain(<<b>>)>>)
     @@ <<b>> :> Dir({"cmake"}, <<>>) @@ <<a, b>> :> Cpp(<<>>), {}),
  P(RootOf(<<Plain(<<a>>), Plain(<<a>>)>>) @@ <<a>> :> Cpp(<<Plain(<<b>>), Plain(<<Up, b>>)>>)
     @@ <<a, b>> :> Dir({"headers"}, <<>>) @@ <<b>> :> Dir({"make"}, <<>>), {}),
  P(RootOf(<<Plain(<<a>>), Sub(<<b>>, "cmake")>>) @@ <<a>> :> Cpp(<<Plain(<<Up>>)>>)
     @@ <<b>> :> Dir({"cmake", "build.cpp"}, <<>>), {}),
  P(RootOf(<<Plain(<<a>>), Plain(<<b>>)>>) @@ <<a>> :> Cpp(<<>>)
     @@ <<b>> :> Dir({"cmake", "build.cpp"}, <<>>), {}),
  P(RootOf(<<Plain(<<b>>)>>), {}),
  P(RootOf(<<Plain(<<Up, Up, b>>)>>) @@ <<b>> :> Dir({"cmake"}, <<>>)
     @@ <<Up, Up, b>> :> Cpp(<<>>), {}),
  P(RootOf(<<Sub(<<b>>, "cppup")>>) @@ <<b>> :> Dir({"headers", "sources"}, <<>>), {})}
MCSelf == {Alone}

------------------------------------------------------------------------------
\* The first of each, for an instance that is about something else.
QuietProject == project = Alone /\ program = "old" /\ target = "old" /\ wanted = "old"
NoPackages    == packages = <<>> /\ frameworks = <<>>
NoLibraries   == libraries = <<>> /\ roots = <<>>
NothingToWalk == NoPackages /\ NoLibraries

Init ==
  /\ \/ LinkInit /\ NoLibraries /\ LockInit
     \/ LockInit /\ NoPackages /\ LinkInit
  /\ IF NothingToWalk THEN InstallationInit ELSE QuietProject /\ InstallationInit

Walk == \/ LockNext /\ UNCHANGED <<linkVars, installationVars>>
        \/ answer # "none" /\ LinkNext /\ UNCHANGED <<lockVars, installationVars>>

Use == /\ NothingToWalk /\ answer # "none" /\ outcome # "none"
       /\ InstallationNext /\ UNCHANGED <<linkVars, lockVars>>

Next == Walk \/ Use

configVars == <<linkVars, lockVars, installationVars>>

\* What cppup does by itself: it walks, and then runs a command that is not killed.
Proceed == Walk \/ (LoadProject /\ UNCHANGED <<linkVars, lockVars>>)

Spec == Init /\ [][Next]_configVars /\ WF_configVars(Proceed)

\* Both walks end, whatever cycles the libraries or the names of packages form:
\* cppup must answer, with an order or an error, and not run for ever.
WalksReturn == <>(answer # "none" /\ outcome # "none")

\* What the loader, the update and the walk over packages rest on: types, ages,
\* the header, the stack of the walk and what is emitted fit together.
ConfigurationInv == LockInv /\ InstallationInv
==============================================================================
