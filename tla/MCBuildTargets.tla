--------------------------- MODULE MCBuildTargets ----------------------------
(* A library, a binary that links it, and a test, for BuildTargets. *)
EXTENDS BuildTargets

MCKind == [t \in Targets |-> CASE t = "lib" -> "library" [] t = "app" -> "binary"
                               [] t = "check" -> "test"]
MCSources == [t \in Targets |-> {CASE t = "lib" -> "lib.cpp" [] t = "app" -> "app.cpp"
                                   [] t = "check" -> "check.cpp"}]
MCLinks == [t \in Targets |-> IF t = "lib" THEN {} ELSE {"lib"} \cap Targets]
NoLinks == [t \in Targets |-> {}]
OwnNames == [t \in Targets |-> t]

\* app.cpp names the header in a comment.
MCObjects  == [t \in Targets |-> [s \in MCSources[t] |-> <<s, t, MCKind[t]>>]]
MCIncludes == [s \in Files |-> IF s \in {"lib.cpp", "app.cpp"} THEN {"api.h"} ELSE {}]
MCNeeded   == [s \in Files |-> IF s = "lib.cpp" THEN {"api.h"} ELSE {}]
NoIncludes == [s \in Files |-> {}]
TwoFamilies == [c \in Compilers |-> c]

\* What may happen, in one kind of behaviour.
Regime(S) == [reverts |-> "reverts" \in S, editsDuringBuild |-> "edits" \in S,
              partialCleans |-> "cleans" \in S, crashes |-> "crashes" \in S]
MCRegimes    == {Regime({"reverts", "cleans"}), Regime({"crashes"})}
RevertsOnly  == {Regime({"reverts", "cleans"})}
EditsAnytime == {Regime({"reverts", "cleans", "edits"})}
CrashesAfterCleans == {Regime({"crashes", "cleans"})}
==============================================================================
