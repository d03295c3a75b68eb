----------------------------- MODULE MCPackages ------------------------------
(* A cloned, a copied and a placeholder package, for Packages. *)
EXTENDS Packages

MCKind == [n \in Names |-> CASE n = "git_pkg" -> "git" [] n = "dir_pkg" -> "copied"
                             [] n = "reg_pkg" -> "placeholder"]
==============================================================================
