---------------------------- MODULE MCWorkspaceTrust ----------------------------
(* WorkspaceTrust on a home directory, a repository in it and one directory   *)
(* of the repository.                                                         *)
EXTENDS WorkspaceTrust, TLC

CONSTANTS home, repo, sub

MCPaths == {home, repo, sub}
MCAbove == (home :> {home}) @@ (repo :> {repo, home}) @@ (sub :> MCPaths)

Symmetry == Permutations(Environments) \union Permutations(Lineages)
            \union Permutations(Transactions)
================================================================================
