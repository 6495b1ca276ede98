--------------------------- MODULE MCCommandReferences ---------------------------
(* CommandReferences on small sets, the resources and installers symmetric.     *)
EXTENDS CommandReferences, TLC

Symmetry == Permutations(Resources) \union Permutations(Installers)
            \union Permutations(Generations) \union Permutations(Requests)
==================================================================================
