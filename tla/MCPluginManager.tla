--------------------------- MODULE MCPluginManager ---------------------------
(* PluginManager on small instances; see README.md for the bounds.         *)
EXTENDS PluginManager, TLC

\* The third of four entries has no factory.
MCRegistered == {1, 2, 4}

\* Concurrent runs are interchangeable.
RunSymmetry == Permutations(Runs)

=============================================================================
