------------------------------ MODULE MCPython ------------------------------
(***************************************************************************)
(* A Python volume used by two threads, with a file object for the volume  *)
(* and one that is looked at meanwhile.                                    *)
(***************************************************************************)
EXTENDS PythonThreads, TLC

CONSTANTS t1, t2, f1, f2, h1, h2

Symmetry == Permutations({f1, f2}) \union Permutations({h1, h2})
=============================================================================
