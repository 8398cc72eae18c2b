--------------------------- MODULE MCTransaction ---------------------------
(***************************************************************************)
(* Constants for model checking Transaction.                               *)
(***************************************************************************)
EXTENDS Transaction, TLC

CONSTANTS t1, t2, t3, o1, o2, o3, i1, i2

Symmetry == Permutations({o1, o2, o3} \cap Ops) \cup Permutations({i1, i2} \cap Inodes)
            \cup Permutations({t1, t2, t3} \cap Threads)
============================================================================
