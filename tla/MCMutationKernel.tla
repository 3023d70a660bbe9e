--------------------------- MODULE MCMutationKernel ---------------------------
(***************************************************************************)
(* Instances of MutationKernel for TLC: two commands on the same Domain,   *)
(* or each on its own.                                                     *)
(***************************************************************************)
EXTENDS MutationKernel, TLC

CONSTANTS t1, t2, a, b

SameScope == (t1 :> {a}) @@ (t2 :> {a})

OwnScopes == (t1 :> {a}) @@ (t2 :> {b})

\* Two failures, none in a world where the scan runs beside sessions.
NoneLive == (TRUE :> 0) @@ (FALSE :> 2)

OneFailure == [l \in BOOLEAN |-> 1]

Symmetry == Permutations(Tx)
=============================================================================
