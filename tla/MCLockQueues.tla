---------------------------- MODULE MCLockQueues ----------------------------
(***************************************************************************)
(* An instance of LockQueues for TLC: a command A with a nested request    *)
(* that can be isolated as recA, and three competitors whose keys cross.   *)
(***************************************************************************)
EXTENDS LockQueues, TLC

CONSTANTS a, b, A, B, C, recA, A1, A2, B1, C1, X1, X2

OwnerMap ==
  (A1 :> A) @@ (A2 :> A) @@ (B1 :> B) @@ (C1 :> C) @@ (X1 :> recA)
    @@ (X2 :> recA)

KeyMap ==
  (A1 :> {a, b}) @@ (A2 :> {a}) @@ (B1 :> {b}) @@ (C1 :> {a, b})
    @@ (X1 :> {a, b}) @@ (X2 :> {b})
=============================================================================
