---------------------------- MODULE MCLockManager ----------------------------
(***************************************************************************)
(* Instances of LockManager for TLC.                                       *)
(*                                                                         *)
(* Core: command A holds {a, b} and acquires a again from a service it     *)
(* calls; it may end in an isolation, which moves its handle to recA; B    *)
(* and C compete for overlapping keys, and another request of recA comes   *)
(* for b.  A1 and X2 have neither a timer nor a signal.                    *)
(*                                                                         *)
(* Nested: one command, its nested request and a competitor.               *)
(***************************************************************************)
EXTENDS LockManager, TLC

CONSTANTS a, b, A, B, C, recA, A1, A2, B1, C1, X1, X2

CoreOwnerOf ==
  (A1 :> A) @@ (A2 :> A) @@ (B1 :> B) @@ (C1 :> C)
    @@ (X1 :> recA) @@ (X2 :> recA)

CoreKeysOf ==
  (A1 :> {a, b}) @@ (A2 :> {a}) @@ (B1 :> {b}) @@ (C1 :> {a, b})
    @@ (X1 :> {a, b}) @@ (X2 :> {b})

NestedOwnerOf == (A1 :> A) @@ (A2 :> A) @@ (B1 :> B)

NestedKeysOf == (A1 :> {a, b}) @@ (A2 :> {a}) @@ (B1 :> {a})
=============================================================================
