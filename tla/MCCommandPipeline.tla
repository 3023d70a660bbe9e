--------------------------- MODULE MCCommandPipeline --------------------------
(***************************************************************************)
(* Instances of CommandPipeline for TLC.                                   *)
(*                                                                         *)
(* Core: command c1 is delivered twice, the second time perhaps with       *)
(* another content; c2 and s1, of the system, compete with it for one      *)
(* permit.                                                                 *)
(* Small: c1 delivered twice, and the economy command e1.                  *)
(***************************************************************************)
EXTENDS CommandPipeline, TLC

CONSTANTS c1, c2, e1, s1, D1, D2, D3, D4

CoreCommandOf == (D1 :> c1) @@ (D2 :> c1) @@ (D3 :> c2) @@ (D4 :> s1)

CoreContentOf ==
  [d \in {D1, D2, D3, D4} |-> IF d = D2 THEN {"a", "b"} ELSE {"a"}]

SmallCommandOf == (D1 :> c1) @@ (D2 :> c1) @@ (D4 :> e1)

SmallContentOf == [d \in {D1, D2, D4} |-> {"a"}]
=============================================================================
