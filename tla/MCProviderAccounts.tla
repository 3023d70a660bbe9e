-------------------------- MODULE MCProviderAccounts --------------------------
(***************************************************************************)
(* A small instance: two Domains with an account each, adjustments of one  *)
(* unit up or down, and two steps of parents, one on each account.         *)
(***************************************************************************)
EXTENDS ProviderAccounts, TLC

OneEach == [a \in Acct |-> 1]

Deltas == {-1, 1}

TwoSteps == 101 :> [acct |-> 1, n |-> -1] @@ 102 :> [acct |-> 2, n |-> 1]

OneStep == 101 :> [acct |-> 1, n |-> -1]
===============================================================================
