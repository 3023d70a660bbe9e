------------------------------ MODULE MCEconomy ------------------------------
(***************************************************************************)
(* Instances of Economy for TLC: two Domains with gold, the first one with *)
(* food as well.                                                           *)
(***************************************************************************)
EXTENDS Economy

CONSTANTS d1, d2, gold, food

Accounts == {<<d1, gold>>, <<d2, gold>>, <<d1, food>>}

Balances == [a \in Accounts |-> CASE a = <<d1, gold>> -> 2
                                  [] a = <<d2, gold>> -> 1
                                  [] OTHER -> -1]

Full == [a \in Accounts |-> 2]

Limits == [a \in Accounts |-> 3]

OneKey == <<[acct |-> <<d1, gold>>, delta |-> -1]>>

NoKeys == <<>>
===============================================================================
