--------------------------------- MODULE Bank ---------------------------------
(***************************************************************************)
(* What the economy promises about its accounts, whatever the awaits,      *)
(* failures and restarts in between: funds move from one account to        *)
(* another in one step, only what is available moves or is held, and a     *)
(* held amount is spent or freed exactly once.  Economy implements it.     *)
(***************************************************************************)
EXTENDS Integers

CONSTANT Account

VARIABLES
  funds,   \* the settled balance of an account
  held     \* the part of it that reservations hold

TypeOK == funds \in [Account -> Nat] /\ held \in [Account -> Nat]

Init == funds \in [Account -> Nat] /\ held = [a \in Account |-> 0]

Available(a) == funds[a] - held[a]

\* A transfer or a conversion: both sides at once.
Move(a, b, n, m) ==
  /\ a # b /\ n <= Available(a)
  /\ funds' = [funds EXCEPT ![a] = @ - n, ![b] = @ + m]
  /\ UNCHANGED held

Hold(a, n) ==
  /\ n <= Available(a)
  /\ held' = [held EXCEPT ![a] = @ + n]
  /\ UNCHANGED funds

Spend(a, n) ==
  /\ n <= held[a] /\ n <= funds[a]
  /\ funds' = [funds EXCEPT ![a] = @ - n]
  /\ held' = [held EXCEPT ![a] = @ - n]

\* A parent that fails has its spending undone.
Unspend(a, n) ==
  /\ funds' = [funds EXCEPT ![a] = @ + n]
  /\ held' = [held EXCEPT ![a] = @ + n]

Free(a, n) ==
  /\ n <= held[a]
  /\ held' = [held EXCEPT ![a] = @ - n]
  /\ UNCHANGED funds

\* A correction by the Game Master, which reservations do not restrict.
Post(a, k) ==
  /\ funds[a] + k >= 0
  /\ funds' = [funds EXCEPT ![a] = @ + k]
  /\ UNCHANGED held

\* What a step that changes the two functions at a changed there.
Next ==
  \/ \E a \in Account :
       LET k == funds'[a] - funds[a]
           h == held'[a] - held[a]
       IN \/ h = 0 /\ k # 0 /\ Post(a, k)
          \/ h > 0 /\ k = 0 /\ Hold(a, h)
          \/ h > 0 /\ k = h /\ Unspend(a, h)
          \/ h < 0 /\ k = 0 /\ Free(a, -h)
          \/ h < 0 /\ k = h /\ Spend(a, -h)
  \/ \E a, b \in Account :
       LET n == funds[a] - funds'[a]
           m == funds'[b] - funds[b]
       IN n > 0 /\ m > 0 /\ Move(a, b, n, m)

Spec == Init /\ [][Next]_<<funds, held>>
===============================================================================
