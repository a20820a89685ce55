------------------------------- MODULE MCChains -------------------------------
(***************************************************************************)
(* Instances of Fit for TLC: seeds at both ends of the integer range,      *)
(* around zero, and close enough together to overlap; banks of two and of  *)
(* three items.                                                            *)
(***************************************************************************)
EXTENDS Fit

MCSeedChoices == {-MaxInt, 0, 1, MaxInt - 2, MaxInt, NA}

\* Chains that are stuck at one of three values, that jump half way or stray
\* in the middle, and that move.
Trace(s) ==
  CASE s \in {-4, 0} -> <<1, 1, 1, 1, 1>>
    [] s = -2 -> <<2, 2, 2, 2, 2>>
    [] s = 2  -> <<4, 4, 4, 4, 4>>
    [] s = 1  -> <<1, 1, 3, 4, 4>>
    [] s = 3  -> <<1, 1, 5, 1, 1>>
    [] OTHER  -> <<2, 5, 1, 3, 4>>

\* A number for every seed, bank, draw and item, and a bank's first item stuck.
MCResults ==
  [s \in Int32 |->
     [ate |-> Trace(s),
      alpha |-> [k \in 1 .. K |-> [i \in 1 .. 5 |-> [j \in 1 .. k + 1 |->
                   IF j = 1 THEN 10 * s + k
                            ELSE 1000 * (s + MaxInt) + 100 * k + 10 * ((i * (s + 7)) % 6) + j]]]]]
===============================================================================
