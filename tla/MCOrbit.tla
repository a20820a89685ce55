-------------------------------- MODULE MCOrbit --------------------------------
(***************************************************************************)
(* Orbit on short lines.  The states past the ends of the line are not     *)
(* linked to it.                                                           *)
(***************************************************************************)
EXTENDS Orbit

CONSTANTS Last, Turns, Heavy

MCLine == 0 .. Last

Inner == 0 .. Last - 1

Spans(n) == {<<a, a + n - 1>> : a \in 0 .. Last - n + 1}

\* At most one link missing, at most two intervals that turn.
MostLinking == {Inner} \cup {Inner \ {i} : i \in Inner}
FewTurning  == {t \in SUBSET (Spans(2) \cup Spans(4) \cup Spans(8)) :
                  Cardinality(t) <= Turns}

\* Some states may be twice as likely as the others.
MCWeighting ==
  {[i \in MCLine |-> IF i \in h THEN 2 ELSE 1] : h \in SUBSET Heavy}
===============================================================================
