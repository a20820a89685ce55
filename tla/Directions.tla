------------------------------ MODULE Directions ------------------------------
(***************************************************************************)
(* The directions in time a trajectory is simulated in.                    *)
(***************************************************************************)
Direction == {"forward", "backward"}

Opposite(d) == IF d = "forward" THEN "backward" ELSE "forward"
===============================================================================
