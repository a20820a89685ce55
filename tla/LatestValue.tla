------------------------------ MODULE LatestValue -----------------------------
(***************************************************************************)
(* What a single-producer, single-consumer buffer promises, with no word   *)
(* about slots: a value is published whole, and a read takes the value     *)
(* published last or, when it does not notice a publication, keeps the one *)
(* it took before.  Values are numbered in the order of their publication; *)
(* 0 is the value the buffer was constructed with.                         *)
(***************************************************************************)
EXTENDS Naturals

VARIABLES
  latest,     \* the value published last
  delivered   \* the value the consumer holds

absVars == <<latest, delivered>>

Init == latest = 0 /\ delivered = 0

Publish ==
  /\ latest' = latest + 1
  /\ UNCHANGED delivered

Take ==
  /\ delivered' = latest
  /\ UNCHANGED latest

Spec == Init /\ [][Publish \/ Take]_absVars
===============================================================================
