----------------------------- MODULE AllOrNothing -----------------------------
(***************************************************************************)
(* What irt_causal_bart() promises about its chains, with no word about    *)
(* processes: a call ends once, with the result of every requested chain   *)
(* in the order requested, or with an error.                               *)
(***************************************************************************)

VARIABLES
  request,    \* the seeds asked for, one per chain
  outcome     \* how the call ended, if it did

absVars == <<request, outcome>>

Pending  == [kind |-> "pending", fits |-> << >>]
Error    == [kind |-> "error",   fits |-> << >>]
Fit(all) == [kind |-> "fit",     fits |-> all]

Init == outcome = Pending

End ==
  /\ outcome = Pending
  /\ outcome' \in {Error, Fit(request)}
  /\ UNCHANGED request

Spec == Init /\ [][End]_absVars
===============================================================================
