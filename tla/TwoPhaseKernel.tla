---------------------------- MODULE TwoPhaseKernel ----------------------------
(***************************************************************************)
(* What an item-parameter sampler promises the Gibbs loop, with no word    *)
(* about how adaptation works: it adapts for a while, then one kernel out  *)
(* of the usable ones is fixed, and every draw that is kept after that     *)
(* comes from that same kernel.                                            *)
(***************************************************************************)
EXTENDS Naturals

CONSTANTS
  Usable,     \* the kernels a sampler may be fixed at
  NoKernel    \* no kernel yet

VARIABLES
  kernel,     \* the fixed kernel, or NoKernel while adapting
  kept        \* how many draws the fixed kernel has produced

absVars == <<kernel, kept>>

Init == kernel = NoKernel /\ kept = 0

Fix ==
  /\ kernel = NoKernel
  /\ kernel' \in Usable
  /\ UNCHANGED kept

Keep ==
  /\ kernel # NoKernel
  /\ kept' = kept + 1
  /\ UNCHANGED kernel

Next == Fix \/ Keep

Spec == Init /\ [][Next]_absVars
===============================================================================
