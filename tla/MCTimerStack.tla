---------------------------- MODULE MCTimerStack ----------------------------
(***************************************************************************)
(* TimerStack with interchangeable timers and names.                       *)
(***************************************************************************)
EXTENDS TimerStack, TLC

Symmetry == Permutations(Timers) \cup Permutations(Names)
==============================================================================
