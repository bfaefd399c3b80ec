------------------------------ MODULE MCMeteeCpp ------------------------------
(***************************************************************************)
(* An instance of MeteeCpp for TLC: three objects, so that a session may   *)
(* pass through a moved-from object to a third, and three sessions, so     *)
(* that each can have its own; two lengths, so that a reconnection or an   *)
(* assignment may change it.                                               *)
(***************************************************************************)
EXTENDS MeteeCpp, TLC

MCMsgLens == {1, 2}
MCSymmetry == Permutations(Objects) \cup Permutations(Sessions)
===============================================================================
