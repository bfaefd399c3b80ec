------------------------------- MODULE MCHeciCore ------------------------------
(***************************************************************************)
(* Instances of HeciCore, with its history, for TLC: messages of one and   *)
(* of two packets, the last word of some not whole, and buffers smaller    *)
(* and larger than the messages.                                           *)
(***************************************************************************)
EXTENDS HeciHistory

MCHostLens == {8, 11}
MCFwLens == {11}
MCBufSizes == {6, 12}
===============================================================================
