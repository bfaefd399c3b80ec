----------------------------- MODULE MCMeteeWin -----------------------------
(***************************************************************************)
(* An instance of MeteeWin for TLC: two reports, so that a client can come *)
(* back changed after a reconnection.                                      *)
(***************************************************************************)
EXTENDS MeteeWin

MCReports == {"first", "second"}
===============================================================================
