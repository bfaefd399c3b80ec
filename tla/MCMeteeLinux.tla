---------------------------- MODULE MCMeteeLinux ----------------------------
(***************************************************************************)
(* Instances of MeteeLinux for TLC: two protocol versions and two message  *)
(* lengths so that a reconnection can change both, a cancel pipe of two    *)
(* marks so that it can be full, one or two queued messages.               *)
(***************************************************************************)
EXTENDS MeteeLinux

MCVersions == {1, 2}
MCMsgLens == {4, 8}
MCOneVersion == {1}
MCOneMsgLen == {4}
===============================================================================
