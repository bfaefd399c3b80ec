------------------------------- MODULE MCHeciBus -------------------------------
(***************************************************************************)
(* Instances of HeciBus for TLC: two handles on a device with one client   *)
(* that is connected to and one with a fixed address, as many host client  *)
(* ids as handles, two link resets.                                        *)
(***************************************************************************)
EXTENDS HeciBus, TLC

CONSTANTS h1, h2, dynamic, fixed

MCHandles == {h1, h2}
MCClients == {dynamic, fixed}
MCFixedClients == {fixed}
MCNoFixedClients == {}
MCOneClient == {dynamic}
===============================================================================
