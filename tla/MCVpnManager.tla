---------------------------- MODULE MCVpnManager ----------------------------
(* TLC instances of VpnManager.                                             *)
EXTENDS VpnManager
=============================================================================
