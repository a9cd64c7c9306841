------------------------------ MODULE MCStores -------------------------------
(***************************************************************************)
(* Instances of the hub over either store.                                 *)
(***************************************************************************)
EXTENDS Stores, MCHub
=============================================================================
