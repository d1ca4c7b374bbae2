---------------------------- MODULE MC_Transfer ----------------------------
(***************************************************************************)
(* Instances of Transfer; its constants are numbers, given in the cfg.     *)
(***************************************************************************)
EXTENDS Transfer
=============================================================================
