-------------------------------- MODULE MCPlayer --------------------------------
(***************************************************************************)
(* Small instances of the player: files of three or four units, streams of *)
(* one to three units, one or two plays.                                   *)
(***************************************************************************)
EXTENDS Player
================================================================================
