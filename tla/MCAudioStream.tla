----------------------------- MODULE MCAudioStream -----------------------------
(***************************************************************************)
(* Small instances of the byte stream.  The ring has 3 cells; requests of  *)
(* 1, 2 and 4 bytes give chunks that fit, that are cut at the end of the   *)
(* ring, and requests longer than the ring.                                *)
(***************************************************************************)
EXTENDS AudioStream
================================================================================
