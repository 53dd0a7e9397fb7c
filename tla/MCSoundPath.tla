------------------------------- MODULE MCSoundPath -------------------------------
(***************************************************************************)
(* Small instances of the parts of the sound path: mp3 files of up to three*)
(* pieces, amr files of up to four frames, http bodies of two units.       *)
(***************************************************************************)
EXTENDS SoundPath

\* modes of two and one units, and one that is not supported
Sizes == [mode \in 0 .. 2 |-> 2 - mode]
================================================================================
