------------------------------- MODULE MCRecorder -------------------------------
(***************************************************************************)
(* Small instances of the recorder: one or two recordings of up to three   *)
(* frames, headers that the frames of the writer cut anywhere.             *)
(***************************************************************************)
EXTENDS Recorder
================================================================================
