------------------------------- MODULE SoundPath -------------------------------
(***************************************************************************)
(* The parts a track passes before, between and behind the byte streams of *)
(* Player: the http preprocessor, the mp3 and the amr decoder, and the     *)
(* sample buffer of the tempo plugin.  They share no state (Player has     *)
(* what is between them), so a behaviour is of one side only; the decoders *)
(* have the same input and share its variables.                            *)
(***************************************************************************)
EXTENDS HttpSource, SampleFifo

CONSTANTS FrameUnits, BufUnits, JunkUnits, MaxPieces, TagUnits, StartUnits,   \* Mp3Decoder
          AmrSize, MaxFrames                                                \* AmrDecoder

VARIABLES side,                                  \* what the behaviour is about
          file, at, stopped, dec, out, result    \* of both decoders

Amr == INSTANCE AmrDecoder WITH Size <- AmrSize
Mp3 == INSTANCE Mp3Decoder

ASSUME PathAssumption ==
  Mp3!Mp3Assumption /\ Amr!AmrAssumption /\ HttpAssumption /\ FifoAssumption

decoder == <<file, at, stopped, dec, out, result>>
allvars == <<side, decoder, vars, fifo>>

PathInit ==
  /\ Init /\ FifoInit
  /\ \/ side = "mp3" /\ Mp3!Init
     \/ side = "amr" /\ Amr!Init
     \/ side \in {"http", "fifo"} /\ Mp3!Start(<<>>, 0, 0)
  /\ side # "fifo" => channels = 1

OnMp3  == side = "mp3" /\ UNCHANGED <<side, vars, fifo>>
OnAmr  == side = "amr" /\ UNCHANGED <<side, vars, fifo>>

PathNext == \/ OnMp3 /\ Mp3!Next
            \/ OnAmr /\ Amr!Next
            \/ side = "http" /\ Next /\ UNCHANGED <<side, decoder, fifo>>
            \/ side = "fifo" /\ FifoNext /\ UNCHANGED <<side, decoder, vars>>

\* The fairness of the decoders; the other two are checked for safety.
PathSpec == /\ PathInit /\ [][PathNext]_allvars
            /\ WF_allvars(OnMp3 /\ Mp3!Process)
            /\ WF_allvars(OnAmr /\ Amr!Process)

\* Of the mp3 and the amr decoder: each frame of the file that should be heard is put
\* out, once and in its order (stated in Mp3Decoder and AmrDecoder).
DecodedInOrder == /\ side = "mp3" => Mp3!FramesDecoded
                  /\ side = "amr" => Amr!FramesDecoded

\* Of both decoders: process returns, at the end of its input, at an error and when the
\* track is stopped, whatever is in the file; but for the amr decoder when it spins on
\* a stopped stream (Mp3Decoder and AmrDecoder).
DecodersEnd == <>(\/ side \notin {"mp3", "amr"}
                  \/ result # "none"
                  \/ side = "amr" /\ Amr!Spins)
================================================================================
