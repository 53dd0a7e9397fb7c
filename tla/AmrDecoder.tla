------------------------------- MODULE AmrDecoder -------------------------------
(***************************************************************************)
(* player/play_amr.c, process, with codec/decode/amr/amr_dec_hal.cpp: the  *)
(* amr decoder reads a mode byte, then a frame whose size it took from the *)
(* first mode of the file.  A frame of another mode is read over, by the   *)
(* size of the first.                                                      *)
(*                                                                         *)
(* read_bytes is a size_t, so that "read_bytes < 0" is never true: on a    *)
(* stopped stream the decoder goes on with the mode byte it read last.     *)
(*                                                                         *)
(* A file is what follows the magic that init reads, a sequence of units:  *)
(* the mode byte of a frame (part 0) and its data.  The value of a unit of *)
(* data is the mode it is taken for when it is read as a mode byte.  The   *)
(* input is the one of Mp3Decoder.                                         *)
(***************************************************************************)
EXTENDS Integers, Sequences, SequencesExt, FiniteSetsExt

CONSTANTS Size,         \* data units of a frame of each mode; <= 0: not supported
          MaxFrames     \* bound: frames of a file

Modes == DOMAIN Size

\* What is assumed of the constants; SoundPath assumes it.
AmrAssumption ==
  /\ 0 \in Modes
  /\ Size \in [Modes -> Int]
  /\ MaxFrames \in Nat

VARIABLES file,      \* what the stream delivers
          at,        \* how much of it was read
          stopped,   \* the streams were stopped
          dec,       \* the local variables of process, buffer_in, and where it is
          out,       \* the frames that went to decoder_output; 0: a mix of several
          result     \* what process returned: "none" while it runs

vars == <<file, at, stopped, dec, out, result>>

--------------------------------------------------------------------------------
Unit(value, frame, part) == [value |-> value, frame |-> frame, part |-> part]

FrameOf(mode, frame, garbage) ==
  <<Unit(mode, frame, 0)>> \o
  [i \in 1 .. Max({Size[mode], 0}) |-> Unit(garbage, frame, i)]

\* the file of frames of these modes, its last cut units missing
Units(modes, garbage, cut) ==
  LET all == FlattenSeq([i \in DOMAIN modes |-> FrameOf(modes[i], i, garbage)])
  IN  SubSeq(all, 1, Len(all) - cut)

\* The memory of the decoder is cleared when it is opened: buffer_in is 0.
Start(units) ==
  /\ file = units
  /\ at = 0
  /\ stopped = FALSE
  /\ dec = [pc |-> "mode", buffer_in |-> 0, mode |-> 0, frame |-> 0,
            frame_size |-> 0, old_mode |-> -1]
  /\ out = <<>>
  /\ result = "none"

Init == \E n \in 0 .. MaxFrames : \E modes \in [1 .. n -> Modes], garbage \in Modes, cut \in 0 .. 1 :
          /\ cut = 0 \/ n > 0
          /\ Start(Units(modes, garbage, cut))

Input(n)   == SubSeq(file, at + 1, Min({at + n, Len(file)}))
Refused(n) == stopped /\ n > 0
Return(value) == result' = value /\ dec' = [dec EXCEPT !.pc = "done"]

\* Read the mode byte.  A stopped stream leaves the last one in the buffer.
ReadMode ==
  /\ dec.pc = "mode"
  /\ IF Refused(1)
     THEN dec' = [dec EXCEPT !.pc = "size", !.mode = dec.buffer_in] /\ UNCHANGED <<at, result>>
     ELSE IF Input(1) = <<>> THEN Return("SUCCESS") /\ UNCHANGED at
     ELSE /\ at' = at + 1
          /\ dec' = [dec EXCEPT !.pc = "size", !.buffer_in = file[at + 1].value,
                                !.mode = file[at + 1].value, !.frame = file[at + 1].frame]
          /\ UNCHANGED result
  /\ UNCHANGED <<file, stopped, out>>

\* Mutant: the size counts the mode byte that was read already.
FrameSize_WithMode(mode) == Size[mode] + 1

FrameSize(mode) == Size[mode]

\* The first mode gives the size of all frames.
TakeSize ==
  /\ dec.pc = "size"
  /\ IF dec.frame_size = 0 /\ FrameSize(dec.mode) <= 0
     THEN Return("DECODE_ERROR")
     ELSE /\ dec' = [dec EXCEPT !.pc = "frame", !.frame_size = IF @ = 0 THEN FrameSize(dec.mode) ELSE @]
          /\ UNCHANGED result
  /\ UNCHANGED <<file, at, stopped, out>>

\* a frame of another mode: whatever the read returns
ReadOver == /\ dec.pc = "frame"
            /\ dec.old_mode # -1 /\ dec.mode # dec.old_mode
            /\ at' = IF stopped THEN at ELSE at + Len(Input(dec.frame_size))
            /\ dec' = [dec EXCEPT !.pc = "mode"]
            /\ UNCHANGED <<file, stopped, out, result>>

\* A frame that is not there in full is an error.
ReadFrame ==
  /\ dec.pc = "frame"
  /\ dec.old_mode = -1 \/ dec.mode = dec.old_mode
  /\ LET got == Input(dec.frame_size)
     IN  IF Refused(dec.frame_size) \/ Len(got) < dec.frame_size
         THEN Return("DECODE_ERROR") /\ UNCHANGED at
         ELSE /\ at' = at + Len(got)
              /\ dec' = [dec EXCEPT !.pc = "output", !.old_mode = dec.mode,
                                    !.frame = IF \A i \in DOMAIN got : got[i].frame = dec.frame
                                                THEN @ ELSE 0]
              /\ UNCHANGED result
  /\ UNCHANGED <<file, stopped, out>>

\* decoder_output takes the frame, or refuses it once it is stopped
PutFrame ==
  /\ dec.pc = "output"
  /\ \/ /\ out' = Append(out, dec.frame)
        /\ dec' = [dec EXCEPT !.pc = "mode"]
        /\ UNCHANGED result
     \/ stopped /\ Return("OUTPUT_ERROR") /\ UNCHANGED out
  /\ UNCHANGED <<file, at, stopped>>

Process == ReadMode \/ TakeSize \/ ReadOver \/ ReadFrame \/ PutFrame

Stop == /\ ~stopped /\ result = "none"
        /\ stopped' = TRUE
        /\ UNCHANGED <<file, at, dec, out, result>>

Next == Process \/ Stop
Spec == Init /\ [][Next]_vars /\ WF_vars(Process)

--------------------------------------------------------------------------------
(* Properties *)
\* every frame has the mode of the first one, and it is supported
OneMode == \A i \in DOMAIN file : file[i].part = 0 => /\ file[i].value = file[1].value
                                                     /\ Size[file[i].value] > 0
\* the frames that are there in full
Frames == {file[i].frame : i \in {j \in DOMAIN file : file[j].part = Size[file[1].value]}}

\* The frames of a file of one mode, which are numbered from 1 on, are put out whole,
\* each once and in their order; all that are there unless the track is stopped, and a
\* frame that is cut off is an error.  A frame of another mode is read over by the size
\* of the first one, and what follows need not be a frame: such files are exempt.
FramesDecoded ==
  OneMode => /\ out = [i \in 1 .. Len(out) |-> i] /\ ToSet(out) \subseteq Frames
             /\ result # "none" /\ ~stopped
                  => /\ ToSet(out) = Frames
                     /\ result = IF Len(file) = 0 \/ file[Len(file)].part = Size[file[1].value]
                                THEN "SUCCESS" ELSE "DECODE_ERROR"

\* On a stopped stream it reads the mode it has for ever when that is not the mode of
\* the frames: read_bytes is never below 0, and a frame that is read over is not tested.
Spins == stopped /\ dec.old_mode # -1 /\ dec.buffer_in # dec.old_mode
================================================================================
