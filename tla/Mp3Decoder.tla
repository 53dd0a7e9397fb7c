------------------------------- MODULE Mp3Decoder -------------------------------
(***************************************************************************)
(* player/play_mp3.c with codec/decode/mp3/mp3_hal.c: how the mp3 decoder  *)
(* finds its frames.  process reads the input in pieces that do not match  *)
(* the frames, keeps what a decode has left over, looks for the next sync  *)
(* word, skips what does not decode, takes the format from the first frame *)
(* and moves to a start position behind it.                                *)
(*                                                                         *)
(* A file is a sequence of units.  A frame has FrameUnits of them, its     *)
(* sync word is the first two; read_buf holds two frames, and the header   *)
(* that is read first is a unit.  What mp3dec.c makes of a frame is its    *)
(* kind.  The input is decoder_input of player.c: all that was asked for,  *)
(* less at the end of the file, -1 once the stream is stopped.             *)
(***************************************************************************)
EXTENDS Integers, Sequences, SequencesExt, FiniteSetsExt

CONSTANTS FrameUnits,   \* units of a frame
          BufUnits,     \* units of read_buf
          JunkUnits,    \* units of a piece of a file that is no frame
          MaxPieces,    \* bound: pieces of a file
          TagUnits,     \* how long an ID3 tag is; 0: there is none
          StartUnits    \* start positions; 0: the beginning

\* What is assumed of the constants; SoundPath assumes it.
Mp3Assumption ==
  /\ FrameUnits \in Nat /\ FrameUnits >= 2
  /\ BufUnits \in Nat /\ BufUnits >= 2 * FrameUnits
  /\ JunkUnits \in Nat /\ MaxPieces \in Nat
  /\ TagUnits \subseteq Nat /\ StartUnits \subseteq Nat

VARIABLES file,      \* what the stream delivers
          at,        \* how much of it was read
          stopped,   \* the streams were stopped
          dec,       \* the local variables of process, and where it is
          out,       \* the frames that went to decoder_output
          result     \* what process returned: "none" while it runs

vars == <<file, at, stopped, dec, out, result>>

\* "bad": a frame that fails while it is decoded; "broken": one whose header is
\* invalid; "odd": a frame with a format the player does not take
Kinds == {"good", "bad", "broken", "odd", "layer2", "junk"}
Decodes(kind) == kind \in {"good", "odd", "layer2"}

Piece(kinds, i) ==
  [part \in 1 .. IF kinds[i] = "junk" THEN JunkUnits ELSE FrameUnits |->
     [kind |-> kinds[i], frame |-> i, part |-> part]]
Tag(length)  == [part \in 1 .. length |-> [kind |-> "tag", frame |-> 0, part |-> part]]
\* the file of these pieces, the last cut units of which are missing
Units(tag, kinds, cut) ==
  LET all == Tag(tag) \o FlattenSeq([i \in DOMAIN kinds |-> Piece(kinds, i)])
  IN  SubSeq(all, 1, Len(all) - cut)

Start(units, tag, position) ==
  /\ file = units
  /\ at = 0
  /\ stopped = FALSE
  /\ dec = [pc |-> "header", head |-> <<>>, left |-> <<>>, want |-> 0, id3 |-> Max({tag - 1, 0}),
            is_first_frame |-> TRUE, start_time |-> position, from |-> 0, deaf |-> FALSE]
  /\ out = <<>>
  /\ result = "none"

Init == \E kinds \in UNION {[1 .. n -> Kinds] : n \in 0 .. MaxPieces},
           tag \in TagUnits, cut \in 0 .. 1, position \in StartUnits :
          /\ cut = 0 \/ kinds # <<>>
          /\ Start(Units(tag, kinds, cut), tag, position)

\* mp3->input: what it stores; -1 is Refused
Input(n)   == SubSeq(file, at + 1, Min({at + n, Len(file)}))
Refused(n) == stopped /\ n > 0

Return(value) == result' = value /\ dec' = [dec EXCEPT !.pc = "done"]

--------------------------------------------------------------------------------
\* The header decides whether there is a tag.
Header ==
  /\ dec.pc = "header"
  /\ IF Refused(1) \/ Input(1) = <<>>
     THEN Return("INPUT_ERROR") /\ UNCHANGED at
     ELSE /\ at' = at + 1
          /\ dec' = IF dec.id3 > 0
                    THEN [dec EXCEPT !.pc = "tag"]
                    ELSE [dec EXCEPT !.pc = "read", !.head = Input(1), !.want = BufUnits - 1]
          /\ UNCHANGED result
  /\ UNCHANGED <<file, stopped, out>>

\* The tag is read a buffer at a time; what follows it in the last one is kept.
SkipTag ==
  /\ dec.pc = "tag"
  /\ LET got == Input(BufUnits)
     IN  IF Refused(BufUnits) \/ got = <<>>
         THEN Return("INPUT_ERROR") /\ UNCHANGED at
         ELSE /\ at' = at + Len(got)
              /\ dec' = IF Len(got) < dec.id3
                        THEN [dec EXCEPT !.id3 = @ - Len(got)]
                        ELSE [dec EXCEPT !.pc = "read",
                                         !.left = SubSeq(got, dec.id3 + 1, Len(got)),
                                         !.want = BufUnits - (Len(got) - dec.id3)]
              /\ UNCHANGED result
  /\ UNCHANGED <<file, stopped, out>>

\* Mutant: the new units overwrite those left over.
Buffer_Overwrite(got) == IF got = <<>> THEN dec.left ELSE dec.head \o got

\* what is in read_buf once the new units are behind the header and those left over
Buffer(got) == dec.head \o dec.left \o got

\* Fill the buffer up.  A read that comes back short is the last one: from then on
\* want_read_bytes is 0 and stays 0.
Refill ==
  /\ dec.pc = "read"
  /\ LET want == IF dec.want = 0 THEN 0 ELSE BufUnits - Len(dec.head) - Len(dec.left)
         got  == Input(want)
     IN  IF Refused(want) THEN Return("INPUT_ERROR") /\ UNCHANGED at
         ELSE IF got = <<>> /\ dec.left = <<>> THEN Return("SUCCESS") /\ UNCHANGED at
         ELSE /\ at' = at + Len(got)
              /\ dec' = [dec EXCEPT !.pc = "decode", !.head = <<>>,
                                    !.left = Buffer(got),
                                    !.want = IF Len(got) < want THEN 0 ELSE want]
              /\ UNCHANGED result
  /\ UNCHANGED <<file, stopped, out>>

--------------------------------------------------------------------------------
(* AudioDecMP3Process *)

\* MP3FindSyncWord: where in the buffer a sync word is; 0: nowhere
Syncs(units) == {i \in 1 .. Len(units) - 1 : units[i].part = 1 /\ units[i + 1].part = 2
                                              /\ units[i].kind \notin {"junk", "tag"}}
FindSync(units) == IF Syncs(units) = {} THEN 0 ELSE Min(Syncs(units))

\* Mutant: a header that is invalid is left where it is.
Rest_NoSkip(units, sync) ==
  IF units[sync].kind = "broken"
    THEN SubSeq(units, sync, Len(units))
    ELSE SubSeq(units, sync + FrameUnits, Len(units))

\* What is left behind the frame at sync.  mp3dec.c does not move over an invalid
\* header; the sync word itself is skipped when nothing was skipped before it.
Rest(units, sync) ==
  IF units[sync].kind = "broken"
    THEN SubSeq(units, IF sync = 1 THEN 2 ELSE sync, Len(units))
    ELSE SubSeq(units, sync + FrameUnits, Len(units))

--------------------------------------------------------------------------------
Continue(left) == dec' = [dec EXCEPT !.pc = "read", !.left = left] /\ UNCHANGED result

\* no sync word: all of the buffer is dropped
NoSync == /\ dec.pc = "decode"
          /\ FindSync(dec.left) = 0
          /\ Continue(<<>>)
          /\ UNCHANGED <<file, at, stopped, out>>

\* INDATA_UNDERFLOW ends it: the frame is taken for the truncated last one
Underflow == /\ dec.pc = "decode"
             /\ LET sync == FindSync(dec.left)
                IN  /\ sync # 0 /\ dec.left[sync].kind # "broken"
                    /\ Len(dec.left) - sync + 1 < FrameUnits
             /\ Return("FAILURE")
             /\ UNCHANGED <<file, at, stopped, out>>

Found(sync) == /\ dec.pc = "decode"
               /\ sync = FindSync(dec.left) /\ sync # 0
               /\ \/ dec.left[sync].kind = "broken"
                  \/ Len(dec.left) - sync + 1 >= FrameUnits

\* a frame that does not decode, or the first one with a format that is not taken
Skip == \E sync \in 1 .. Len(dec.left) :
          /\ Found(sync)
          /\ \/ ~Decodes(dec.left[sync].kind)
             \/ dec.is_first_frame /\ dec.left[sync].kind = "odd"
          /\ Continue(Rest(dec.left, sync))
          /\ UNCHANGED <<file, at, stopped, out>>

WrongLayer == \E sync \in 1 .. Len(dec.left) :
                /\ Found(sync)
                /\ dec.is_first_frame /\ dec.left[sync].kind = "layer2"
                /\ Return("DECODE_ERROR")
                /\ UNCHANGED <<file, at, stopped, out>>

\* The first frame of a play with a start position is not heard: the stream is moved
\* and reading begins anew.
SeekStart == \E sync \in 1 .. Len(dec.left) :
               /\ Found(sync)
               /\ dec.is_first_frame /\ dec.left[sync].kind = "good"
               /\ dec.start_time # 0
               /\ at' = dec.start_time
               /\ dec' = [dec EXCEPT !.pc = "read", !.left = <<>>, !.is_first_frame = FALSE,
                                     !.start_time = 0, !.from = dec.start_time,
                                     !.deaf = (dec.want = 0)]
               /\ UNCHANGED <<file, stopped, out, result>>

\* decoder_output takes the frame, or refuses it once it is stopped
Output == \E sync \in 1 .. Len(dec.left) :
            LET kind == dec.left[sync].kind
            IN  /\ Found(sync)
                /\ IF dec.is_first_frame THEN kind = "good" /\ dec.start_time = 0
                                         ELSE Decodes(kind)
                /\ \/ /\ out' = Append(out, dec.left[sync].frame)
                      /\ dec' = [dec EXCEPT !.pc = "read", !.is_first_frame = FALSE,
                                            !.left = Rest(dec.left, sync)]
                      /\ UNCHANGED result
                   \/ stopped /\ Return("SUCCESS") /\ UNCHANGED out
                /\ UNCHANGED <<file, at, stopped>>

Process == \/ Header \/ SkipTag \/ Refill
           \/ NoSync \/ Underflow \/ Skip \/ WrongLayer \/ SeekStart \/ Output

\* player_stop, at any time
Stop == /\ ~stopped /\ result = "none"
        /\ stopped' = TRUE
        /\ UNCHANGED <<file, at, dec, out, result>>

Next == Process \/ Stop
Spec == Init /\ [][Next]_vars /\ WF_vars(Process)

--------------------------------------------------------------------------------
(* Properties *)

\* units that are not part of a frame that can be found: the header of a tag, and what
\* is left of a frame or a tag the reading began in the middle of, are none either
Useless(i) == \/ file[i].kind \in {"junk", "broken"}
              \/ file[i].kind = "tag" /\ i = 1
              \/ dec.from # 0 /\ i - file[i].part < dec.from

\* no stretch of them is so long that the buffer cannot hold it and a frame
Dense == \A i \in dec.from + 1 .. Len(file) :
           \E j \in i .. i + BufUnits - FrameUnits : j > Len(file) \/ ~Useless(j)

\* the frames of the file that are there in full, from unit begin + 1 on
Frames(begin, kinds) ==
  LET firsts == {i \in begin + 1 .. Len(file) - FrameUnits + 1 :
                   file[i].part = 1 /\ file[i].kind \in kinds}
  IN  {file[i].frame : i \in firsts}

\* the first good frame gives the format; one of layer 2 before it is the end
Formats  == Frames(0, {"good", "layer2"})
Expected ==
  IF dec.from # 0
    THEN Frames(dec.from, {"good", "odd", "layer2"})
    ELSE {f \in Frames(0, {"good", "odd", "layer2"}) : \E first \in Formats : first <= f}

\* A decoder that nobody stopped has put out each frame it should, in the order of
\* the file: none falls between two reads or is lost behind a frame that does not
\* decode.  Two cases are exempt: a stretch without a frame that fills the buffer,
\* and a start position in a file so short that its end was read before the first
\* frame was decoded (deaf), for want_read_bytes stays 0 when the stream is moved.
FramesDecoded ==
  result \in {"SUCCESS", "FAILURE"} /\ ~stopped /\ ~dec.deaf /\ Dense
    => /\ \A i, j \in DOMAIN out : i < j => out[i] < out[j]
       /\ ToSet(out) = Expected
================================================================================
