-------------------------------- MODULE Player --------------------------------
(***************************************************************************)
(* player/player.c: one player, its three worker threads and the thread of *)
(* the application that calls it.                                          *)
(*                                                                         *)
(*   application --preprocess_queue--> preprocess_run                      *)
(*   preprocess_run --decode_queue, preprocess_stream--> decoder_run       *)
(*   decoder_run --preprocess_queue (seek)--> preprocess_run               *)
(*   decoder_run --play_queue, decode_stream--> playback_run --> device    *)
(*                                                                         *)
(* An action is one critical section of a queue, a stream, a semaphore or  *)
(* state_lock, with the thread-local work around it.  Bytes are counted in *)
(* units [play, pos]: the pos-th piece of the file of the play-th call of  *)
(* player_play; a file has FileUnits of them, the first is its header.     *)
(* player->state, playback_start and the other fields of the player are    *)
(* read and written where the code does, most of them without a lock.      *)
(*                                                                         *)
(* The preprocessor is the file preprocessor (or, with Slow, one whose     *)
(* reads may time out), the decoder is play_wav.c or play_pcm.c.           *)
(***************************************************************************)
EXTENDS AudioSem, StreamUnits

CONSTANTS MaxPlays,      \* bound: calls of player_play that are modelled
          FileUnits,     \* units in a file
          Starts,        \* the start positions (start_time) of plays
          Playbacks,     \* values of playback: 1, or 0 for info_only plays
          PreCap,        \* units that fit preprocess_stream
          DecCap,        \* units that fit decode_stream
          FrameUnits,    \* units in a playback frame
          Decoder,       \* "wav" or "pcm"
          Slow,          \* whether reads of the preprocessor may time out
          TimeoutLimit,  \* bound: timeouts in a row that are tolerated
          MayFail,       \* whether opening files, decoders and the device may fail
          Impatient,     \* whether 20 s may be too short for the workers
          Prompt,        \* whether 10 ms are enough for them to notice a stop
          Pauses,        \* whether the application pauses
          Tidy           \* whether it first stops a player that failed or is paused

ASSUME PlayerAssumption ==
  /\ MaxPlays \in Nat /\ FileUnits \in Nat \ {0}
  /\ Starts \subseteq 0 .. FileUnits - 1
  /\ Playbacks \subseteq {0, 1}
  /\ PreCap \in Nat \ {0} /\ FrameUnits \in Nat \ {0}
  /\ DecCap \in Nat /\ DecCap >= FrameUnits
  /\ Decoder \in {"wav", "pcm"}
  /\ TimeoutLimit \in Nat
  /\ {Slow, MayFail, Impatient, Prompt, Pauses, Tidy} \subseteq BOOLEAN

VARIABLES
  preprocess_queue, decode_queue, play_queue,  \* queues of one message
  preprocess_stream, decode_stream,
  pause_sem, stop_sem,
  state,           \* player->state
  playback, playback_start, start_time,
  app,             \* the application: [pc, after, found]
  plays,           \* how often player_play was called
  pre,             \* preprocess_run: [pc, cmd, src, next, buf, timeout]
  dec,             \* decoder_run: [pc, buf, lost]
  pb,              \* playback_run: [pc, buf, info]
  heard,           \* units of this play the device got
  silent,          \* a player_stop that found a track playing has returned
  cut,             \* this play was stopped, or one of its reads timed out
  overtaken        \* a seek of this play was served before its reset

queues  == <<preprocess_queue, decode_queue, play_queue>>
streams == <<preprocess_stream, decode_stream>>
sems    == <<pause_sem, stop_sem>>
fields  == <<state, playback, playback_start, start_time>>
history == <<heard, silent, cut, overtaken>>
vars    == <<preprocess_queue, decode_queue, play_queue, preprocess_stream, decode_stream,
             pause_sem, stop_sem, state, playback, playback_start, start_time,
             app, plays, pre, dec, pb, heard, silent, cut, overtaken>>

Unit(p, i) == [play |-> p, pos |-> i]
NoUnit     == Unit(0, 0)
Seek(i)    == [type |-> "seek", pos |-> i]
PlayMsg    == [type |-> "play", pos |-> 0]

\* player_create
Init == /\ preprocess_queue = <<>> /\ decode_queue = <<>> /\ play_queue = <<>>
        /\ preprocess_stream = NewStream /\ decode_stream = NewStream
        /\ pause_sem = SemInit /\ stop_sem = SemInit
        /\ state = "IDLE"
        /\ playback = 0 /\ playback_start = 0 /\ start_time = 0
        /\ app = [pc |-> "idle", after |-> "idle", found |-> "IDLE"]
        /\ plays = 0
        /\ pre = [pc |-> "wait", cmd |-> PlayMsg, src |-> 0, next |-> 0,
                  buf |-> NoUnit, timeout |-> 0]
        /\ dec = [pc |-> "wait", buf |-> NoUnit, lost |-> FALSE, start |-> 0]
        /\ pb = [pc |-> "wait", buf |-> <<>>, info |-> "IDLE"]
        /\ heard = <<>> /\ silent = FALSE /\ cut = FALSE /\ overtaken = FALSE

\* player_stop is the one holder of state_lock that gives up the processor in it
StateLockFree == app.pc # "stop_decode"

AppGoto(where) == app' = [app EXCEPT !.pc = where]
PreGoto(where) == pre' = [pre EXCEPT !.pc = where]
DecGoto(where) == dec' = [dec EXCEPT !.pc = where]
PbGoto(where)  == pb'  = [pb  EXCEPT !.pc = where]

caller == <<app, plays>>
workers  == <<pre, dec, pb>>

\* the workers can do nothing more by themselves
PreAtRest == \/ pre.pc = "wait" /\ preprocess_queue = <<>>
             \/ pre.pc = "send" /\ decode_queue # <<>>
             \/ pre.pc = "write" /\ WriteWaits(preprocess_stream, PreCap)

DecAsleep == /\ dec.pc \in (IF Decoder = "wav" THEN {"header", "init", "input"}
                                               ELSE {"header", "input"})
             /\ dec.lost \/ ~ReadReturns(preprocess_stream, 1)

DecAtRest == \/ dec.pc = "wait" /\ decode_queue = <<>>
             \/ DecAsleep
             \/ dec.pc \in {"seek_header_send", "seek_start_send"} /\ preprocess_queue # <<>>
             \/ dec.pc = "output_send" /\ play_queue # <<>>
             \/ dec.pc = "write" /\ WriteWaits(decode_stream, DecCap)

PbAtRest == \/ pb.pc = "wait" /\ play_queue = <<>>
            \/ pb.pc = "read" /\ ~ReadReturns(decode_stream, FrameUnits)

--------------------------------------------------------------------------------
(* The application: player_play, player_stop, player_device_stop, player_pause, *)
(* player_resume.  Calls of one thread, so play_lock is always free.            *)

\* Mutant: a running track is not stopped first.
PlayCall_NoStop == /\ app.pc = "idle"
                   /\ plays < MaxPlays
                   /\ Tidy => state \in {"IDLE", "RUNNING"}
                   /\ app' = [app EXCEPT !.pc = "play_set", !.after = "play_set"]
                   /\ UNCHANGED <<queues, streams, sems, fields, plays, workers, history>>

\* player_play stops a player that is RUNNING, and only then
PlayCall == /\ app.pc = "idle"
            /\ plays < MaxPlays
            /\ Tidy => state \in {"IDLE", "RUNNING"}
            /\ IF state = "RUNNING" THEN app' = [app EXCEPT !.pc = "stop", !.after = "play_set"]
                                    ELSE AppGoto("play_set")
            /\ UNCHANGED <<queues, streams, sems, fields, plays, workers, history>>

PlaySet == /\ app.pc = "play_set"
           /\ Prompt => PreAtRest /\ DecAtRest
           /\ plays' = plays + 1
           /\ start_time' \in Starts
           /\ playback' \in Playbacks
           /\ playback_start' = 0
           /\ heard' = <<>> /\ silent' = FALSE /\ cut' = FALSE /\ overtaken' = FALSE
           /\ AppGoto("play_send")
           /\ UNCHANGED <<queues, streams, sems, state, workers>>

PlaySend == /\ app.pc = "play_send"
            /\ preprocess_queue = <<>>
            /\ preprocess_queue' = <<PlayMsg>>
            /\ AppGoto("play_wait")
            /\ UNCHANGED <<decode_queue, play_queue, streams, sems, fields, plays, workers, history>>

\* The polling loop ends: the player runs or failed, or 2000 polls of 10 ms went
\* by.  Unless Impatient, that is long enough for all the workers can do.
PlayWait == /\ app.pc = "play_wait"
            /\ \/ state \in {"RUNNING", "ERROR"}
               \/ Impatient
               \/ PreAtRest /\ DecAtRest /\ PbAtRest
            /\ AppGoto("play_check")
            /\ UNCHANGED <<queues, streams, sems, fields, plays, workers, history>>

\* state is read once more
PlayCheck == /\ app.pc = "play_check"
             /\ AppGoto(IF state = "RUNNING" /\ playback = 0 THEN "info_resume" ELSE "idle")
             /\ UNCHANGED <<queues, streams, sems, fields, plays, workers, history>>

\* an info_only play is resumed and stopped by the call that started it
InfoResume == /\ app.pc = "info_resume"
              /\ preprocess_stream' = Resumed(preprocess_stream)
              /\ app' = [app EXCEPT !.pc = "stop", !.after = "idle"]
              /\ UNCHANGED <<queues, decode_stream, sems, fields, plays, workers, history>>

StopCall == /\ app.pc = "idle"
            /\ app' = [app EXCEPT !.pc = "stop", !.after = "idle"]
            /\ UNCHANGED <<queues, streams, sems, fields, plays, workers, history>>

\* player_stop returns to whoever called it, its locals gone
AfterStop == [app EXCEPT !.pc = app.after, !.after = "idle", !.found = "IDLE"]

\* player_stop: state_lock is taken here and kept until StopDecode
StopPreprocess == /\ app.pc = "stop"
                  /\ state # "IDLE"
                  /\ preprocess_stream' = Stopped(preprocess_stream)
                  /\ cut' = TRUE
                  /\ app' = [app EXCEPT !.pc = "stop_decode", !.found = state]
                  /\ UNCHANGED <<queues, decode_stream, sems, fields, plays, workers,
                                 heard, silent, overtaken>>

StopIdlePlayer == /\ app.pc = "stop"
                  /\ state = "IDLE"
                  /\ app' = AfterStop
                  /\ UNCHANGED <<queues, streams, sems, fields, plays, workers, history>>

\* Mutant: a paused playback is told to stop and not woken.
StopDecode_NoGive == /\ app.pc = "stop_decode"
                     /\ decode_stream' = Stopped(decode_stream)
                     /\ state' = IF state = "PAUSED" THEN "STOP" ELSE state
                     /\ AppGoto("stop_wait")
                     /\ UNCHANGED <<queues, preprocess_stream, sems, playback, playback_start,
                                    start_time, plays, workers, history>>

StopDecode == /\ app.pc = "stop_decode"
              /\ decode_stream' = Stopped(decode_stream)
              /\ state' = IF state = "PAUSED" THEN "STOP" ELSE state
              /\ pause_sem' = IF state = "PAUSED" THEN SemGive(pause_sem) ELSE pause_sem
              /\ AppGoto("stop_wait")
              /\ UNCHANGED <<queues, preprocess_stream, stop_sem, playback, playback_start,
                             start_time, plays, workers, history>>

\* Mutant: poll once.
StopWait_Once == /\ app.pc = "stop_wait"
                 /\ AppGoto("stop_idle")
                 /\ UNCHANGED <<queues, streams, sems, fields, plays, workers, history>>

\* the polling loop without the lock; it has no time limit
StopWait == /\ app.pc = "stop_wait"
            /\ playback = 0 \/ state \in {"IDLE", "ERROR"}
            /\ AppGoto("stop_idle")
            /\ UNCHANGED <<queues, streams, sems, fields, plays, workers, history>>

StopReturn == /\ app.pc = "stop_idle"
              /\ state' = "IDLE"
              /\ silent' = (silent \/ (playback = 1 /\ app.found \in {"RUNNING", "PAUSED"}))
              /\ app' = AfterStop
              /\ UNCHANGED <<queues, streams, sems, playback, playback_start, start_time, plays,
                             workers, heard, cut, overtaken>>

\* player_device_stop(wait): a player that runs is stopped first
DeviceStopCall(wait) ==
  LET send == IF wait THEN "device_send_wait" ELSE "device_send"
  IN  /\ app.pc = "idle"
      /\ Tidy => state # "PAUSED"
      /\ IF state = "RUNNING" THEN app' = [app EXCEPT !.pc = "stop", !.after = send]
                              ELSE AppGoto(send)
      /\ UNCHANGED <<queues, streams, sems, fields, plays, workers, history>>

DeviceStopSend == /\ app.pc \in {"device_send", "device_send_wait"}
                  /\ play_queue = <<>>
                  /\ play_queue' = IF app.pc = "device_send" THEN <<"end">> ELSE <<"end_wait">>
                  /\ AppGoto(IF app.pc = "device_send" THEN "idle" ELSE "device_wait")
                  /\ UNCHANGED <<preprocess_queue, decode_queue, streams, sems, fields, plays,
                                 workers, history>>

DeviceStopWait == /\ app.pc = "device_wait"
                  /\ SemAvailable(stop_sem)
                  /\ stop_sem' = SemTake(stop_sem)
                  /\ AppGoto("idle")
                  /\ UNCHANGED <<queues, streams, pause_sem, fields, plays, workers, history>>

Pause == /\ app.pc = "idle"
         /\ Pauses
         /\ state = "RUNNING"
         /\ state' = "PAUSED"
         /\ UNCHANGED <<queues, streams, sems, playback, playback_start, start_time, caller,
                        workers, history>>

Resume == /\ app.pc = "idle"
          /\ state = "PAUSED"
          /\ state' = "RUNNING"
          /\ pause_sem' = SemGive(pause_sem)
          /\ UNCHANGED <<queues, streams, stop_sem, playback, playback_start, start_time, caller,
                         workers, history>>

Application == \/ PlayCall \/ PlaySet \/ PlaySend \/ PlayWait \/ PlayCheck \/ InfoResume
               \/ StopCall \/ StopPreprocess \/ StopIdlePlayer \/ StopDecode \/ StopWait
               \/ StopReturn
               \/ DeviceStopCall(TRUE) \/ DeviceStopCall(FALSE)
               \/ DeviceStopSend \/ DeviceStopWait
               \/ Pause \/ Resume

--------------------------------------------------------------------------------
(* preprocess_run *)

PreReceive == /\ pre.pc = "wait"
              /\ preprocess_queue # <<>>
              /\ preprocess_queue' = <<>>
              /\ pre' = [pre EXCEPT !.pc = "init", !.cmd = Head(preprocess_queue)]
              /\ UNCHANGED <<decode_queue, play_queue, streams, sems, fields, caller, dec, pb,
                             history>>

\* open the target of the player, for a seek at its position; make the buffer
PreInit == /\ pre.pc = "init"
           /\ pre' = [pre EXCEPT !.pc = IF pre.cmd.type = "play" THEN "start" ELSE "resume",
                                 !.src = plays, !.next = pre.cmd.pos, !.timeout = 0]
           /\ UNCHANGED <<queues, streams, sems, fields, caller, dec, pb, history>>

\* init or the malloc failed: ERROR, without the lock, and the next message
PreInitFail == /\ pre.pc = "init"
               /\ MayFail
               /\ state' = "ERROR"
               /\ PreGoto("wait")
               /\ UNCHANGED <<queues, streams, sems, playback, playback_start, start_time,
                              caller, dec, pb, history>>

\* A decoder asleep in a read is forgotten by the start (AudioStream!OnlyStartStrands)
\* and sleeps for ever, unless its semaphore has a permit to spare.
PreStart == /\ pre.pc = "start"
            /\ preprocess_stream' = Started
            /\ dec' \in {[dec EXCEPT !.lost = l] : l \in {dec.lost, dec.lost \/ DecAsleep}}
            /\ PreGoto("send")
            /\ UNCHANGED <<queues, decode_stream, sems, fields, caller, pb, history>>

PreSend == /\ pre.pc = "send"
           /\ decode_queue = <<>>
           /\ decode_queue' = <<pre.cmd>>
           /\ PreGoto("poll")
           /\ UNCHANGED <<preprocess_queue, play_queue, streams, sems, fields, caller, dec, pb,
                          history>>

\* Let the stream take bytes again after a seek.  The decoder resets the stream
\* after it sent the seek, maybe only now.
PreResume == /\ pre.pc \in {"resume", "seek_resume"}
             /\ preprocess_stream' = Resumed(preprocess_stream)
             /\ overtaken' = (overtaken \/ dec.pc \in {"seek_header_reset", "seek_start_reset"})
             /\ PreGoto(IF pre.pc = "resume" THEN "poll" ELSE "read")
             /\ UNCHANGED <<queues, decode_stream, sems, fields, caller, dec, pb,
                            heard, silent, cut>>

\* between two reads: serve a seek; any other message is dropped (lines 347-363)
PrePoll == /\ pre.pc = "poll"
           /\ preprocess_queue' = <<>>
           /\ IF preprocess_queue # <<>> /\ Head(preprocess_queue).type = "seek"
                THEN pre' = [pre EXCEPT !.pc = "seek_resume", !.cmd = Head(preprocess_queue),
                                        !.next = Head(preprocess_queue).pos]
                ELSE PreGoto("read")
           /\ UNCHANGED <<decode_queue, play_queue, streams, sems, fields, caller, dec, pb,
                          history>>

PreRead == /\ pre.pc = "read"
           /\ pre.next < FileUnits
           /\ pre' = [pre EXCEPT !.pc = "write", !.buf = Unit(pre.src, pre.next), !.next = @ + 1,
                                 !.timeout = 0]
           /\ UNCHANGED <<queues, streams, sems, fields, caller, dec, pb, history>>

\* Mutant: the end of the file stops the stream.
PreEnd_Stop == /\ pre.pc = "read"
               /\ pre.next >= FileUnits
               /\ preprocess_stream' = Stopped(preprocess_stream)
               /\ PreGoto("wait")
               /\ UNCHANGED <<queues, decode_stream, sems, fields, caller, dec, pb, history>>

\* end of file: finish the stream, destroy the preprocessor
PreEnd == /\ pre.pc = "read"
          /\ pre.next >= FileUnits
          /\ preprocess_stream' = Finished(preprocess_stream)
          /\ PreGoto("wait")
          /\ UNCHANGED <<queues, decode_stream, sems, fields, caller, dec, pb, history>>

\* the read came back with -101
PreTimeout == /\ pre.pc = "read"
              /\ Slow
              /\ IF state \in {"IDLE", "ERROR"}
                   THEN /\ preprocess_stream' = Finished(preprocess_stream)
                        /\ pre' = [pre EXCEPT !.pc = "wait", !.timeout = 0]
                        /\ cut' = TRUE
                   ELSE IF pre.timeout = TimeoutLimit
                   THEN /\ preprocess_stream' = Stopped(preprocess_stream)
                        /\ pre' = [pre EXCEPT !.pc = "wait", !.timeout = 0]
                        /\ cut' = TRUE
                   ELSE /\ pre' = [pre EXCEPT !.pc = "poll", !.timeout = @ + 1]
                        /\ UNCHANGED <<preprocess_stream, cut>>
              /\ UNCHANGED <<queues, decode_stream, sems, fields, caller, dec, pb,
                             heard, silent, overtaken>>

\* Mutant: a write of 0 bytes ends the loop like one of -1.
PreWrite_IgnoredEnds ==
  /\ pre.pc = "write"
  /\ \/ /\ WriteStores(preprocess_stream, PreCap)
        /\ preprocess_stream' = AfterWrite(preprocess_stream, pre.buf)
        /\ PreGoto("poll")
     \/ /\ WriteIgnored(preprocess_stream) \/ WriteStopped(preprocess_stream)
        /\ PreGoto("wait")
        /\ UNCHANGED preprocess_stream
  /\ UNCHANGED <<queues, decode_stream, sems, fields, caller, dec, pb, history>>

PreWrite == /\ pre.pc = "write"
            /\ \/ /\ WriteStores(preprocess_stream, PreCap)
                  /\ preprocess_stream' = AfterWrite(preprocess_stream, pre.buf)
                  /\ PreGoto("poll")
               \/ /\ WriteIgnored(preprocess_stream)
                  /\ PreGoto("poll")
                  /\ UNCHANGED preprocess_stream
               \/ /\ WriteStopped(preprocess_stream)
                  /\ PreGoto("wait")
                  /\ UNCHANGED preprocess_stream
            /\ UNCHANGED <<queues, decode_stream, sems, fields, caller, dec, pb, history>>

Preprocess == \/ PreReceive \/ PreInit \/ PreInitFail \/ PreStart \/ PreSend \/ PreResume
              \/ PrePoll \/ PreRead \/ PreEnd \/ PreTimeout \/ PreWrite

--------------------------------------------------------------------------------
(* decoder_run, with decoder_input, decoder_output, decoder_error and the decoder *)

DecReceive == /\ dec.pc = "wait"
              /\ decode_queue # <<>>
              /\ decode_queue' = <<>>
              /\ DecGoto("header") \/ (MayFail /\ UNCHANGED dec)
              /\ UNCHANGED <<preprocess_queue, play_queue, streams, sems, fields, caller, pre, pb,
                             history>>

\* decoder_input: a unit, or the end (a read of 0 or -1 bytes)
Input(unit, end) ==
  /\ ~dec.lost
  /\ ReadReturns(preprocess_stream, 1)
  /\ IF Has(preprocess_stream, "STOPPED") \/ preprocess_stream.data = <<>>
       THEN DecGoto(end) /\ UNCHANGED preprocess_stream
       ELSE /\ dec' = [dec EXCEPT !.pc = unit, !.buf = Head(preprocess_stream.data)]
            /\ preprocess_stream' = AfterRead(preprocess_stream, 1)

DecHeader == /\ dec.pc = "header"
             /\ Input("find", "fail_stop")
             /\ UNCHANGED <<queues, decode_stream, sems, fields, caller, pre, pb, history>>

\* look for a decoder by header and by type
DecFind == /\ dec.pc = "find"
           /\ DecGoto("seek_header_send") \/ (MayFail /\ DecGoto("fail_stop"))
           /\ UNCHANGED <<queues, streams, sems, fields, caller, pre, pb, history>>

\* player_preprocess_seek: send the seek, then reset the stream
DecSeekSend == /\ dec.pc \in {"seek_header_send", "seek_start_send"}
               /\ preprocess_queue = <<>>
               /\ preprocess_queue' = <<Seek(IF dec.pc = "seek_header_send" THEN 0 ELSE dec.start)>>
               /\ DecGoto(IF dec.pc = "seek_header_send" THEN "seek_header_reset"
                                                         ELSE "seek_start_reset")
               /\ UNCHANGED <<decode_queue, play_queue, streams, sems, fields, caller, pre, pb,
                              history>>

\* After its seek to the header decoder_run copies start_time for the decoder; a play
\* that begins later does not change the copy.
CopyStart == [dec EXCEPT !.pc = "init", !.start = start_time]

DecSeekReset == /\ dec.pc \in {"seek_header_reset", "seek_start_reset"}
                /\ preprocess_stream' = Reset(preprocess_stream)
                /\ dec' = IF dec.pc = "seek_header_reset"
                            THEN CopyStart ELSE [dec EXCEPT !.pc = "start"]
                /\ UNCHANGED <<queues, decode_stream, sems, fields, caller, pre, pb, history>>

\* decoder.init: play_wav reads the header, which must be one, and play_pcm reads
\* nothing; then both seek to the start position.
DecInit == /\ dec.pc = "init"
           /\ IF Decoder = "wav" THEN Input("init_seek", "fail_stop")
                                 ELSE DecGoto("init_seek") /\ UNCHANGED preprocess_stream
           /\ UNCHANGED <<queues, decode_stream, sems, fields, caller, pre, pb, history>>

DecInitSeek == /\ dec.pc = "init_seek"
               /\ DecGoto(CASE Decoder = "wav" /\ dec.buf.pos # 0 -> "fail_stop"
                            [] Decoder = "pcm" \/ dec.buf.pos = 0 ->
                                 IF dec.start = 0 THEN "start" ELSE "seek_start_send")
               /\ UNCHANGED <<queues, streams, sems, fields, caller, pre, pb, history>>

\* decoder_error, and the failures of decoder_run before the decoder runs: stop
\* the stream, then ERROR
DecFailStop == /\ dec.pc = "fail_stop"
               /\ preprocess_stream' = Stopped(preprocess_stream)
               /\ DecGoto("fail")
               /\ UNCHANGED <<queues, decode_stream, sems, fields, caller, pre, pb, history>>

DecFail == /\ dec.pc = "fail"
           /\ StateLockFree
           /\ state' = "ERROR"
           /\ DecGoto("wait")
           /\ UNCHANGED <<queues, streams, sems, playback, playback_start, start_time, caller,
                          pre, pb, history>>

DecStart == /\ dec.pc = "start"
            /\ decode_stream' = Started
            /\ DecGoto("input")
            /\ UNCHANGED <<queues, preprocess_stream, sems, fields, caller, pre, pb, history>>

\* decoder.process reads until its input ends
DecInput == /\ dec.pc = "input"
            /\ Input("output", "end_stop")
            /\ UNCHANGED <<queues, decode_stream, sems, fields, caller, pre, pb, history>>

\* decoder_output: the first one of a play wakes the playback thread
DecOutput == /\ dec.pc = "output"
             /\ DecGoto(IF playback_start = 0 THEN "output_send" ELSE "write")
             /\ UNCHANGED <<queues, streams, sems, fields, caller, pre, pb, history>>

DecOutputSend == /\ dec.pc = "output_send"
                 /\ play_queue = <<>>
                 /\ play_queue' = <<"play">>
                 /\ DecGoto("output_mark")
                 /\ UNCHANGED <<preprocess_queue, decode_queue, streams, sems, fields, caller,
                                pre, pb, history>>

DecOutputMark == /\ dec.pc = "output_mark"
                 /\ playback_start' = 1
                 /\ DecGoto("write")
                 /\ UNCHANGED <<queues, streams, sems, state, playback, start_time, caller, pre,
                                pb, history>>

\* a refused write ends play_wav with an OUTPUT_ERROR and play_pcm with -1, which
\* decoder_run takes for success
DecWrite == /\ dec.pc = "write"
            /\ \/ /\ WriteStores(decode_stream, DecCap)
                  /\ decode_stream' = AfterWrite(decode_stream, dec.buf)
                  /\ DecGoto("input")
               \/ /\ WriteIgnored(decode_stream)
                  /\ DecGoto("input")
                  /\ UNCHANGED decode_stream
               \/ /\ WriteStopped(decode_stream)
                  /\ DecGoto(IF Decoder = "wav" THEN "error_stop" ELSE "end_stop")
                  /\ UNCHANGED decode_stream
            /\ UNCHANGED <<queues, preprocess_stream, sems, fields, caller, pre, pb, history>>

\* the end of the switch of decoder_run: an error stops the decode stream first
DecErrorStop == /\ dec.pc = "error_stop"
                /\ decode_stream' = Stopped(decode_stream)
                /\ DecGoto("error_stop_pre")
                /\ UNCHANGED <<queues, preprocess_stream, sems, fields, caller, pre, pb, history>>

DecEndStop == /\ dec.pc \in {"end_stop", "error_stop_pre"}
              /\ preprocess_stream' = Stopped(preprocess_stream)
              /\ DecGoto(IF dec.pc = "end_stop" THEN "end_finish" ELSE "end")
              /\ UNCHANGED <<queues, decode_stream, sems, fields, caller, pre, pb, history>>

\* Mutant: the decoder ends and does not finish its stream.
DecEndFinish_Forgotten == /\ dec.pc = "end_finish"
                          /\ DecGoto("end")
                          /\ UNCHANGED <<queues, streams, sems, fields, caller, pre, pb, history>>

DecEndFinish == /\ dec.pc = "end_finish"
                /\ decode_stream' = Finished(decode_stream)
                /\ DecGoto("end")
                /\ UNCHANGED <<queues, preprocess_stream, sems, fields, caller, pre, pb, history>>

\* Mutant: any decoder that ends leaves the player in ERROR, what it put out still playing.
DecEnd_Always == /\ dec.pc = "end"
                 /\ StateLockFree
                 /\ state' = "ERROR"
                 /\ DecGoto("wait")
                 /\ UNCHANGED <<queues, streams, sems, playback, playback_start, start_time, caller,
                                pre, pb, history>>

\* a decoder that never started the playback leaves the player in ERROR
DecEnd == /\ dec.pc = "end"
          /\ playback_start = 0 => StateLockFree
          /\ state' = IF playback_start = 0 THEN "ERROR" ELSE state
          /\ DecGoto("wait")
          /\ UNCHANGED <<queues, streams, sems, playback, playback_start, start_time, caller,
                         pre, pb, history>>

Decode == \/ DecReceive \/ DecHeader \/ DecFind \/ DecSeekSend \/ DecSeekReset \/ DecInit
          \/ DecInitSeek \/ DecFailStop \/ DecFail \/ DecStart \/ DecInput \/ DecOutput
          \/ DecOutputSend \/ DecOutputMark \/ DecWrite \/ DecErrorStop \/ DecEndStop
          \/ DecEndFinish \/ DecEnd

--------------------------------------------------------------------------------
(* playback_run *)

\* a message outside a session: an end_session is answered, a play opens the device
PbReceive == /\ pb.pc = "wait"
             /\ play_queue # <<>>
             /\ play_queue' = <<>>
             /\ stop_sem' = IF play_queue = <<"end_wait">> THEN SemGive(stop_sem) ELSE stop_sem
             /\ IF play_queue = <<"play">> THEN PbGoto("open") ELSE UNCHANGED pb
             /\ UNCHANGED <<preprocess_queue, decode_queue, streams, pause_sem, fields, caller,
                            pre, dec, history>>

\* an info_only play is RUNNING without a device
PbNoDevice == /\ pb.pc = "open"
              /\ playback = 0
              /\ state' = "RUNNING"
              /\ PbGoto("wait")
              /\ UNCHANGED <<queues, streams, sems, playback, playback_start, start_time, caller,
                             pre, dec, history>>

\* open, start and the malloc of the read buffer succeed, or the two streams are
\* stopped and the player is left in ERROR
PbOpen == /\ pb.pc = "open"
          /\ playback = 1
          /\ PbGoto("begin") \/ (MayFail /\ PbGoto("fail_stop"))
          /\ UNCHANGED <<queues, streams, sems, fields, caller, pre, dec, history>>

PbFailStop == /\ pb.pc = "fail_stop"
              /\ preprocess_stream' = Stopped(preprocess_stream)
              /\ PbGoto("fail_stop_decode")
              /\ UNCHANGED <<queues, decode_stream, sems, fields, caller, pre, dec, history>>

PbFailStopDecode == /\ pb.pc = "fail_stop_decode"
                    /\ decode_stream' = Stopped(decode_stream)
                    /\ PbGoto("fail")
                    /\ UNCHANGED <<queues, preprocess_stream, sems, fields, caller, pre, dec,
                                   history>>

PbFail == /\ pb.pc = "fail"
          /\ StateLockFree
          /\ state' = "ERROR"
          /\ PbGoto("wait")
          /\ UNCHANGED <<queues, streams, sems, playback, playback_start, start_time, caller,
                         pre, dec, history>>

\* PLAYBACK_START: RUNNING, without the lock
PbBegin == /\ pb.pc = "begin"
           /\ state' = "RUNNING"
           /\ pb' = [pb EXCEPT !.pc = "read", !.info = "IDLE"]
           /\ UNCHANGED <<queues, streams, sems, playback, playback_start, start_time, caller,
                          pre, dec, history>>

\* a frame, a short frame, nothing (the end of the track), or the stop
PbRead == /\ pb.pc = "read"
          /\ ReadReturns(decode_stream, FrameUnits)
          /\ IF Has(decode_stream, "STOPPED")
               THEN /\ pb' = [pb EXCEPT !.pc = "idle", !.info = "STOP"]
                    /\ UNCHANGED decode_stream
               ELSE /\ pb' = [pb EXCEPT !.pc = IF decode_stream.data = <<>> THEN "drained" ELSE "frame",
                                        !.buf = ReadUnits(decode_stream, FrameUnits)]
                    /\ decode_stream' = AfterRead(decode_stream, FrameUnits)
          /\ UNCHANGED <<queues, preprocess_stream, sems, fields, caller, pre, dec, history>>

PbDrained == /\ pb.pc = "drained"
             /\ decode_stream' = Stopped(decode_stream)
             /\ PbGoto("idle")
             /\ UNCHANGED <<queues, preprocess_stream, sems, fields, caller, pre, dec, history>>

\* What becomes of a frame depends on the state: it goes to the device, waits, or
\* (IDLE, ERROR, STOP) is dropped.
PbFrame == /\ pb.pc = "frame"
           /\ PbGoto(CASE state = "RUNNING" -> "device"
                       [] state = "PAUSED"  -> "paused"
                       [] OTHER             -> "written")
           /\ UNCHANGED <<queues, streams, sems, fields, caller, pre, dec, history>>

\* paused: write silence until pause_sem has a permit
PbUnpause == /\ pb.pc = "paused"
             /\ SemAvailable(pause_sem)
             /\ pause_sem' = SemTake(pause_sem)
             /\ PbGoto("unpaused")
             /\ UNCHANGED <<queues, streams, stop_sem, fields, caller, pre, dec, history>>

PbAwake == /\ pb.pc = "unpaused"
           /\ pb' = IF state = "STOP" THEN [pb EXCEPT !.pc = "idle", !.info = "STOP", !.buf = <<>>]
                                      ELSE [pb EXCEPT !.pc = "device"]
           /\ UNCHANGED <<queues, streams, sems, fields, caller, pre, dec, history>>

\* Mutant: a short frame is not written.
PbDevice_WholeOnly ==
  /\ pb.pc = "device"
  /\ heard' = IF Len(pb.buf) = FrameUnits THEN heard \o pb.buf ELSE heard
  /\ PbGoto("written")
  /\ UNCHANGED <<queues, streams, sems, fields, caller, pre, dec, silent, cut, overtaken>>

\* device.write: the state may have changed since it was looked at
PbDevice == /\ pb.pc = "device"
            /\ heard' = heard \o pb.buf
            /\ PbGoto("written")
            /\ UNCHANGED <<queues, streams, sems, fields, caller, pre, dec, silent, cut, overtaken>>

\* the next frame, unless this one was short (the underrun of line 1141)
PbNext == /\ pb.pc = "written"
          /\ pb' = [pb EXCEPT !.pc = IF Len(pb.buf) < FrameUnits THEN "idle" ELSE "read",
                               !.buf = <<>>]
          /\ UNCHANGED <<queues, streams, sems, fields, caller, pre, dec, history>>

\* PLAYBACK_STOP
PbIdle == /\ pb.pc = "idle"
          /\ StateLockFree
          /\ state' = "IDLE"
          /\ PbGoto("mute")
          /\ UNCHANGED <<queues, streams, sems, playback, playback_start, start_time, caller,
                         pre, dec, history>>

\* Silence for two seconds, unless a message comes: a play goes on with the open
\* device, an end_session closes it.
PbMuteMessage == /\ pb.pc = "mute"
                 /\ play_queue # <<>>
                 /\ play_queue' = <<>>
                 /\ stop_sem' = IF play_queue = <<"end_wait">> THEN SemGive(stop_sem) ELSE stop_sem
                 /\ PbGoto(IF play_queue = <<"play">> THEN "begin" ELSE "wait")
                 /\ UNCHANGED <<preprocess_queue, decode_queue, streams, pause_sem, fields,
                                caller, pre, dec, history>>

PbClose == /\ pb.pc = "mute"
           /\ PbGoto("wait")
           /\ UNCHANGED <<queues, streams, sems, fields, caller, pre, dec, history>>

Play == \/ PbReceive \/ PbNoDevice \/ PbOpen \/ PbFailStop \/ PbFailStopDecode \/ PbFail \/ PbBegin
        \/ PbRead \/ PbDrained \/ PbFrame \/ PbUnpause \/ PbAwake \/ PbDevice
        \/ PbNext \/ PbIdle
        \/ PbMuteMessage \/ PbClose

Next == Application \/ Preprocess \/ Decode \/ Play

Spec == Init /\ [][Next]_vars

(***************************************************************************)
(* Fairness of the threads: each of the three workers, and the application *)
(* while it is inside a call of the player, runs when it can.  Nothing     *)
(* makes the application call, pause or resume.                            *)
(***************************************************************************)
InCall == app.pc # "idle" /\ Application

FairSpec == /\ Spec
            /\ WF_vars(InCall) /\ WF_vars(Preprocess) /\ WF_vars(Decode) /\ WF_vars(Play)

--------------------------------------------------------------------------------
(* Properties *)

\* the first unit of the play that is decoded: play_wav keeps the header
FirstHeard == IF start_time > 0 THEN start_time ELSE IF Decoder = "wav" THEN 1 ELSE 0

\* What the device gets is the file of the current play, from its start position
\* on, in order and without a gap: no byte of an earlier play, none from before a
\* seek, none twice, whatever old workers are still doing.
HeardInOrder == heard = [i \in 1 .. Len(heard) |-> Unit(plays, FirstHeard + i - 1)]

\* Once a player_stop that found a track running or paused has returned, the
\* device gets nothing of it any more.
StopSilences == [][silent => Len(heard') <= Len(heard)]_vars

\* A play that ends by itself was heard to the end of the file.  The one exception
\* is a play one of whose seeks was overtaken: served by the preprocess thread
\* before the decoder that sent it had reset the stream.
WholeTrack == [][PbIdle /\ pb.info = "IDLE" /\ ~cut /\ ~overtaken
                   => Len(heard) = FileUnits - FirstHeard]_vars

Ended(s) == ~Has(s, "RUN") \/ s.flags \cap {"STOPPED", "FINISHED"} # {}

\* A stream is started only when its last run has ended, so that nobody sleeps in
\* it: what AudioStream!Start takes for granted.
StartsAfterEnd == [][/\ PreStart => Ended(preprocess_stream)
                     /\ DecStart => Ended(decode_stream)]_vars

\* Every call of the application returns, player_stop too, whose wait for the
\* playback thread has no time limit.
CallsReturn == app.pc # "idle" ~> app.pc = "idle"

\* A track that runs comes to an end, if it is not paused.
RunEnds == state = "RUNNING" ~> state # "RUNNING"

\* After a stop the three workers return to their queues, unless the next play
\* comes first: no worker is left behind in a stream.
StopSettles == silent ~> \/ pre.pc = "wait" /\ dec.pc = "wait" /\ pb.pc = "wait"
                         \/ ~silent
================================================================================
