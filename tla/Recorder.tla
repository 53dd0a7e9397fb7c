------------------------------- MODULE Recorder -------------------------------
(***************************************************************************)
(* recorder/recorder.c: one recorder, its three worker threads and the     *)
(* thread of the application that calls it; with record_wav.c and          *)
(* record_pcm.c as encoders and file_writer.c as writer.                   *)
(*                                                                         *)
(*   application --record_queue--> capture_run <-- device                  *)
(*   capture_run --encode_queue, record_stream--> encoder_run              *)
(*   encoder_run --write_queue, encode_stream--> write_run --> file        *)
(*                                                                         *)
(* As in Player an action is one critical section with the thread-local    *)
(* work around it, and bytes are counted in units.  A unit is a tuple      *)
(*   <<"data", r, i>>    the i-th unit captured in the r-th recording      *)
(*   <<"header", i, s>>  the i-th unit of a wav header for s data bytes    *)
(*   <<"zero", i, 0>>    the i-th unit of a header buffer never filled in  *)
(* so that the header, the frames of the device and those of the writer    *)
(* may have any sizes relative to each other.                              *)
(***************************************************************************)
EXTENDS AudioSem, StreamUnits

CONSTANTS MaxRecordings,  \* bound: calls of recorder_record that are modelled
          MaxFrames,      \* bound: frames of a recording
          Types,          \* encoders: "wav", "pcm"
          Durations,      \* durations in frames; 0 means until it is stopped
          CaptureUnits,   \* units in a frame of the device
          FrameUnits,     \* units in a frame of the writer
          HeaderUnits,    \* units in a wav header
          BlockAlign,     \* bytes of a sample of all channels
          RecordCap,      \* units that fit record_stream
          EncodeCap,      \* units that fit encode_stream
          MayFail,        \* whether mallocs, the device, encoders and files may fail
          Impatient       \* whether recorder_stop may give up on workers that are not done

ASSUME RecorderAssumption ==
  /\ MaxRecordings \in Nat /\ MaxFrames \in Nat
  /\ Types \subseteq {"wav", "pcm"}
  /\ Durations \subseteq 0 .. MaxFrames
  /\ {CaptureUnits, HeaderUnits, BlockAlign, RecordCap} \subseteq Nat \ {0}
  /\ FrameUnits \in Nat /\ HeaderUnits <= FrameUnits
  /\ EncodeCap \in Nat /\ FrameUnits <= EncodeCap
  /\ {MayFail, Impatient} \subseteq BOOLEAN

VARIABLES
  record_queue, encode_queue, write_queue,  \* queues of one message
  record_stream, encode_stream,
  state,         \* recorder->state
  header_size,   \* recorder->header_size
  duration,      \* recorder->duration
  app,           \* the application: [pc, type]
  recs,          \* how many recordings were begun
  cap,           \* capture_run: [pc, type, next, left, sent]
  enc,           \* encoder_run: [pc, type, buf, done, total, res]
  wr,            \* write_run: [pc, last, buf, header, info]
  file,          \* the units in the file of the writer
  stored,        \* units of this recording that record_stream took
  stopping,      \* this recording was stopped while it was captured
  torn           \* a write of this file failed and nobody looked

queues  == <<record_queue, encode_queue, write_queue>>
streams == <<record_stream, encode_stream>>
fields  == <<state, header_size, duration>>
caller  == <<app, recs>>
history == <<stored, stopping, torn>>
vars    == <<record_queue, encode_queue, write_queue, record_stream, encode_stream, state,
             header_size, duration, app, recs, cap, enc, wr, file, stored, stopping, torn>>

Data(r, i)        == <<"data", r, i>>
\* wav_header_complete: the size is its second argument times the bytes of a sample
WavHeader(n)      == [i \in 1 .. HeaderUnits |-> <<"header", i, n * BlockAlign>>]
ZeroHeader        == [i \in 1 .. HeaderUnits |-> <<"zero", i, 0>>]
HeaderSize(type)  == IF type = "wav" THEN HeaderUnits ELSE 0

\* recorder_create
Init == /\ record_queue = <<>> /\ encode_queue = <<>> /\ write_queue = <<>>
        /\ record_stream = NewStream /\ encode_stream = NewStream
        /\ state = "IDLE" /\ header_size = 0 /\ duration = 0
        /\ app = [pc |-> "idle", type |-> "none"]
        /\ recs = 0
        /\ cap = [pc |-> "wait", type |-> "none", next |-> 1, left |-> 0, sent |-> FALSE]
        /\ enc = [pc |-> "wait", type |-> "none", buf |-> <<>>, done |-> 0, total |-> 0,
                  res |-> "none"]
        /\ wr = [pc |-> "wait", last |-> <<>>, buf |-> <<>>, header |-> <<>>, info |-> "SUCCESS"]
        /\ file = <<>>
        /\ stored = 0 /\ stopping = FALSE /\ torn = FALSE

AppGoto(where) == app' = [app EXCEPT !.pc = where]
CapGoto(where) == cap' = [cap EXCEPT !.pc = where]
EncGoto(where) == enc' = [enc EXCEPT !.pc = where]
WrGoto(where)  == wr'  = [wr  EXCEPT !.pc = where]

\* the capture thread has started record_stream and reads the device
Capturing == cap.pc \in {"send", "read", "write"}

--------------------------------------------------------------------------------
(* The application: recorder_record, recorder_stop.  It waits for the recorder  *)
(* to be IDLE (recorder_get_state, recorder_wait_idle) before it records again. *)

RecordCall == /\ app.pc = "idle"
              /\ recs < MaxRecordings
              /\ state = "IDLE"
              /\ state' = "RUNNING"
              /\ recs' = recs + 1
              /\ stored' = 0 /\ stopping' = FALSE /\ torn' = FALSE
              /\ AppGoto("set")
              /\ UNCHANGED <<queues, streams, header_size, duration, cap, enc, wr, file>>

RecordSet == /\ app.pc = "set"
             /\ duration' \in Durations
             /\ \E type \in Types : app' = [pc |-> "record_send", type |-> type]
             /\ UNCHANGED <<queues, streams, state, header_size, recs, cap, enc, wr, file, history>>

\* the malloc of the target failed: the recorder stays RUNNING
RecordFail == /\ app.pc = "set"
              /\ MayFail
              /\ duration' \in Durations
              /\ AppGoto("idle")
              /\ UNCHANGED <<queues, streams, state, header_size, recs, cap, enc, wr, file,
                             history>>

RecordSend == /\ app.pc = "record_send"
              /\ record_queue = <<>>
              /\ record_queue' = <<app.type>>
              /\ AppGoto("idle")
              /\ UNCHANGED <<encode_queue, write_queue, streams, fields, recs, cap, enc, wr, file,
                             history>>

StopCall == /\ app.pc = "idle"
            /\ AppGoto("stop")
            /\ UNCHANGED <<queues, streams, fields, recs, cap, enc, wr, file, history>>

\* Mutant: leave the end of the recording to the message.
StopFinish_MessageOnly == /\ app.pc = "stop"
                          /\ state # "IDLE"
                          /\ stopping' = (stopping \/ Capturing)
                          /\ AppGoto("stop_send")
                          /\ UNCHANGED <<queues, streams, fields, recs, cap, enc, wr, file,
                                         stored, torn>>

\* A finish that comes before the capture thread starts the stream is forgotten.
StopFinish == /\ app.pc = "stop"
              /\ state # "IDLE"
              /\ record_stream' = Finished(record_stream)
              /\ stopping' = (stopping \/ Capturing)
              /\ AppGoto("stop_send")
              /\ UNCHANGED <<queues, encode_stream, fields, recs, cap, enc, wr, file, stored, torn>>

StopIdleRecorder == /\ app.pc = "stop"
                    /\ state = "IDLE"
                    /\ AppGoto("idle")
                    /\ UNCHANGED <<queues, streams, fields, recs, cap, enc, wr, file, history>>

StopSend == /\ app.pc = "stop_send"
            /\ record_queue = <<>>
            /\ record_queue' = <<"stop">>
            /\ AppGoto("stop_wait")
            /\ UNCHANGED <<encode_queue, write_queue, streams, fields, recs, cap, enc, wr, file,
                           history>>

\* The polling loop ends: the recorder is IDLE, or 3 s went by.  Unless Impatient,
\* only a recording that goes on outlasts them.
StopWait == /\ app.pc = "stop_wait"
            /\ \/ state = "IDLE"
               \/ Impatient
               \/ Capturing /\ record_stream.flags = {"RUN"}
            /\ AppGoto("idle")
            /\ UNCHANGED <<queues, streams, fields, recs, cap, enc, wr, file, history>>

Application == \/ RecordCall \/ RecordSet \/ RecordFail \/ RecordSend
               \/ StopCall \/ StopFinish \/ StopIdleRecorder \/ StopSend \/ StopWait

--------------------------------------------------------------------------------
(* capture_run *)

\* A STOP is not looked at: line 622 tests encode_msg, the message sent last.  As
\* long as none was sent that is an uninitialized value, which may end the thread.
CapReceive == /\ cap.pc = "wait"
              /\ record_queue # <<>>
              /\ record_queue' = <<>>
              /\ IF Head(record_queue) # "stop"
                   THEN cap' = [cap EXCEPT !.pc = "open", !.type = Head(record_queue)]
                   ELSE UNCHANGED cap \/ (~cap.sent /\ CapGoto("exited"))
              /\ UNCHANGED <<encode_queue, write_queue, streams, fields, caller, enc, wr, file,
                             history>>

CapOpenFail == /\ cap.pc = "open"
               /\ MayFail
               /\ state' = "IDLE"
               /\ CapGoto("wait")
               /\ UNCHANGED <<queues, streams, header_size, duration, caller, enc, wr, file,
                              history>>

CapStart == /\ cap.pc = "open"
            /\ record_stream' = Started
            /\ CapGoto("send")
            /\ UNCHANGED <<queues, encode_stream, fields, caller, enc, wr, file, history>>

\* the message to the encoder; then a malloc, whose failure ends the thread
CapSend == /\ cap.pc = "send"
           /\ encode_queue = <<>>
           /\ encode_queue' = <<cap.type>>
           /\ \E where \in {"read"} \cup (IF MayFail THEN {"exited"} ELSE {}) :
                cap' = [cap EXCEPT !.pc = where, !.next = 1, !.sent = TRUE]
           /\ UNCHANGED <<record_queue, write_queue, streams, fields, caller, enc, wr, file,
                          history>>

\* A frame of the device.  The read of the frame after the last one of the bound
\* takes until the stream runs no more.
CapRead == /\ cap.pc = "read"
           /\ cap.next <= MaxFrames * CaptureUnits \/ record_stream.flags # {"RUN"}
           /\ cap' = [cap EXCEPT !.pc = "write", !.left = CaptureUnits]
           /\ UNCHANGED <<queues, streams, fields, caller, enc, wr, file, history>>

\* device.read returned -1 or 0
CapReadFail == /\ cap.pc = "read"
               /\ MayFail
               /\ record_stream' \in {Stopped(record_stream), Finished(record_stream)}
               /\ CapGoto("wait")
               /\ UNCHANGED <<queues, encode_stream, fields, caller, enc, wr, file, history>>

\* A unit of the frame.  After its last unit the duration is looked at; a write that
\* did not take the whole frame ends the recording.
CapWrite ==
  /\ cap.pc = "write"
  /\ \/ /\ WriteStores(record_stream, RecordCap)
        /\ record_stream' = AfterWrite(record_stream, Data(recs, cap.next))
        /\ stored' = stored + 1
        /\ cap' = [cap EXCEPT !.pc = IF cap.left > 1 THEN "write"
                                     ELSE IF duration # 0 /\ cap.next >= duration * CaptureUnits
                                     THEN "finish" ELSE "read",
                              !.next = @ + 1, !.left = @ - 1]
     \/ /\ WriteIgnored(record_stream) \/ WriteStopped(record_stream)
        /\ CapGoto("wait")
        /\ UNCHANGED <<record_stream, stored>>
  /\ UNCHANGED <<queues, encode_stream, fields, caller, enc, wr, file, stopping, torn>>

\* Mutant: at the end of the duration the capture just stops reading.
CapFinish_Silent == /\ cap.pc = "finish"
                    /\ CapGoto("wait")
                    /\ UNCHANGED <<queues, streams, fields, caller, enc, wr, file, history>>

CapFinish == /\ cap.pc = "finish"
             /\ record_stream' = Finished(record_stream)
             /\ CapGoto("wait")
             /\ UNCHANGED <<queues, encode_stream, fields, caller, enc, wr, file, history>>

Capture == \/ CapReceive \/ CapOpenFail \/ CapStart \/ CapSend \/ CapRead \/ CapReadFail
           \/ CapWrite \/ CapFinish

--------------------------------------------------------------------------------
(* encoder_run, with encoder_input, encoder_output and the encoder *)

\* Mutant: the bytes of the last recording are counted in.
EncReceive_KeepTotal ==
  /\ enc.pc = "wait"
  /\ encode_queue # <<>>
  /\ encode_queue' = <<>>
  /\ enc' = [enc EXCEPT !.pc = "init", !.type = Head(encode_queue), !.done = 0, !.res = "none"]
  /\ UNCHANGED <<record_queue, write_queue, streams, fields, caller, cap, wr, file, history>>

EncReceive == /\ enc.pc = "wait"
              /\ encode_queue # <<>>
              /\ encode_queue' = <<>>
              /\ enc' = [enc EXCEPT !.pc = "init", !.type = Head(encode_queue), !.done = 0,
                                    !.total = 0, !.res = "none"]
              /\ UNCHANGED <<record_queue, write_queue, streams, fields, caller, cap, wr, file,
                             history>>

\* no such encoder, or its init failed: stop the stream, then IDLE
EncInitFail == /\ enc.pc = "init"
               /\ MayFail
               /\ record_stream' = Stopped(record_stream)
               /\ EncGoto("fail")
               /\ UNCHANGED <<queues, encode_stream, fields, caller, cap, wr, file, history>>

EncFail == /\ enc.pc = "fail"
           /\ state' = "IDLE"
           /\ EncGoto("wait")
           /\ UNCHANGED <<queues, streams, header_size, duration, caller, cap, wr, file, history>>

EncStart == /\ enc.pc = "init"
            /\ encode_stream' = Started
            /\ header_size' = HeaderSize(enc.type)
            /\ EncGoto("send")
            /\ UNCHANGED <<queues, record_stream, state, duration, caller, cap, wr, file, history>>

\* the message to the writer; then encoder.process, which for wav begins with a header
EncSend == /\ enc.pc = "send"
           /\ write_queue = <<>>
           /\ write_queue' = <<enc.type>>
           /\ EncGoto(IF enc.type = "wav" THEN "header" ELSE "input")
           /\ UNCHANGED <<record_queue, encode_queue, streams, fields, caller, cap, wr, file,
                          history>>

\* A unit of the header, at the start for no bytes and at the end for those written.
\* What the write returns is not looked at.
EncHeader ==
  /\ enc.pc = "header"
  /\ \/ /\ WriteStores(encode_stream, EncodeCap)
        /\ encode_stream' = AfterWrite(encode_stream, WavHeader(enc.total)[enc.done + 1])
     \/ /\ WriteIgnored(encode_stream) \/ WriteStopped(encode_stream)
        /\ UNCHANGED encode_stream
  /\ enc' = IF enc.done + 1 < HeaderUnits
              THEN [enc EXCEPT !.done = @ + 1]
              ELSE [enc EXCEPT !.done = 0, !.pc = CASE enc.res = "none"    -> "input"
                                                    [] enc.res = "SUCCESS" -> "stop"
                                                    [] OTHER               -> "finish"]
  /\ UNCHANGED <<queues, record_stream, fields, caller, cap, wr, file, history>>

\* encoder_input: a unit, the end (0), or -1
EncInput ==
  LET end(res, pcm) == [enc EXCEPT !.res = res, !.pc = IF enc.type = "wav" THEN "header" ELSE pcm]
  IN  /\ enc.pc = "input"
      /\ ReadReturns(record_stream, 1)
      /\ enc' = CASE Has(record_stream, "STOPPED") -> end("INPUT_ERROR", "finish")
                  [] ~Has(record_stream, "STOPPED") /\ record_stream.data = <<>> ->
                       end("SUCCESS", "stop")
                  [] OTHER -> [enc EXCEPT !.pc = "output", !.buf = ReadUnits(record_stream, 1)]
      /\ record_stream' = IF Has(record_stream, "STOPPED") THEN record_stream
                                                           ELSE AfterRead(record_stream, 1)
      /\ UNCHANGED <<queues, encode_stream, fields, caller, cap, wr, file, history>>

\* encoder_output: a write of 0 bytes goes unnoticed
EncOutput ==
  /\ enc.pc = "output"
  /\ \/ /\ WriteStores(encode_stream, EncodeCap)
        /\ encode_stream' = AfterWrite(encode_stream, enc.buf[1])
        /\ enc' = [enc EXCEPT !.pc = "input", !.buf = <<>>, !.total = @ + 1]
     \/ /\ WriteIgnored(encode_stream)
        /\ enc' = [enc EXCEPT !.pc = "input", !.buf = <<>>]
        /\ UNCHANGED encode_stream
     \/ /\ WriteStopped(encode_stream)
        /\ enc' = [enc EXCEPT !.pc = "stop", !.buf = <<>>, !.res = "OUTPUT_ERROR"]
        /\ UNCHANGED encode_stream
  /\ UNCHANGED <<queues, record_stream, fields, caller, cap, wr, file, history>>

\* Mutants: the encode stream is not finished; a failed encoder reports IDLE.
EncStop_NoFinish == /\ enc.pc = "stop"
                    /\ record_stream' = Stopped(record_stream)
                    /\ EncGoto("wait")
                    /\ UNCHANGED <<queues, encode_stream, fields, caller, cap, wr, file, history>>
EncStop_Idle == /\ enc.pc = "stop"
                /\ record_stream' = Stopped(record_stream)
                /\ state' = IF enc.res = "OUTPUT_ERROR" THEN "IDLE" ELSE state
                /\ EncGoto(IF enc.res = "OUTPUT_ERROR" THEN "wait" ELSE "finish")
                /\ UNCHANGED <<queues, encode_stream, header_size, duration, caller, cap, wr, file,
                               history>>

\* the switch over what process returned: SUCCESS and OUTPUT_ERROR stop the input
EncStop == /\ enc.pc = "stop"
           /\ record_stream' = Stopped(record_stream)
           /\ EncGoto(IF enc.res = "OUTPUT_ERROR" THEN "wait" ELSE "finish")
           /\ UNCHANGED <<queues, encode_stream, fields, caller, cap, wr, file, history>>

EncFinish == /\ enc.pc = "finish"
             /\ encode_stream' = Finished(encode_stream)
             /\ EncGoto("wait")
             /\ UNCHANGED <<queues, record_stream, fields, caller, cap, wr, file, history>>

Encode == \/ EncReceive \/ EncInitFail \/ EncFail \/ EncStart \/ EncSend \/ EncHeader
          \/ EncInput \/ EncOutput \/ EncStop \/ EncFinish

--------------------------------------------------------------------------------
(* write_run, with the file writer *)

WrReceive == /\ wr.pc = "wait"
             /\ write_queue # <<>>
             /\ write_queue' = <<>>
             /\ wr' = [pc |-> "init", last |-> <<>>, buf |-> <<>>, info |-> "SUCCESS",
                       header |-> SubSeq(ZeroHeader, 1, header_size)]
             /\ UNCHANGED <<record_queue, encode_queue, streams, fields, caller, cap, enc, file,
                            history>>

\* the file is opened with "w+"
WrInit == /\ wr.pc = "init"
          /\ file' = <<>>
          /\ WrGoto("read")
          /\ UNCHANGED <<queues, streams, fields, caller, cap, enc, history>>

\* a failed init, or a failed write of a frame: stop both streams
WrInitFail == /\ wr.pc = "init"
              /\ MayFail
              /\ wr' = [wr EXCEPT !.pc = "stop_record", !.info = "INIT"]
              /\ UNCHANGED <<queues, streams, fields, caller, cap, enc, file, history>>

WrStopRecord == /\ wr.pc = "stop_record"
                /\ record_stream' = Stopped(record_stream)
                /\ WrGoto("stop_encode")
                /\ UNCHANGED <<queues, encode_stream, fields, caller, cap, enc, file, history>>

WrStopEncode == /\ wr.pc = "stop_encode"
                /\ encode_stream' = Stopped(encode_stream)
                /\ WrGoto(IF wr.info = "INIT" THEN "idle" ELSE "header")
                /\ UNCHANGED <<queues, record_stream, fields, caller, cap, enc, file, history>>

\* a frame, or what is left: less than a frame, nothing, or -1
WrRead == /\ wr.pc = "read"
          /\ ReadReturns(encode_stream, FrameUnits)
          /\ LET got == IF Has(encode_stream, "STOPPED") THEN <<>>
                                                         ELSE ReadUnits(encode_stream, FrameUnits)
             IN  wr' = [wr EXCEPT !.buf = got,
                                  !.pc = IF Len(got) = FrameUnits THEN "frame" ELSE "rest"]
          /\ encode_stream' = IF Has(encode_stream, "STOPPED") THEN encode_stream
                                                     ELSE AfterRead(encode_stream, FrameUnits)
          /\ UNCHANGED <<queues, record_stream, fields, caller, cap, enc, file, history>>

\* Write the frame before this one, and keep this one: it may hold a part of the
\* header that comes last.
WrFrame == /\ wr.pc = "frame"
           /\ file' = file \o wr.last
           /\ wr' = [wr EXCEPT !.pc = "read", !.last = wr.buf, !.buf = <<>>]
           /\ UNCHANGED <<queues, streams, fields, caller, cap, enc, history>>

WrFrameFail == /\ wr.pc = "frame"
               /\ MayFail
               /\ wr.last # <<>>
               /\ wr' = [wr EXCEPT !.pc = "stop_record", !.info = "WRITER"]
               /\ UNCHANGED <<queues, streams, fields, caller, cap, enc, file, history>>

\* Mutant: a header that begins in the last frame is not cut off it.
WrRest_KeepLast ==
  LET rest   == Len(wr.buf)
      inRest == IF rest < header_size THEN rest ELSE header_size
      inLast == header_size - inRest
  IN  /\ wr.pc = "rest"
      /\ wr' = [wr EXCEPT !.pc = "header",
                          !.header = SubSeq(wr.last, Len(wr.last) - inLast + 1, Len(wr.last))
                                       \o SubSeq(wr.buf, rest - inRest + 1, rest)]
      /\ file' = file \o wr.last \o SubSeq(wr.buf, 1, rest - inRest)
      /\ UNCHANGED <<queues, streams, fields, caller, cap, enc, history>>

\* Cut the header off the last frame and the rest, write what is before it.  There
\* may be no last frame (last_buf is NULL): its write returns 0 (audio_fwrite).  No
\* write from here on is looked at.
WrRest ==
  LET rest   == Len(wr.buf)
      inRest == IF rest < header_size THEN rest ELSE header_size  \* units of it in the rest
      inLast == header_size - inRest
      kept   == SubSeq(wr.last, 1, Len(wr.last) - inLast)
  IN  /\ wr.pc = "rest"
      /\ wr' = [wr EXCEPT !.pc = "header",
                          !.header = SubSeq(wr.last, Len(wr.last) - inLast + 1, Len(wr.last))
                                       \o SubSeq(wr.buf, rest - inRest + 1, rest)]
      /\ \/ file' = file \o kept \o SubSeq(wr.buf, 1, rest - inRest) /\ UNCHANGED torn
         \/ /\ MayFail
            /\ file' \in {file, file \o kept, file \o SubSeq(wr.buf, 1, rest - inRest)}
            /\ torn' = TRUE
      /\ UNCHANGED <<queues, streams, fields, caller, cap, enc, stored, stopping>>

\* the header goes to the start of the file
WrHeader == /\ wr.pc = "header"
            /\ \/ file' = wr.header \o SubSeq(file, header_size + 1, Len(file)) /\ UNCHANGED torn
               \/ MayFail /\ header_size # 0 /\ torn' = TRUE /\ UNCHANGED file
            /\ header_size' = 0
            /\ WrGoto("idle")
            /\ UNCHANGED <<queues, streams, state, duration, caller, cap, enc, stored, stopping>>

\* listen(info); the file is closed later, in WrDestroy
WrIdle == /\ wr.pc = "idle"
          /\ state' = "IDLE"
          /\ WrGoto(IF wr.info = "INIT" THEN "wait" ELSE "destroy")
          /\ UNCHANGED <<queues, streams, header_size, duration, caller, cap, enc, file, history>>

WrDestroy == /\ wr.pc = "destroy"
             /\ WrGoto("wait")
             /\ UNCHANGED <<queues, streams, fields, caller, cap, enc, file, history>>

Write == \/ WrReceive \/ WrInit \/ WrInitFail \/ WrStopRecord \/ WrStopEncode \/ WrRead
         \/ WrFrame \/ WrFrameFail \/ WrRest \/ WrHeader \/ WrIdle \/ WrDestroy

Next == Application \/ Capture \/ Encode \/ Write

Spec == Init /\ [][Next]_vars

(***************************************************************************)
(* Fairness of the threads: the three workers, and the application while   *)
(* it is inside a call, run when they can.                                 *)
(***************************************************************************)
InCall == app.pc # "idle" /\ Application

FairSpec == /\ Spec
            /\ WF_vars(InCall) /\ WF_vars(Capture) /\ WF_vars(Encode) /\ WF_vars(Write)

--------------------------------------------------------------------------------
(* Properties *)

\* a file with the first n units of the current recording
Recording(n) == SubSeq(WavHeader(n), 1, HeaderSize(enc.type)) \o [i \in 1 .. n |-> Data(recs, i)]

Written == WrIdle /\ wr.info = "SUCCESS" /\ ~torn

\* Where nothing fails, the file of a recording that ended holds all that its
\* capture put into record_stream, whenever it was stopped, behind the header that
\* was completed for just that many bytes.
FileIsWhole == [][Written => file = Recording(stored)]_vars

\* Whatever failed in this recording or in the one before: a file reported as a
\* SUCCESS, none of whose last writes failed, is a beginning of what was captured, in
\* order, and its header is completed for what it holds.
FileInOrder == [][Written => \E n \in 0 .. stored : file = Recording(n)]_vars

\* A recording on its way through the recorder is with one of these: it is handed
\* on by the messages START, from the application to the writer.
AppHolds     == app.pc \in {"set", "record_send"}
RecordQueued == record_queue # <<>> /\ record_queue # <<"stop">>
CapHolds     == cap.pc \in {"open", "send"}
EncodeQueued == encode_queue # <<>>
EncHolds     == enc.pc \in {"init", "fail", "send"}
WriteQueued  == write_queue # <<>>
WrHolds      == wr.pc \notin {"wait", "destroy"}

\* At most one recording is on its way, and none once the recorder is IDLE, whatever
\* fails: no worker sets IDLE for a recording that another one still has in hand.
OneRecording ==
  /\ WrHolds      => ~WriteQueued
  /\ EncHolds     => ~(WriteQueued \/ WrHolds)
  /\ EncodeQueued => ~(EncHolds \/ WriteQueued \/ WrHolds)
  /\ CapHolds     => ~(EncodeQueued \/ EncHolds \/ WriteQueued \/ WrHolds)
  /\ RecordQueued => ~(CapHolds \/ EncodeQueued \/ EncHolds \/ WriteQueued \/ WrHolds)
  /\ AppHolds     => ~(RecordQueued \/ CapHolds \/ EncodeQueued \/ EncHolds \/ WriteQueued
                         \/ WrHolds)
  /\ state = "IDLE" => ~(AppHolds \/ RecordQueued \/ CapHolds \/ EncodeQueued \/ EncHolds
                           \/ WriteQueued \/ WrHolds)

\* The recorder is not IDLE while the writer is at work: the application does not
\* record again too early, and nobody else sets header_size.
IdleIsWritten == state = "IDLE" => wr.pc \in {"wait", "destroy"} /\ write_queue = <<>>

\* The size in the header of a file is the number of bytes of data that follow it.
\* wav_header_complete(head, samples) takes samples (audio_misc.c:37).
HeaderFits == [][Written /\ enc.type = "wav"
                   => file[1][3] = Len(file) - HeaderUnits]_vars

\* Every call of the application returns, also a recorder_stop that has to wait for
\* the capture thread to take the STOP of the last one.
CallsReturn == app.pc # "idle" ~> app.pc = "idle"

\* A recording with a duration comes to an end: recorder_wait_idle returns.
RecordingEnds == state = "RUNNING" /\ app.pc # "set" /\ duration # 0 ~> state = "IDLE"

\* So does one that was stopped after its capture had begun.
StopEnds == stopping ~> state = "IDLE"

\* After a recording the workers return to their queues, unless the next one comes
\* first: no worker is left behind in a stream.
IdleSettles == state = "IDLE" ~> \/ cap.pc = "wait" /\ enc.pc = "wait" /\ wr.pc = "wait"
                                \/ state # "IDLE"
================================================================================
