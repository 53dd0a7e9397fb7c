----------------------------- MODULE PlayerProofs -----------------------------
(***************************************************************************)
(* Theorems about the player, for any sizes of files, frames and streams,  *)
(* any failures, timeouts, stops and pauses.                               *)
(***************************************************************************)
EXTENDS Player, SequenceTheorems, TLAPS

--------------------------------------------------------------------------------
(* Shapes: the fields the arguments look at exist and hold what they must. *)

Units == [play : Nat, pos : Nat]
Msgs  == [type : {"play", "seek"}, pos : Nat]

IsStream(s) == {"data", "flags"} \subseteq DOMAIN s /\ s.data \in Seq(Units)

StreamShape == IsStream(preprocess_stream) /\ IsStream(decode_stream)
QueueShape  == preprocess_queue # <<>> => /\ Head(preprocess_queue) \in Msgs
                                          /\ preprocess_queue = <<Head(preprocess_queue)>>
FieldShape  == /\ playback \in {0, 1} /\ playback_start \in {0, 1}
               /\ start_time \in Nat /\ plays \in Nat
AppShape    == /\ {"pc", "after", "found"} \subseteq DOMAIN app
               /\ app.after \in {"idle", "play_set", "device_send", "device_send_wait"}
PreShape    == /\ {"pc", "cmd", "src", "next", "buf", "timeout"} \subseteq DOMAIN pre
               /\ pre.cmd \in Msgs /\ pre.src \in Nat /\ pre.next \in Nat /\ pre.buf \in Units
DecShape    == /\ {"pc", "buf", "lost", "start"} \subseteq DOMAIN dec
               /\ dec.buf \in Units /\ dec.start \in Nat
PbShape     == {"pc", "buf", "info"} \subseteq DOMAIN pb /\ pb.buf \in Seq(Units)

Shape == /\ StreamShape /\ QueueShape /\ FieldShape
         /\ AppShape /\ PreShape /\ DecShape /\ PbShape /\ heard \in Seq(Units)

--------------------------------------------------------------------------------
(* What the operations of a stream do to its data and its flags. *)

LEMMA StartedIs == IsStream(Started) /\ Started.data = <<>> /\ Started.flags = {"RUN"}
  BY EmptySeq DEF IsStream, Started

LEMMA EndedIs ==
  ASSUME NEW s, IsStream(s)
  PROVE  /\ IsStream(Stopped(s)) /\ Stopped(s).data = s.data
         /\ Stopped(s).flags = s.flags \cup {"STOPPED"}
         /\ IsStream(Finished(s)) /\ Finished(s).data = s.data
         /\ Finished(s).flags = s.flags \cup {"FINISHED"}
  BY DEF IsStream, Stopped, Finished

LEMMA ResetIs ==
  ASSUME NEW s, IsStream(s)
  PROVE  /\ IsStream(Reset(s)) /\ Reset(s).data = <<>> /\ "RESET" \in Reset(s).flags
         /\ IsStream(Resumed(s)) /\ Resumed(s).data = s.data
         /\ Resumed(s).flags = s.flags \ {"RESET"}
  BY EmptySeq DEF IsStream, Reset, Resumed

LEMMA WrittenIs ==
  ASSUME NEW s, IsStream(s), NEW u \in Units
  PROVE  /\ IsStream(AfterWrite(s, u)) /\ AfterWrite(s, u).data = Append(s.data, u)
         /\ AfterWrite(s, u).flags = s.flags
<1>1. Append(s.data, u) \in Seq(Units)
  BY AppendProperties DEF IsStream
<1> QED
  BY <1>1 DEF IsStream, AfterWrite

\* A read gives a beginning of the data and leaves the rest.
LEMMA ReadIs ==
  ASSUME NEW s, IsStream(s), NEW n \in Nat
  PROVE  /\ IsStream(AfterRead(s, n)) /\ AfterRead(s, n).flags = s.flags
         /\ ReadUnits(s, n) \in Seq(Units)
         /\ Len(ReadUnits(s, n)) + Len(AfterRead(s, n).data) = Len(s.data)
         /\ \A k \in 1 .. Len(ReadUnits(s, n)) : ReadUnits(s, n)[k] = s.data[k]
         /\ \A k \in 1 .. Len(AfterRead(s, n).data) :
              AfterRead(s, n).data[k] = s.data[k + Len(ReadUnits(s, n))]
<1> DEFINE c == ReadCount(s, n)
<1>1. s.data \in Seq(Units) /\ Len(s.data) \in Nat
  BY LenProperties DEF IsStream
<1>2. c \in 0 .. Len(s.data)
  BY <1>1 DEF ReadCount
<1>3. AfterRead(s, n) = [s EXCEPT !.data = SubSeq(s.data, c + 1, Len(s.data))]
  BY DEF AfterRead
<1> HIDE DEF c
<1>4. /\ SubSeq(s.data, 1, c) \in Seq(Units) /\ Len(SubSeq(s.data, 1, c)) = c
      /\ \A k \in 1 .. c : SubSeq(s.data, 1, c)[k] = s.data[k]
  <2>1. \A k \in 1 .. c : s.data[k] \in Units
    BY <1>1, <1>2, ElementOfSeq
  <2> QED
    BY <1>1, <1>2, <2>1, SubSeqProperties
<1>5. /\ SubSeq(s.data, c + 1, Len(s.data)) \in Seq(Units)
      /\ Len(SubSeq(s.data, c + 1, Len(s.data))) = Len(s.data) - c
      /\ \A k \in 1 .. Len(s.data) - c : SubSeq(s.data, c + 1, Len(s.data))[k] = s.data[k + c]
  <2>1. \A k \in c + 1 .. Len(s.data) : s.data[k] \in Units
    BY <1>1, <1>2, ElementOfSeq
  <2>2. c + 1 \in Int /\ Len(s.data) \in Int
    BY <1>1, <1>2
  <2>3. /\ SubSeq(s.data, c + 1, Len(s.data)) \in Seq(Units)
        /\ Len(SubSeq(s.data, c + 1, Len(s.data)))
             = IF c + 1 <= Len(s.data) THEN Len(s.data) - (c + 1) + 1 ELSE 0
        /\ \A k \in 1 .. Len(s.data) - (c + 1) + 1 :
             SubSeq(s.data, c + 1, Len(s.data))[k] = s.data[c + 1 + k - 1]
    BY <2>1, <2>2, SubSeqProperties
  <2>4. \A k \in 1 .. Len(s.data) - c : c + 1 + k - 1 = k + c
    BY <1>1, <1>2
  <2> QED
    BY <1>1, <1>2, <2>3, <2>4
<1>6. AfterRead(s, n).data = SubSeq(s.data, c + 1, Len(s.data)) /\ AfterRead(s, n).flags = s.flags
      /\ IsStream(AfterRead(s, n))
  BY <1>3, <1>5 DEF IsStream
<1>7. ReadUnits(s, n) = SubSeq(s.data, 1, c)
  BY DEF ReadUnits, c
<1>8. /\ ReadUnits(s, n) \in Seq(Units) /\ Len(ReadUnits(s, n)) = c
      /\ \A k \in 1 .. c : ReadUnits(s, n)[k] = s.data[k]
  BY <1>4, <1>7
<1>9. /\ Len(AfterRead(s, n).data) = Len(s.data) - c
      /\ \A k \in 1 .. Len(s.data) - c : AfterRead(s, n).data[k] = s.data[k + c]
  BY <1>5, <1>6
<1> QED
  BY <1>1, <1>2, <1>6, <1>8, <1>9

--------------------------------------------------------------------------------
(* What each thread leaves alone. *)

LEMMA ApplicationLeaves ==
  Application => UNCHANGED <<decode_queue, workers, heard, overtaken>> \/ PlaySet
  BY DEF Application, PlayCall, PlaySend, PlayWait, PlayCheck, InfoResume, StopCall,
         StopPreprocess, StopIdlePlayer, StopDecode, StopWait, StopReturn, DeviceStopCall,
         DeviceStopSend, DeviceStopWait, Pause, Resume, history, queues, AppGoto, caller

LEMMA PreprocessLeaves ==
  Preprocess => UNCHANGED <<play_queue, decode_stream, sems, playback, playback_start, start_time,
                            caller, pb, heard>>
  BY DEF Preprocess, PreReceive, PreInit, PreInitFail, PreStart, PreSend, PreResume, PrePoll,
         PreRead, PreEnd, PreTimeout, PreWrite, queues, streams, fields, history, caller, sems

LEMMA DecodeLeaves ==
  Decode => UNCHANGED <<sems, playback, start_time, caller, pre, pb, history>>
  BY DEF Decode, DecReceive, DecHeader, DecFind, DecSeekSend, DecSeekReset, DecInit, DecInitSeek,
         DecFailStop, DecFail, DecStart, DecInput, DecOutput, DecOutputSend, DecOutputMark,
         DecWrite, DecErrorStop, DecEndStop, DecEndFinish, DecEnd, fields

LEMMA PlayLeaves ==
  Play => UNCHANGED <<preprocess_queue, decode_queue, playback, playback_start, start_time,
                      caller, pre, dec>>
  BY DEF Play, PbReceive, PbNoDevice, PbOpen, PbFailStop, PbFailStopDecode, PbFail, PbBegin,
         PbRead, PbDrained, PbFrame, PbUnpause, PbAwake, PbDevice, PbNext, PbIdle, PbMuteMessage,
         PbClose, queues, fields, history

--------------------------------------------------------------------------------
(* The shapes are kept. *)

LEMMA InitShape == Init => Shape
<1> SUFFICES ASSUME Init PROVE Shape
  OBVIOUS
<1> USE PlayerAssumption
<1>1. <<>> \in Seq(Units)
  BY EmptySeq
<1>2. StreamShape
  BY <1>1 DEF Init, StreamShape, IsStream, NewStream
<1>3. NoUnit \in Units /\ PlayMsg \in Msgs
  BY DEF NoUnit, Unit, Units, PlayMsg, Msgs
<1>4. AppShape /\ PreShape /\ DecShape /\ PbShape
  BY <1>1, <1>3 DEF Init, AppShape, PreShape, DecShape, PbShape
<1> QED
  BY <1>1, <1>2, <1>4 DEF Init, Shape, QueueShape, FieldShape

LEMMA AppKeepsShape == ASSUME AppShape, [Next]_vars PROVE AppShape'
<1>1. CASE Application
  <2> USE DEF AppShape, AppGoto
  <2>1. CASE PlayCall
    BY <2>1 DEF PlayCall
  <2>2. CASE PlaySet
    BY <2>2 DEF PlaySet
  <2>3. CASE PlaySend
    BY <2>3 DEF PlaySend
  <2>4. CASE PlayWait
    BY <2>4 DEF PlayWait
  <2>5. CASE PlayCheck
    BY <2>5 DEF PlayCheck
  <2>6. CASE InfoResume
    BY <2>6 DEF InfoResume
  <2>7. CASE StopCall
    BY <2>7 DEF StopCall
  <2>8. CASE StopPreprocess
    BY <2>8 DEF StopPreprocess
  <2>9. CASE StopIdlePlayer \/ StopReturn
    BY <2>9 DEF StopIdlePlayer, StopReturn, AfterStop
  <2>10. CASE StopDecode \/ StopWait
    BY <2>10 DEF StopDecode, StopWait
  <2>11. CASE DeviceStopCall(TRUE) \/ DeviceStopCall(FALSE)
    BY <2>11 DEF DeviceStopCall
  <2>12. CASE DeviceStopSend \/ DeviceStopWait
    BY <2>12 DEF DeviceStopSend, DeviceStopWait
  <2>13. CASE Pause \/ Resume
    BY <2>13 DEF Pause, Resume, caller
  <2> QED
    BY <1>1, <2>1, <2>2, <2>3, <2>4, <2>5, <2>6, <2>7, <2>8, <2>9, <2>10, <2>11, <2>12, <2>13
       DEF Application
<1>2. CASE UNCHANGED app
  BY <1>2 DEF AppShape
<1> QED
  BY <1>1, <1>2, PreprocessLeaves, DecodeLeaves, PlayLeaves DEF Next, caller, vars

LEMMA PreKeepsShape == ASSUME Shape, [Next]_vars PROVE PreShape'
<1> USE DEF Shape
<1>1. CASE Preprocess
  <2> USE DEF PreShape, PreGoto
  <2>1. CASE PreReceive
    BY <2>1 DEF PreReceive, QueueShape
  <2>2. CASE PreInit
    BY <2>2 DEF PreInit, FieldShape, Msgs
  <2>3. CASE PreInitFail \/ PreStart \/ PreSend \/ PreResume \/ PreEnd \/ PreWrite
    BY <2>3 DEF PreInitFail, PreStart, PreSend, PreResume, PreEnd, PreWrite
  <2>4. CASE PrePoll
    BY <2>4 DEF PrePoll, QueueShape, Msgs
  <2>5. CASE PreRead
    <3>1. Unit(pre.src, pre.next) \in Units
      BY DEF Unit, Units
    <3> QED
      BY <2>5, <3>1 DEF PreRead
  <2>6. CASE PreTimeout
    BY <2>6 DEF PreTimeout
  <2> QED
    BY <1>1, <2>1, <2>2, <2>3, <2>4, <2>5, <2>6 DEF Preprocess
<1>2. CASE UNCHANGED pre
  BY <1>2 DEF PreShape
<1>3. PlaySet => UNCHANGED pre
  BY DEF PlaySet, workers
<1> QED
  BY <1>1, <1>2, <1>3, ApplicationLeaves, DecodeLeaves, PlayLeaves DEF Next, workers, vars

\* A read of the decoder takes the first unit, or finds the end.
LEMMA InputIs ==
  ASSUME StreamShape, NEW unit, NEW end, Input(unit, end)
  PROVE  \/ dec' = [dec EXCEPT !.pc = end] /\ UNCHANGED preprocess_stream
         \/ /\ dec' = [dec EXCEPT !.pc = unit, !.buf = preprocess_stream.data[1]]
            /\ Len(preprocess_stream.data) >= 1 /\ preprocess_stream.data[1] \in Units
            /\ IsStream(preprocess_stream') /\ preprocess_stream'.flags = preprocess_stream.flags
            /\ Len(preprocess_stream'.data) = Len(preprocess_stream.data) - 1
            /\ \A k \in 1 .. Len(preprocess_stream'.data) :
                 preprocess_stream'.data[k] = preprocess_stream.data[k + 1]
<1>1. CASE Has(preprocess_stream, "STOPPED") \/ preprocess_stream.data = <<>>
  BY <1>1 DEF Input, DecGoto
<1>2. CASE ~(Has(preprocess_stream, "STOPPED") \/ preprocess_stream.data = <<>>)
  <2> DEFINE s == preprocess_stream
  <2>1. s.data \in Seq(Units) /\ s.data # <<>> /\ IsStream(s)
    BY <1>2 DEF StreamShape, IsStream
  <2>2. Len(s.data) \in Nat /\ Len(s.data) >= 1
    BY <2>1, EmptySeq, LenProperties
  <2>3. Head(s.data) = s.data[1] /\ s.data[1] \in Units
    BY <2>1, <2>2, ElementOfSeq
  <2>4. s' = AfterRead(s, 1) /\ dec' = [dec EXCEPT !.pc = unit, !.buf = Head(s.data)]
    BY <1>2 DEF Input
  <2>5. ReadUnits(s, 1) = SubSeq(s.data, 1, 1)
    BY <2>2 DEF ReadUnits, ReadCount
  <2>6. Len(ReadUnits(s, 1)) = 1
    BY <2>2, <2>3, <2>5, SubSeqProperties
  <2>7. /\ IsStream(s') /\ s'.flags = s.flags
        /\ 1 + Len(s'.data) = Len(s.data)
        /\ \A k \in 1 .. Len(s'.data) : s'.data[k] = s.data[k + 1]
    <3> DEFINE t == AfterRead(s, 1)
    <3>1. /\ IsStream(t) /\ t.flags = s.flags
          /\ Len(ReadUnits(s, 1)) + Len(t.data) = Len(s.data)
          /\ \A k \in 1 .. Len(t.data) : t.data[k] = s.data[k + Len(ReadUnits(s, 1))]
      BY <2>1, ReadIs
    <3> HIDE DEF t
    <3> QED
      BY <2>4, <2>6, <3>1 DEF t
  <2>8. Len(s'.data) \in Nat
    BY <2>7, LenProperties DEF IsStream
  <2> QED
    BY <2>2, <2>3, <2>4, <2>7, <2>8
<1> QED
  BY <1>1, <1>2

LEMMA DecKeepsShape == ASSUME Shape, [Next]_vars PROVE DecShape'
<1> USE DEF Shape
<1>1. CASE Decode
  <2> USE DEF DecShape, DecGoto
  <2>1. CASE DecHeader
    BY <2>1, InputIs DEF DecHeader
  <2>2. CASE DecInit
    BY <2>2, InputIs DEF DecInit
  <2>3. CASE DecInput
    BY <2>3, InputIs DEF DecInput
  <2>4. CASE DecReceive \/ DecFind \/ DecSeekSend
    BY <2>4 DEF DecReceive, DecFind, DecSeekSend
  <2>8. CASE DecSeekReset
    BY <2>8 DEF DecSeekReset, CopyStart, FieldShape
  <2>5. CASE DecInitSeek
    <3>1. PICK where : DecGoto(where)
      BY <2>5 DEF DecInitSeek
    <3> QED
      BY <3>1
  <2>6. CASE DecFailStop \/ DecFail \/ DecStart \/ DecOutput \/ DecOutputSend \/ DecOutputMark
    BY <2>6 DEF DecFailStop, DecFail, DecStart, DecOutput, DecOutputSend, DecOutputMark
  <2>7. CASE DecWrite \/ DecErrorStop \/ DecEndStop \/ DecEndFinish \/ DecEnd
    BY <2>7 DEF DecWrite, DecErrorStop, DecEndStop, DecEndFinish, DecEnd
  <2> QED
    BY <1>1, <2>1, <2>2, <2>3, <2>4, <2>5, <2>6, <2>7, <2>8 DEF Decode
<1>2. CASE UNCHANGED dec
  BY <1>2 DEF DecShape
<1>3. PlaySet => UNCHANGED dec
  BY DEF PlaySet, workers
<1>4. CASE Preprocess
  <2>1. CASE PreStart
    BY <2>1 DEF PreStart, DecShape
  <2>2. CASE UNCHANGED dec
    BY <2>2 DEF DecShape
  <2> QED
    BY <1>4, <2>1, <2>2 DEF Preprocess, PreReceive, PreInit, PreInitFail, PreSend, PreResume,
       PrePoll, PreRead, PreEnd, PreTimeout, PreWrite
<1> QED
  BY <1>1, <1>2, <1>3, <1>4, ApplicationLeaves, PlayLeaves DEF Next, workers, vars

\* The copy of start_time the decoder works with changes at its first seek only.
LEMMA DecStartIs == ASSUME Shape, Decode PROVE dec'.start \in {dec.start, start_time}
<1> USE DEF Shape, DecShape, DecGoto
<1>1. CASE DecHeader \/ DecInit \/ DecInput
  BY <1>1, InputIs DEF DecHeader, DecInit, DecInput
<1>2. CASE DecSeekReset
  BY <1>2 DEF DecSeekReset, CopyStart
<1>3. CASE DecInitSeek
  <2>1. PICK where : DecGoto(where)
    BY <1>3 DEF DecInitSeek
  <2> QED
    BY <2>1
<1>4. CASE DecReceive \/ DecFind \/ DecSeekSend \/ DecFailStop \/ DecFail \/ DecStart
  BY <1>4 DEF DecReceive, DecFind, DecSeekSend, DecFailStop, DecFail, DecStart
<1>5. CASE DecOutput \/ DecOutputSend \/ DecOutputMark \/ DecWrite
  BY <1>5 DEF DecOutput, DecOutputSend, DecOutputMark, DecWrite
<1>6. CASE DecErrorStop \/ DecEndStop \/ DecEndFinish \/ DecEnd
  BY <1>6 DEF DecErrorStop, DecEndStop, DecEndFinish, DecEnd
<1> QED
  BY <1>1, <1>2, <1>3, <1>4, <1>5, <1>6 DEF Decode

LEMMA PbKeepsShape == ASSUME Shape, [Next]_vars PROVE PbShape' /\ heard' \in Seq(Units)
<1> USE DEF Shape
<1>0. <<>> \in Seq(Units)
  BY EmptySeq
<1>1. CASE Play
  <2> USE <1>0 DEF PbShape, PbGoto, history
  <2>1. CASE PbReceive \/ PbNoDevice \/ PbOpen \/ PbFailStop \/ PbFailStopDecode \/ PbFail
    BY <2>1 DEF PbReceive, PbNoDevice, PbOpen, PbFailStop, PbFailStopDecode, PbFail
  <2>2. CASE PbBegin \/ PbDrained \/ PbUnpause \/ PbAwake \/ PbNext \/ PbIdle
    BY <2>2 DEF PbBegin, PbDrained, PbUnpause, PbAwake, PbNext, PbIdle
  <2>3. CASE PbRead
    <3>1. ReadUnits(decode_stream, FrameUnits) \in Seq(Units)
      BY ReadIs, PlayerAssumption DEF StreamShape
    <3> QED
      BY <2>3, <3>1 DEF PbRead
  <2>4. CASE PbFrame
    <3>1. PICK where : PbGoto(where)
      BY <2>4 DEF PbFrame
    <3> QED
      BY <2>4, <3>1 DEF PbFrame
  <2>5. CASE PbDevice
    <3>1. heard \o pb.buf \in Seq(Units)
      BY ConcatProperties
    <3> QED
      BY <2>5, <3>1 DEF PbDevice
  <2>6. CASE PbMuteMessage \/ PbClose
    BY <2>6 DEF PbMuteMessage, PbClose
  <2> QED
    BY <1>1, <2>1, <2>2, <2>3, <2>4, <2>5, <2>6 DEF Play
<1>2. CASE UNCHANGED <<pb, heard>>
  BY <1>2 DEF PbShape
<1>3. CASE PlaySet
  BY <1>0, <1>3 DEF PlaySet, workers, PbShape
<1> QED
  BY <1>1, <1>2, <1>3, ApplicationLeaves, PreprocessLeaves, DecodeLeaves
     DEF Next, workers, history, vars

LEMMA StreamsKeepShape == ASSUME Shape, [Next]_vars PROVE StreamShape'
<1> USE DEF Shape, StreamShape
<1>1. CASE UNCHANGED streams
  BY <1>1 DEF streams
<1>2. CASE Application
  <2>1. CASE InfoResume
    BY <2>1, ResetIs DEF InfoResume
  <2>2. CASE StopPreprocess
    BY <2>2, EndedIs DEF StopPreprocess
  <2>3. CASE StopDecode
    BY <2>3, EndedIs DEF StopDecode
  <2>4. CASE UNCHANGED streams
    BY <2>4, <1>1
  <2> QED
    BY <1>2, <2>1, <2>2, <2>3, <2>4 DEF Application, PlayCall, PlaySet, PlaySend, PlayWait,
       PlayCheck, StopCall, StopIdlePlayer, StopWait, StopReturn, DeviceStopCall, DeviceStopSend,
       DeviceStopWait, Pause, Resume
<1>3. CASE Preprocess
  <2>1. CASE PreStart
    BY <2>1, StartedIs DEF PreStart
  <2>2. CASE PreResume
    BY <2>2, ResetIs DEF PreResume
  <2>3. CASE PreEnd \/ PreTimeout
    BY <2>3, EndedIs DEF PreEnd, PreTimeout
  <2>4. CASE PreWrite
    BY <2>4, WrittenIs DEF PreWrite, PreShape
  <2>5. CASE UNCHANGED streams
    BY <2>5, <1>1
  <2> QED
    BY <1>3, <2>1, <2>2, <2>3, <2>4, <2>5 DEF Preprocess, PreReceive, PreInit, PreInitFail, PreSend,
       PrePoll, PreRead
<1>4. CASE Decode
  <2>1. CASE DecHeader \/ DecInit \/ DecInput
    BY <2>1, InputIs DEF DecHeader, DecInit, DecInput
  <2>2. CASE DecSeekReset
    BY <2>2, ResetIs DEF DecSeekReset
  <2>3. CASE DecFailStop \/ DecErrorStop \/ DecEndStop \/ DecEndFinish
    BY <2>3, EndedIs DEF DecFailStop, DecErrorStop, DecEndStop, DecEndFinish
  <2>4. CASE DecStart
    BY <2>4, StartedIs DEF DecStart
  <2>5. CASE DecWrite
    BY <2>5, WrittenIs DEF DecWrite, DecShape
  <2>6. CASE UNCHANGED streams
    BY <2>6, <1>1
  <2> QED
    BY <1>4, <2>1, <2>2, <2>3, <2>4, <2>5, <2>6 DEF Decode, DecReceive, DecFind, DecSeekSend,
       DecInitSeek, DecFail, DecOutput, DecOutputSend, DecOutputMark, DecEnd
<1>5. CASE Play
  <2>1. CASE PbFailStop \/ PbFailStopDecode \/ PbDrained
    BY <2>1, EndedIs DEF PbFailStop, PbFailStopDecode, PbDrained
  <2>2. CASE PbRead
    <3>1. IsStream(AfterRead(decode_stream, FrameUnits))
      BY ReadIs, PlayerAssumption
    <3> QED
      BY <2>2, <3>1 DEF PbRead
  <2>3. CASE UNCHANGED streams
    BY <2>3, <1>1
  <2> QED
    BY <1>5, <2>1, <2>2, <2>3 DEF Play, PbReceive, PbNoDevice, PbOpen, PbFail, PbBegin, PbFrame,
       PbUnpause, PbAwake, PbDevice, PbNext, PbIdle, PbMuteMessage, PbClose
<1> QED
  BY <1>1, <1>2, <1>3, <1>4, <1>5 DEF Next, streams, vars

LEMMA QueuesKeepShape == ASSUME Shape, [Next]_vars PROVE QueueShape'
<1> USE DEF Shape, QueueShape
<1>1. CASE preprocess_queue' = <<>> \/ UNCHANGED preprocess_queue
  BY <1>1
<1>2. CASE PlaySend
  BY <1>2 DEF PlaySend, PlayMsg, Msgs
<1>3. CASE DecSeekSend
  BY <1>3 DEF DecSeekSend, Seek, Msgs, DecShape
<1>4. CASE Application /\ ~PlaySend
  BY <1>1, <1>4 DEF Application, PlayCall, PlaySet, PlayWait, PlayCheck, InfoResume, StopCall,
     StopPreprocess, StopIdlePlayer, StopDecode, StopWait, StopReturn, DeviceStopCall,
     DeviceStopSend, DeviceStopWait, Pause, Resume, queues
<1>5. CASE Preprocess
  BY <1>1, <1>5 DEF Preprocess, PreReceive, PreInit, PreInitFail, PreStart, PreSend, PreResume,
     PrePoll, PreRead, PreEnd, PreTimeout, PreWrite, queues
<1>6. CASE Decode /\ ~DecSeekSend
  BY <1>1, <1>6 DEF Decode, DecReceive, DecHeader, DecFind, DecSeekReset, DecInit, DecInitSeek,
     DecFailStop, DecFail, DecStart, DecInput, DecOutput, DecOutputSend, DecOutputMark, DecWrite,
     DecErrorStop, DecEndStop, DecEndFinish, DecEnd, queues
<1> QED
  BY <1>1, <1>2, <1>3, <1>4, <1>5, <1>6, PlayLeaves DEF Next, queues, vars

LEMMA FieldsKeepShape == ASSUME Shape, [Next]_vars PROVE FieldShape'
<1> USE DEF Shape, FieldShape
<1>1. CASE UNCHANGED <<playback, playback_start, start_time, plays>>
  BY <1>1
<1>2. CASE PlaySet
  BY <1>2, PlayerAssumption DEF PlaySet
<1>3. CASE Application /\ ~PlaySet
  BY <1>1, <1>3 DEF Application, PlayCall, PlaySend, PlayWait, PlayCheck, InfoResume, StopCall,
     StopPreprocess, StopIdlePlayer, StopDecode, StopWait, StopReturn, DeviceStopCall,
     DeviceStopSend, DeviceStopWait, Pause, Resume, fields, caller
<1>4. CASE DecOutputMark
  BY <1>4 DEF DecOutputMark, caller
<1>5. CASE Decode /\ ~DecOutputMark
  BY <1>1, <1>5 DEF Decode, DecReceive, DecHeader, DecFind, DecSeekSend, DecSeekReset, DecInit,
     DecInitSeek, DecFailStop, DecFail, DecStart, DecInput, DecOutput, DecOutputSend, DecWrite,
     DecErrorStop, DecEndStop, DecEndFinish, DecEnd, fields, caller
<1> QED
  BY <1>1, <1>2, <1>3, <1>4, <1>5, PreprocessLeaves, PlayLeaves DEF Next, fields, caller, vars

LEMMA NextShape == Shape /\ [Next]_vars => Shape'
  BY AppKeepsShape, PreKeepsShape, DecKeepsShape, PbKeepsShape, StreamsKeepShape, QueuesKeepShape,
     FieldsKeepShape DEF Shape

--------------------------------------------------------------------------------
(* One track of a player, the p-th.                                              *)

\* the units of s are consecutive, from position i of the track p on
InOrder(p, s, i) == \A k \in 1 .. Len(s) : s[k] = Unit(p, i + k - 1)

\* no seek is on its way to the preprocess thread
PreCalm == pre.pc \in {"wait", "poll", "read", "write"}
NoSeek  == preprocess_queue = <<>> /\ PreCalm

\* one may be, to position i
SeekTo(i) == /\ preprocess_queue # <<>> => PreCalm /\ preprocess_queue = <<Seek(i)>>
             /\ pre.pc = "init" => pre.cmd = Seek(i)
             /\ pre.pc \in {"resume", "seek_resume"} => pre.next = i
             /\ pre.pc \notin {"start", "send"}

\* The stream holds the units from i on, and as long as it takes more, those that
\* the preprocess thread has in hand come next.
Follows(p, i) == /\ InOrder(p, preprocess_stream.data, i)
                 /\ preprocess_stream.flags = {"RUN"} =>
                      LET n == i + Len(preprocess_stream.data)
                      IN  /\ pre.pc = "write" => pre.buf = Unit(p, n) /\ pre.next = n + 1
                          /\ pre.pc \in {"poll", "read"} => pre.next = n

\* The seek has been served after its reset.
Flowing(p, i) == "RESET" \notin preprocess_stream.flags /\ NoSeek /\ Follows(p, i)

\* What the decoder reads next is the unit i, if it reads any more.
Feed(p, i) == \/ Flowing(p, i)
              \/ "RESET" \in preprocess_stream.flags /\ preprocess_stream.data = <<>> /\ SeekTo(i)

\* Before its decoder begins, a track is with one of these.
Fresh      == dec.pc = "wait" /\ playback_start = 0
PlayQueued == preprocess_queue # <<>> /\ Head(preprocess_queue).type = "play"
PreHolds   == pre.pc \in {"start", "send"} \/ (pre.pc = "init" /\ pre.cmd.type = "play")

OnTheWay(p) ==
  /\ app.pc = "play_send" => preprocess_queue = <<>> /\ pre.pc = "wait" /\ decode_queue = <<>> /\ Fresh
  /\ PlayQueued           => app.pc # "play_send" /\ pre.pc = "wait" /\ decode_queue = <<>> /\ Fresh
                               /\ preprocess_queue = <<PlayMsg>>
  /\ PreHolds             => app.pc # "play_send" /\ preprocess_queue = <<>> /\ decode_queue = <<>>
                               /\ Fresh /\ pre.cmd = PlayMsg
  /\ decode_queue # <<>>  => app.pc # "play_send" /\ NoSeek /\ Fresh
  /\ pre.pc \notin {"wait", "init"} => pre.src = p

\* What the decoder holds, and what the playback thread is about to give the device.
Held    == IF dec.pc \in {"output", "output_send", "output_mark", "write"} THEN 1 ELSE 0
InFrame == IF pb.pc \in {"frame", "paused", "unpaused", "device"} THEN Len(pb.buf) ELSE 0

Arrived == FirstHeard + Len(heard) + InFrame        \* the position that comes after
Decoded == Arrived + Len(decode_stream.data)

\* The decoder before it decodes.
Preparing(p) ==
  /\ dec.pc \in {"header", "find", "seek_header_send"} => NoSeek
  /\ dec.pc = "seek_header_reset" => SeekTo(0)
  /\ dec.pc = "init" => Feed(p, 0)
  /\ dec.pc = "init_seek" => IF Decoder = "wav" THEN Flowing(p, 1) ELSE Feed(p, 0)
  /\ dec.pc \in {"init", "init_seek", "seek_start_send"} => dec.start = start_time
  /\ dec.pc = "seek_start_send" => NoSeek /\ start_time # 0
  /\ dec.pc = "seek_start_reset" => start_time # 0 /\ \A i \in Nat : i = start_time => SeekTo(i)
  /\ dec.pc = "start" => \A i \in Nat : i = FirstHeard => Feed(p, i)

Decodes == dec.pc \in {"input", "output", "output_send", "output_mark", "write"}
Ends    == dec.pc \in {"error_stop", "error_stop_pre", "end_stop", "end_finish", "end"}
Done    == dec.pc = "wait" /\ playback_start = 1

\* The device can still get something: the playback has not begun, or it goes on.
Waiting == playback_start = 0 /\ dec.pc # "output_mark"
CanHear == \/ pb.pc \in {"wait", "mute"} /\ (Waiting \/ play_queue = <<"play">>)
           \/ pb.pc \in {"open", "begin"}
           \/ /\ pb.pc \in {"read", "frame", "paused", "unpaused", "device", "written"}
              /\ state \in {"RUNNING", "PAUSED"}

Live    == CanHear /\ (Decodes \/ Ends \/ Done)

Places ==
  /\ Waiting => pb.pc \in {"wait", "mute"} /\ play_queue # <<"play">> /\ heard = <<>>
  /\ play_queue = <<"play">> => pb.pc \in {"wait", "mute"} /\ heard = <<>>
  /\ pb.pc \in {"open", "begin"} => heard = <<>>
  /\ playback_start = 1 => Decodes \/ Ends \/ Done
  /\ dec.pc \in {"output_send", "output_mark"} => playback_start = 0
  /\ Decodes => "RUN" \in decode_stream.flags /\ decode_stream.flags \cap {"RESET", "FINISHED"} = {}
  /\ app.pc # "info_resume"

Playing(p) ==
  /\ InOrder(p, heard, FirstHeard)
  /\ pb.pc \in {"paused", "unpaused", "device"} => InOrder(p, pb.buf, FirstHeard + Len(heard))
  /\ Live =>
       /\ pb.pc = "frame" => InOrder(p, pb.buf, FirstHeard + Len(heard))
       /\ InOrder(p, decode_stream.data, Arrived)
       /\ Held = 1 => dec.buf = Unit(p, Decoded)
       /\ Decodes => \A i \in Nat : i = Decoded + Held => Feed(p, i)

\* play_pcm with a start position is excepted: it sends two seeks in a row, and the
\* resume of the first may clear the reset of the second.
Plain      == Decoder = "wav" \/ start_time = 0
Tracked(p) == plays = p /\ playback = 1 /\ Plain
Track(p)   == OnTheWay(p) /\ Preparing(p) /\ Places /\ Playing(p)

\* an info_only track gives the device nothing
OnlyInfo   == heard = <<>> /\ pb.pc \in {"wait", "open"}

TrackInv(p) == /\ plays = p /\ playback = 0 => OnlyInfo
               /\ Tracked(p) => Track(p)

\* The workers wait for a message, and none is on its way.
Runs   == state \in {"RUNNING", "PAUSED", "STOP"}
AtRest == /\ preprocess_queue = <<>> /\ decode_queue = <<>> /\ play_queue # <<"play">>
          /\ pre.pc = "wait" /\ dec.pc = "wait" /\ pb.pc \in {"wait", "mute"} /\ ~Runs

\* The track p begins like this, and the device is closed if it is an info_only one.
BeginsAtRest(p) == PlaySet /\ plays' = p => AtRest /\ (playback' = 0 => pb.pc = "wait")

\* So does the first track: before it nothing moves but the application and the
\* messages of its player_device_stop.
NothingYet  == /\ AtRest /\ pb.pc = "wait" /\ state = "IDLE" /\ heard = <<>> /\ ~silent
               /\ app.pc \notin {"play_send", "play_wait", "play_check", "info_resume",
                                 "stop_decode", "stop_wait", "stop_idle"}
NotYet      == plays = 0 => NothingYet

--------------------------------------------------------------------------------
(* Units in order. *)

LEMMA EmptyInOrder == \A p, i : InOrder(p, <<>>, i)
  BY DEF InOrder

LEMMA AppendInOrder ==
  ASSUME NEW p \in Nat, NEW s \in Seq(Units), NEW i \in Nat, InOrder(p, s, i),
         NEW u \in Units, u = Unit(p, i + Len(s))
  PROVE  InOrder(p, Append(s, u), i) /\ Len(Append(s, u)) = Len(s) + 1
<1>1. /\ Len(s) \in Nat /\ Len(Append(s, u)) = Len(s) + 1
      /\ \A k \in 1 .. Len(s) : Append(s, u)[k] = s[k]
      /\ Append(s, u)[Len(s) + 1] = u
  BY AppendProperties, LenProperties
<1>2. ASSUME NEW k \in 1 .. Len(s) + 1 PROVE Append(s, u)[k] = Unit(p, i + k - 1)
  <2>1. CASE k = Len(s) + 1
    <3>1. i + k - 1 = i + Len(s)
      BY <1>1, <2>1
    <3> QED
      BY <1>1, <2>1, <3>1
  <2>2. CASE k \in 1 .. Len(s)
    BY <1>1, <2>2 DEF InOrder
  <2> QED
    BY <1>1, <2>1, <2>2
<1> QED
  BY <1>1, <1>2 DEF InOrder

LEMMA ConcatInOrder ==
  ASSUME NEW p \in Nat, NEW s \in Seq(Units), NEW t \in Seq(Units), NEW i \in Nat,
         InOrder(p, s, i), InOrder(p, t, i + Len(s))
  PROVE  InOrder(p, s \o t, i) /\ Len(s \o t) = Len(s) + Len(t)
<1>1. /\ Len(s) \in Nat /\ Len(t) \in Nat /\ Len(s \o t) = Len(s) + Len(t)
      /\ \A k \in 1 .. Len(s) + Len(t) : (s \o t)[k] = IF k <= Len(s) THEN s[k] ELSE t[k - Len(s)]
  BY ConcatProperties, LenProperties
<1>2. ASSUME NEW k \in 1 .. Len(s) + Len(t) PROVE (s \o t)[k] = Unit(p, i + k - 1)
  <2>1. CASE k <= Len(s)
    BY <1>1, <2>1 DEF InOrder
  <2>2. CASE ~(k <= Len(s))
    <3>1. k - Len(s) \in 1 .. Len(t) /\ i + Len(s) + (k - Len(s)) - 1 = i + k - 1
      BY <1>1, <2>2
    <3>2. t[k - Len(s)] = Unit(p, i + Len(s) + (k - Len(s)) - 1)
      BY <3>1 DEF InOrder
    <3> QED
      BY <1>1, <2>2, <3>1, <3>2
  <2> QED
    BY <2>1, <2>2
<1> QED
  BY <1>1, <1>2 DEF InOrder

\* of a beginning and a rest
LEMMA SplitInOrder ==
  ASSUME NEW p \in Nat, NEW s, NEW t, NEW r, NEW i \in Nat, InOrder(p, s, i),
         Len(s) \in Nat, Len(t) \in Nat, Len(r) \in Nat, Len(t) + Len(r) = Len(s),
         \A k \in 1 .. Len(t) : t[k] = s[k],
         \A k \in 1 .. Len(r) : r[k] = s[k + Len(t)]
  PROVE  InOrder(p, t, i) /\ InOrder(p, r, i + Len(t))
<1>1. InOrder(p, t, i)
  BY DEF InOrder
<1>2. ASSUME NEW k \in 1 .. Len(r) PROVE r[k] = Unit(p, i + Len(t) + k - 1)
  <2>1. k + Len(t) \in 1 .. Len(s) /\ i + (k + Len(t)) - 1 = i + Len(t) + k - 1
    OBVIOUS
  <2>2. s[k + Len(t)] = Unit(p, i + (k + Len(t)) - 1)
    BY <2>1 DEF InOrder
  <2> QED
    BY <2>1, <2>2
<1> QED
  BY <1>1, <1>2 DEF InOrder

--------------------------------------------------------------------------------
(* What the decoder is fed. *)

\* What a step leaves to the decoder: the same units, the same seeks.
FeedsOn(p) == /\ NoSeek => NoSeek'
              /\ \A i \in Nat : SeekTo(i) => SeekTo(i)'
              /\ \A i \in Nat : Flowing(p, i) => Flowing(p, i)'
              /\ \A i \in Nat : Feed(p, i) => Feed(p, i)'

\* A stream that has ended takes nothing, so nothing need follow.
LEMMA EndingFeedsOn ==
  ASSUME NEW p \in Nat, Shape, UNCHANGED <<pre, preprocess_queue>>,
         preprocess_stream' \in {preprocess_stream, Stopped(preprocess_stream),
                                 Finished(preprocess_stream)}
  PROVE  FeedsOn(p)
<1> DEFINE s == preprocess_stream
<1>1. /\ s'.data = s.data /\ ("RESET" \in s'.flags <=> "RESET" \in s.flags)
      /\ s'.flags = {"RUN"} => s.flags = {"RUN"}
  BY EndedIs DEF Shape, StreamShape
<1>2. NoSeek => NoSeek'
  BY DEF NoSeek, PreCalm
<1>3. ASSUME NEW i \in Nat PROVE SeekTo(i) => SeekTo(i)'
  BY DEF SeekTo, PreCalm, Seek
<1>4. ASSUME NEW i \in Nat PROVE Follows(p, i) => Follows(p, i)'
  BY <1>1 DEF Follows, InOrder
<1> QED
  BY <1>1, <1>2, <1>3, <1>4 DEF FeedsOn, Flowing, Feed

\* The preprocess thread goes on behind what is in the stream.
LEMMA PreprocessFeedsOn ==
  ASSUME NEW p \in Nat, Shape, Preprocess, plays = p, pre.pc \notin {"wait", "init"} => pre.src = p
  PROVE  FeedsOn(p)
<1> DEFINE s == preprocess_stream
<1> USE DEF Shape
<1>0. IsStream(s) /\ s.data \in Seq(Units) /\ Len(s.data) \in Nat
  BY LenProperties DEF StreamShape, IsStream
<1>1. NoSeek => NoSeek'
  BY DEF NoSeek, PreCalm, Preprocess, PreReceive, PreInit, PreInitFail, PreStart, PreSend,
         PreResume, PrePoll, PreRead, PreEnd, PreTimeout, PreWrite, PreShape, PreGoto, queues
<1>2. ASSUME NEW i \in Nat, SeekTo(i) PROVE SeekTo(i)'
  <2> USE <1>2 DEF SeekTo, PreCalm, PreShape, PreGoto, queues
  <2>1. CASE PreReceive
    BY <2>1, HeadTailProperties DEF PreReceive, QueueShape, Seek
  <2>2. CASE PreInit
    BY <2>2 DEF PreInit, Seek
  <2>3. CASE PreInitFail \/ PreStart \/ PreSend \/ PreResume
    BY <2>3 DEF PreInitFail, PreStart, PreSend, PreResume
  <2>4. CASE PrePoll
    <3>1. CASE preprocess_queue = <<>>
      <4>1. pre'.pc = "read" /\ preprocess_queue' = <<>>
        BY <2>4, <3>1 DEF PrePoll
      <4> QED
        BY <4>1
    <3>2. CASE preprocess_queue # <<>>
      <4>1. Head(preprocess_queue).type = "seek" /\ Head(preprocess_queue).pos = i
        BY <3>2 DEF Seek
      <4>2. /\ pre' = [pre EXCEPT !.pc = "seek_resume", !.cmd = Head(preprocess_queue),
                                  !.next = Head(preprocess_queue).pos]
            /\ preprocess_queue' = <<>>
        BY <2>4, <3>2, <4>1 DEF PrePoll
      <4>3. pre'.pc = "seek_resume" /\ pre'.next = i
        BY <4>1, <4>2
      <4> QED
        BY <4>2, <4>3
    <3> QED
      BY <3>1, <3>2
  <2>5. CASE PreRead \/ PreEnd \/ PreTimeout \/ PreWrite
    BY <2>5 DEF PreRead, PreEnd, PreTimeout, PreWrite
  <2> QED
    BY <2>1, <2>2, <2>3, <2>4, <2>5 DEF Preprocess
<1>3. ASSUME NEW i \in Nat, Flowing(p, i) PROVE Flowing(p, i)'
  <2>1. NoSeek /\ NoSeek' /\ PreCalm /\ "RESET" \notin s.flags /\ Follows(p, i)
    BY <1>1, <1>3 DEF Flowing, NoSeek
  <2>2. CASE PreRead
    <3>1. UNCHANGED s
      BY <2>2 DEF PreRead, streams
    <3>2. /\ pre'.pc = "write" /\ pre'.buf = Unit(pre.src, pre.next) /\ pre'.next = pre.next + 1
      BY <2>2 DEF PreRead, PreShape
    <3>3. pre.pc = "read" /\ pre.src = p
      BY <2>2 DEF PreRead
    <3> QED
      BY <2>1, <3>1, <3>2, <3>3 DEF Flowing, Follows, InOrder
  <2>3. CASE PrePoll
    BY <2>1, <2>3 DEF PrePoll, Flowing, Follows, InOrder, NoSeek, PreGoto, PreShape, streams
  <2>4. CASE PreEnd \/ PreTimeout
    <3>1. \/ s' \in {Stopped(s), Finished(s)}
          \/ UNCHANGED s /\ pre.pc = "read" /\ pre'.pc = "poll" /\ pre'.next = pre.next
      BY <2>4 DEF PreEnd, PreTimeout, PreShape
    <3>2. CASE s' \in {Stopped(s), Finished(s)}
      <4>1. s'.data = s.data /\ s'.flags \in {s.flags \cup {"STOPPED"}, s.flags \cup {"FINISHED"}}
        <5>1. /\ Stopped(s).data = s.data /\ Stopped(s).flags = s.flags \cup {"STOPPED"}
              /\ Finished(s).data = s.data /\ Finished(s).flags = s.flags \cup {"FINISHED"}
          BY <1>0, EndedIs
        <5>2. CASE s' = Stopped(s)
          BY <5>1, <5>2
        <5>3. CASE s' = Finished(s)
          BY <5>1, <5>3
        <5> QED
          BY <3>2, <5>2, <5>3
      <4>2. s'.flags # {"RUN"} /\ "RESET" \notin s'.flags
        <5>1. "RESET" \notin s.flags
          BY <2>1
        <5>2. "STOPPED" \in s'.flags \/ "FINISHED" \in s'.flags
          BY <4>1
        <5>3. s'.flags # {"RUN"}
          BY <5>2
        <5>4. "RESET" \notin s'.flags
          BY <4>1, <5>1
        <5> QED
          BY <5>3, <5>4
      <4> QED
        BY <2>1, <4>1, <4>2 DEF Flowing, Follows, InOrder
    <3>3. CASE UNCHANGED s /\ pre.pc = "read" /\ pre'.pc = "poll" /\ pre'.next = pre.next
      BY <2>1, <3>3 DEF Flowing, Follows, InOrder
    <3> QED
      BY <3>1, <3>2, <3>3
  <2>5. CASE PreWrite
    <3>0. pre.pc = "write"
      BY <2>5 DEF PreWrite
    <3>1. CASE WriteStores(s, PreCap) /\ s' = AfterWrite(s, pre.buf) /\ PreGoto("poll")
      <4>1. s.flags = {"RUN"} /\ pre.buf = Unit(p, i + Len(s.data)) /\ pre.next = i + Len(s.data) + 1
        BY <2>1, <3>0, <3>1 DEF WriteStores, Follows
      <4>2. s'.flags = s.flags /\ s'.data = Append(s.data, pre.buf)
        BY <1>0, <3>1, WrittenIs DEF PreShape
      <4>3. InOrder(p, s'.data, i) /\ Len(s'.data) = Len(s.data) + 1
        BY <1>0, <2>1, <4>1, <4>2, AppendInOrder DEF Follows, PreShape
      <4>4. pre'.pc = "poll" /\ pre'.next = pre.next
        BY <3>1 DEF PreGoto, PreShape
      <4>5. pre'.next = i + Len(s'.data)
        BY <1>0, <4>1, <4>3, <4>4
      <4> QED
        BY <2>1, <4>2, <4>3, <4>4, <4>5 DEF Flowing, Follows
    <3>2. CASE UNCHANGED s /\ (WriteIgnored(s) \/ WriteStopped(s))
      <4>1. s.flags # {"RUN"}
        BY <3>2 DEF WriteIgnored, WriteStopped, Has
      <4> QED
        BY <2>1, <3>2, <4>1 DEF Flowing, Follows, InOrder
    <3> QED
      BY <2>5, <3>1, <3>2 DEF PreWrite
  <2>6. CASE PreReceive \/ PreInit \/ PreInitFail \/ PreStart \/ PreSend \/ PreResume
    BY <2>1, <2>6 DEF NoSeek, PreCalm, PreReceive, PreInit, PreInitFail, PreStart, PreSend, PreResume
  <2> QED
    BY <2>2, <2>3, <2>4, <2>5, <2>6 DEF Preprocess
<1>4. ASSUME NEW i \in Nat, Feed(p, i) PROVE Feed(p, i)'
  <2>1. CASE Flowing(p, i)
    BY <1>3, <2>1 DEF Feed
  <2>2. CASE "RESET" \in s.flags /\ s.data = <<>> /\ SeekTo(i)
    <3>1. SeekTo(i)'
      BY <1>2, <2>2
    <3>2. CASE PreResume
      <4>1. /\ s'.data = <<>> /\ "RESET" \notin s'.flags
        BY <1>0, <2>2, <3>2, ResetIs DEF PreResume
      <4>2. pre.pc \in {"resume", "seek_resume"} /\ pre'.pc \in {"poll", "read"} /\ pre'.next = pre.next
        BY <3>2 DEF PreResume, PreShape, PreGoto
      <4>3. pre.next = i /\ UNCHANGED preprocess_queue /\ preprocess_queue = <<>>
        BY <2>2, <3>2, <4>2 DEF SeekTo, PreCalm, PreResume, queues
      <4>4. NoSeek'
        BY <4>2, <4>3 DEF NoSeek, PreCalm
      <4>5. Follows(p, i)'
        BY <4>1, <4>2, <4>3, EmptyInOrder DEF Follows
      <4> QED
        BY <4>1, <4>4, <4>5 DEF Feed, Flowing
    <3>3. CASE UNCHANGED s \/ s' \in {Stopped(s), Finished(s)}
      <4>1. "RESET" \in s'.flags /\ s'.data = <<>>
        BY <1>0, <2>2, <3>3, EndedIs
      <4> QED
        BY <3>1, <4>1 DEF Feed
    <3>4. ~PreStart /\ s.flags # {"RUN"}
      BY <2>2 DEF SeekTo, PreStart
    <3> QED
      BY <3>2, <3>3, <3>4 DEF Preprocess, PreReceive, PreInit, PreInitFail, PreSend, PrePoll, PreRead,
         PreEnd, PreTimeout, PreWrite, WriteStores, streams
  <2> QED
    BY <1>4, <2>1, <2>2 DEF Feed
<1> QED
  BY <1>1, <1>2, <1>3, <1>4 DEF FeedsOn

--------------------------------------------------------------------------------
(* The steps that leave a part of the track as it is. *)

LEMMA PreparingKept ==
  ASSUME NEW p \in Nat, Preparing(p), FeedsOn(p), dec'.pc = dec.pc, dec'.start = dec.start,
         UNCHANGED start_time
  PROVE  Preparing(p)'
  BY DEF Preparing, FeedsOn, FirstHeard

LEMMA PlacesKept ==
  ASSUME Places, dec'.pc = dec.pc, pb'.pc = pb.pc, UNCHANGED <<playback_start, heard>>,
         play_queue' = <<"play">> => play_queue = <<"play">>,
         decode_stream'.flags \in {decode_stream.flags, decode_stream.flags \cup {"STOPPED"}},
         app'.pc # "info_resume"
  PROVE  Places'
  BY DEF Places, Waiting, Decodes, Ends, Done

LEMMA PlayingMoves ==
  ASSUME NEW p \in Nat, Playing(p), FeedsOn(p), UNCHANGED <<heard, start_time>>,
         decode_stream'.data = decode_stream.data, dec'.buf = dec.buf,
         pb'.pc \in {"paused", "unpaused", "device"} => InOrder(p, pb'.buf, FirstHeard + Len(heard)),
         Live' => /\ Live /\ InFrame' = InFrame
                  /\ pb'.pc = "frame" => pb.pc = "frame" /\ pb'.buf = pb.buf
                  /\ Held' = 1 => Held = 1
                  /\ Decodes' => Decodes /\ Held' = Held
  PROVE  Playing(p)'
<1>1. FirstHeard' = FirstHeard
  BY DEF FirstHeard
<1>2. Live' => Arrived' = Arrived /\ Decoded' = Decoded
  BY <1>1 DEF Arrived, Decoded
<1>3. InOrder(p, heard, FirstHeard)'
  BY <1>1 DEF Playing, InOrder
<1>4. (pb.pc \in {"paused", "unpaused", "device"} => InOrder(p, pb.buf, FirstHeard + Len(heard)))'
  BY <1>1 DEF InOrder
<1>5. ASSUME Live'
      PROVE  /\ (pb.pc = "frame" => InOrder(p, pb.buf, FirstHeard + Len(heard)))'
             /\ InOrder(p, decode_stream.data, Arrived)'
  BY <1>1, <1>2, <1>5 DEF Playing, InOrder
<1>6. ASSUME Live', Held' = 1 PROVE dec'.buf = Unit(p, Decoded')
  BY <1>2, <1>6 DEF Playing
<1>7. ASSUME Live', Decodes', NEW i \in Nat, i = Decoded' + Held' PROVE Feed(p, i)'
  <2>1. Live /\ Decodes /\ i = Decoded + Held
    BY <1>2, <1>7
  <2> QED
    BY <2>1 DEF Playing, FeedsOn
<1> QED
  BY <1>3, <1>4, <1>5, <1>6, <1>7 DEF Playing

\* what the device holds and what is on the way to it stay, and no thread goes on
LEMMA PlayingKept ==
  ASSUME NEW p \in Nat, Playing(p), FeedsOn(p), dec'.pc = dec.pc, dec'.buf = dec.buf,
         pb'.pc = pb.pc, pb'.buf = pb.buf,
         UNCHANGED <<playback_start, heard, start_time>>,
         decode_stream'.data = decode_stream.data, CanHear' => CanHear
  PROVE  Playing(p)'
<1>1. Decodes' = Decodes /\ Ends' = Ends /\ Done' = Done /\ Held' = Held /\ InFrame' = InFrame
  BY DEF Decodes, Ends, Done, Held, InFrame
<1>2. Live' => Live
  BY <1>1 DEF Live
<1>3. pb'.pc \in {"paused", "unpaused", "device"} => InOrder(p, pb'.buf, FirstHeard + Len(heard))
  BY DEF Playing
<1> QED
  BY <1>1, <1>2, <1>3, PlayingMoves

LEMMA CanHearKept ==
  ASSUME dec'.pc = dec.pc, pb'.pc = pb.pc, UNCHANGED playback_start,
         play_queue' = <<"play">> => play_queue = <<"play">>,
         state' \in {"RUNNING", "PAUSED"} => state \in {"RUNNING", "PAUSED"}
  PROVE  CanHear' => CanHear
  BY DEF CanHear, Waiting

--------------------------------------------------------------------------------
(* The track, thread by thread. *)

LEMMA ApplicationTrack ==
  ASSUME NEW p \in Nat, Shape, Shape', Tracked(p), Track(p), Application, plays' = p
  PROVE  Track(p)'
<1> USE DEF Shape, Tracked, Plain, Track
<1>1. ~PlaySet /\ ~InfoResume
  BY DEF PlaySet, FieldShape, InfoResume, Places
<1>2. UNCHANGED <<decode_queue, pre, dec, pb, heard>>
  BY <1>1, ApplicationLeaves DEF workers
<1>3. UNCHANGED <<playback_start, start_time>>
  BY <1>1 DEF Application, PlayCall, PlaySend, PlayWait, PlayCheck, StopCall, StopPreprocess,
     StopIdlePlayer, StopDecode, StopWait, StopReturn, DeviceStopCall, DeviceStopSend,
     DeviceStopWait, Pause, Resume, fields
<1>4. app'.pc # "info_resume" /\ (app'.pc = "play_send" => app.pc = "play_send")
  <2> USE DEF AppGoto, AppShape
  <2>1. CASE PlayCall \/ PlaySend \/ PlayWait \/ StopCall
    BY <2>1 DEF PlayCall, PlaySend, PlayWait, StopCall
  <2>2. CASE PlayCheck
    BY <2>2 DEF PlayCheck
  <2>3. CASE StopPreprocess \/ StopIdlePlayer \/ StopDecode \/ StopWait \/ StopReturn
    BY <2>3 DEF StopPreprocess, StopIdlePlayer, StopDecode, StopWait, StopReturn, AfterStop
  <2>4. CASE DeviceStopCall(TRUE) \/ DeviceStopCall(FALSE) \/ DeviceStopSend \/ DeviceStopWait
    BY <2>4 DEF DeviceStopCall, DeviceStopSend, DeviceStopWait
  <2>5. CASE Pause \/ Resume
    BY <2>5 DEF Pause, Resume, caller, Places
  <2> QED
    BY <1>1, <2>1, <2>2, <2>3, <2>4, <2>5 DEF Application
<1>5. /\ preprocess_stream' \in {preprocess_stream, Stopped(preprocess_stream)}
      /\ decode_stream' \in {decode_stream, Stopped(decode_stream)}
  BY <1>1 DEF Application, PlayCall, PlaySend, PlayWait, PlayCheck, StopCall, StopPreprocess,
     StopIdlePlayer, StopDecode, StopWait, StopReturn, DeviceStopCall, DeviceStopSend,
     DeviceStopWait, Pause, Resume, streams
<1>6. play_queue' = <<"play">> => play_queue = <<"play">>
  <2>1. CASE DeviceStopSend
    BY <2>1 DEF DeviceStopSend
  <2> QED
    BY <1>1, <2>1 DEF Application, PlayCall, PlaySend, PlayWait, PlayCheck, StopCall,
       StopPreprocess, StopIdlePlayer, StopDecode, StopWait, StopReturn, DeviceStopCall,
       DeviceStopWait, Pause, Resume, queues
<1>7. state' \in {"RUNNING", "PAUSED"} => state \in {"RUNNING", "PAUSED"}
  BY <1>1 DEF Application, PlayCall, PlaySend, PlayWait, PlayCheck, StopCall, StopPreprocess,
     StopIdlePlayer, StopDecode, StopWait, StopReturn, DeviceStopCall, DeviceStopSend,
     DeviceStopWait, Pause, Resume, fields
<1>8. /\ decode_stream'.data = decode_stream.data
      /\ decode_stream'.flags \in {decode_stream.flags, decode_stream.flags \cup {"STOPPED"}}
  BY <1>5, EndedIs DEF StreamShape
<1>9. Places' /\ (CanHear' => CanHear)
  BY <1>2, <1>3, <1>4, <1>6, <1>7, <1>8, PlacesKept, CanHearKept
<1>10. CASE PlaySend
  <2>1. /\ app.pc = "play_send" /\ app'.pc = "play_wait" /\ preprocess_queue' = <<PlayMsg>>
    BY <1>10 DEF PlaySend, AppGoto, AppShape
  <2>2. pre.pc = "wait" /\ decode_queue = <<>> /\ Fresh
    BY <2>1 DEF OnTheWay
  <2>3. OnTheWay(p)'
    BY <1>2, <1>3, <2>1, <2>2 DEF OnTheWay, Fresh, PlayQueued, PreHolds
  <2>4. Preparing(p)'
    BY <1>2, <2>2 DEF Preparing, Fresh
  <2>5. Playing(p)'
    <3>1. ~(Decodes \/ Ends \/ Done)'
      BY <1>2, <1>3, <2>2 DEF Decodes, Ends, Done, Fresh
    <3> QED
      BY <1>2, <1>3, <3>1 DEF Playing, Live, InOrder, FirstHeard
  <2> QED
    BY <1>9, <2>3, <2>4, <2>5
<1>11. CASE ~PlaySend
  <2>1. UNCHANGED preprocess_queue
    BY <1>1, <1>11 DEF Application, PlayCall, PlayWait, PlayCheck, StopCall, StopPreprocess,
       StopIdlePlayer, StopDecode, StopWait, StopReturn, DeviceStopCall, DeviceStopSend,
       DeviceStopWait, Pause, Resume, queues
  <2>2. FeedsOn(p)
    BY <1>2, <1>5, <2>1, EndingFeedsOn
  <2>3. OnTheWay(p)'
    BY <1>2, <1>3, <1>4, <2>1 DEF OnTheWay, Fresh, PlayQueued, PreHolds, NoSeek, PreCalm
  <2> QED
    BY <1>2, <1>3, <1>8, <1>9, <2>2, <2>3, PreparingKept, PlayingKept
<1> QED
  BY <1>10, <1>11

LEMMA PreprocessTrack ==
  ASSUME NEW p \in Nat, Shape, Tracked(p), Track(p), Preprocess
  PROVE  Track(p)'
<1> USE DEF Shape, Tracked, Plain, Track
<1>1. UNCHANGED <<play_queue, decode_stream, playback_start, start_time, app, pb, heard>>
  BY PreprocessLeaves DEF caller
<1>2. dec'.pc = dec.pc /\ dec'.buf = dec.buf /\ dec'.start = dec.start
  <2>1. CASE PreStart
    BY <2>1 DEF PreStart, DecShape
  <2> QED
    BY <2>1 DEF Preprocess, PreReceive, PreInit, PreInitFail, PreSend, PreResume, PrePoll, PreRead,
       PreEnd, PreTimeout, PreWrite
<1>3. FeedsOn(p)
  BY PreprocessFeedsOn DEF OnTheWay
<1>4. state' \in {"RUNNING", "PAUSED"} => state \in {"RUNNING", "PAUSED"}
  BY DEF Preprocess, PreReceive, PreInit, PreInitFail, PreStart, PreSend, PreResume, PrePoll,
     PreRead, PreEnd, PreTimeout, PreWrite, fields
<1>5. Preparing(p)' /\ Places' /\ Playing(p)'
  <2>1. app.pc # "info_resume"
    BY DEF Places
  <2>2. CanHear' => CanHear
    BY <1>1, <1>2, <1>4, CanHearKept
  <2> QED
    BY <1>1, <1>2, <1>3, <2>1, <2>2, PreparingKept, PlacesKept, PlayingKept
<1>6. OnTheWay(p)'
  <2> USE <1>1, <1>2 DEF OnTheWay, Fresh, PlayQueued, PreHolds, PreGoto, PreShape
  <2>1. CASE PreReceive
    <3>1. /\ preprocess_queue # <<>> /\ preprocess_queue' = <<>> /\ UNCHANGED decode_queue
          /\ pre'.pc = "init" /\ pre'.cmd = Head(preprocess_queue)
      BY <2>1 DEF PreReceive
    <3>2. app.pc # "play_send" /\ decode_queue = <<>>
      BY <3>1 DEF NoSeek
    <3>3. CASE Head(preprocess_queue).type = "play"
      <4>1. Head(preprocess_queue) = PlayMsg
        BY <3>1, <3>3
      <4> QED
        BY <3>1, <3>2, <3>3, <4>1
    <3>4. CASE Head(preprocess_queue).type # "play"
      BY <3>1, <3>2, <3>4
    <3> QED
      BY <3>3, <3>4
  <2>2. CASE PreInit
    <3>1. /\ pre.pc = "init" /\ pre'.cmd = pre.cmd /\ pre'.src = plays
          /\ pre'.pc = IF pre.cmd.type = "play" THEN "start" ELSE "resume"
          /\ UNCHANGED <<preprocess_queue, decode_queue>>
      BY <2>2 DEF PreInit, queues
    <3> QED
      BY <3>1 DEF NoSeek, PreCalm
  <2>3. CASE PreInitFail
    BY <2>3 DEF PreInitFail, queues, NoSeek, PreCalm
  <2>4. CASE PreStart
    BY <2>4 DEF PreStart, queues, NoSeek, PreCalm
  <2>5. CASE PreSend
    BY <2>5 DEF PreSend, NoSeek, PreCalm
  <2>6. CASE PreResume \/ PreRead \/ PreEnd \/ PreTimeout \/ PreWrite
    <3>1. UNCHANGED <<preprocess_queue, decode_queue>>
      BY <2>6 DEF PreResume, PreRead, PreEnd, PreTimeout, PreWrite, queues
    <3>2. /\ pre.pc \in {"resume", "seek_resume", "read", "write"}
          /\ pre'.pc \in {"wait", "poll", "read", "write"} /\ pre'.src = pre.src
      BY <2>6 DEF PreResume, PreRead, PreEnd, PreTimeout, PreWrite
    <3> QED
      BY <1>3, <3>1, <3>2 DEF FeedsOn
  <2>7. CASE PrePoll
    <3>1. /\ pre.pc = "poll" /\ pre'.pc \in {"seek_resume", "read"} /\ pre'.src = pre.src
          /\ preprocess_queue' = <<>> /\ UNCHANGED decode_queue
      BY <2>7 DEF PrePoll
    <3> QED
      BY <1>3, <3>1 DEF FeedsOn
  <2> QED
    BY <2>1, <2>2, <2>3, <2>4, <2>5, <2>6, <2>7 DEF Preprocess
<1> QED
  BY <1>5, <1>6

\* before the decoder decodes and after it failed there is nothing to hear
LEMMA QuietKept ==
  ASSUME NEW p \in Nat, Places, Playing(p), playback_start = 0, dec.pc # "output_mark",
         UNCHANGED <<app, pb, heard, playback_start, start_time, play_queue, decode_stream>>,
         ~(Decodes \/ Ends)'
  PROVE  Places' /\ Playing(p)'
<1>1. Waiting /\ ~Live' /\ ~Done'
  BY DEF Waiting, Live, Done
<1>2. Places'
  BY <1>1 DEF Places, Waiting, Decodes, Ends
<1>3. Playing(p)'
  BY <1>1 DEF Playing, InOrder, FirstHeard
<1> QED
  BY <1>2, <1>3

\* The decoder takes the unit i.
LEMMA TakingFeeds ==
  ASSUME NEW p \in Nat, Shape, NEW i \in Nat, NEW j \in Nat, j = i + 1, Feed(p, i),
         UNCHANGED <<pre, preprocess_queue>>,
         Len(preprocess_stream.data) >= 1,
         IsStream(preprocess_stream'), preprocess_stream'.flags = preprocess_stream.flags,
         Len(preprocess_stream'.data) = Len(preprocess_stream.data) - 1,
         \A k \in 1 .. Len(preprocess_stream'.data) :
           preprocess_stream'.data[k] = preprocess_stream.data[k + 1]
  PROVE  preprocess_stream.data[1] = Unit(p, i) /\ Flowing(p, j)'
<1> DEFINE s == preprocess_stream
<1>1. Len(s.data) \in Nat
  BY LenProperties DEF Shape, StreamShape, IsStream
<1>2. Flowing(p, i)
  <2>1. s.data # <<>>
    OBVIOUS
  <2> QED
    BY <2>1 DEF Feed
<1>3. InOrder(p, s.data, i)
  BY <1>2 DEF Flowing, Follows
<1>4. s.data[1] = Unit(p, i)
  <2>1. s.data[1] = Unit(p, i + 1 - 1)
    BY <1>1, <1>3 DEF InOrder
  <2> QED
    BY <2>1
<1>5. InOrder(p, s'.data, j)
  <2>1. ASSUME NEW k \in 1 .. Len(s'.data) PROVE s'.data[k] = Unit(p, j + k - 1)
    <3>1. k + 1 \in 1 .. Len(s.data) /\ i + (k + 1) - 1 = j + k - 1
      BY <1>1
    <3>2. s.data[k + 1] = Unit(p, i + (k + 1) - 1)
      BY <1>3, <3>1 DEF InOrder
    <3> QED
      BY <3>1, <3>2
  <2> QED
    BY <2>1 DEF InOrder
<1>6. j + Len(s'.data) = i + Len(s.data)
  <2> DEFINE before == Len(s.data)
             after  == Len(s'.data)
  <2>1. before \in Nat /\ after = before - 1
    BY <1>1
  <2> HIDE DEF before, after
  <2>2. j + after = i + before
    BY <2>1
  <2> QED
    BY <2>2 DEF before, after
<1>7. Follows(p, j)'
  BY <1>2, <1>5, <1>6 DEF Follows, Flowing
<1>8. NoSeek' /\ "RESET" \notin s'.flags
  BY <1>2 DEF Flowing, NoSeek, PreCalm
<1> QED
  BY <1>4, <1>7, <1>8 DEF Flowing

\* A decoder at work means that nothing else of the start of a track is under way.
LEMMA DecodeOnTheWay ==
  ASSUME NEW p \in Nat, Shape, Decode, OnTheWay(p)
  PROVE  OnTheWay(p)' /\ (dec.pc = "wait" => NoSeek /\ playback_start = 0)
<1> USE DEF Shape
<1>1. UNCHANGED <<app, pre>>
  BY DecodeLeaves DEF caller
<1>2. CASE DecReceive
  BY <1>1, <1>2 DEF DecReceive, OnTheWay, Fresh, PlayQueued, PreHolds, NoSeek, PreCalm
<1>3. CASE DecSeekSend
  <2>1. /\ dec.pc # "wait" /\ UNCHANGED decode_queue /\ preprocess_queue' # <<>>
        /\ Head(preprocess_queue').type = "seek"
    BY <1>3 DEF DecSeekSend, Seek
  <2> QED
    BY <1>1, <2>1 DEF OnTheWay, Fresh, PlayQueued, PreHolds
<1>4. CASE ~DecReceive /\ ~DecSeekSend
  <2>1. dec.pc # "wait" /\ UNCHANGED <<preprocess_queue, decode_queue>>
    BY <1>4 DEF Decode, DecHeader, DecFind, DecSeekReset, DecInit, DecInitSeek, DecFailStop, DecFail,
       DecStart, DecInput, DecOutput, DecOutputSend, DecOutputMark, DecWrite, DecErrorStop,
       DecEndStop, DecEndFinish, DecEnd, queues
  <2> QED
    BY <1>1, <2>1 DEF OnTheWay, Fresh, PlayQueued, PreHolds
<1> QED
  BY <1>2, <1>3, <1>4

\* until the decoder decodes
Prepares == dec.pc \in {"wait", "header", "find", "seek_header_send", "seek_header_reset", "init",
                        "init_seek", "seek_start_send", "seek_start_reset", "fail_stop", "fail"}

LEMMA PreparingTrack ==
  ASSUME NEW p \in Nat, Shape, Tracked(p), Track(p), Decode, Prepares
  PROVE  Preparing(p)' /\ Places' /\ Playing(p)'
<1> USE DEF Shape, Tracked, Plain, Track
<1>1. UNCHANGED <<start_time, app, pre, pb, heard>>
  BY DecodeLeaves DEF caller, history
<1>2. playback_start = 0
  <2>1. CASE dec.pc = "wait"
    BY <2>1, DecodeOnTheWay
  <2>2. CASE dec.pc # "wait"
    BY <2>2 DEF Prepares, Places, Decodes, Ends, Done, FieldShape
  <2> QED
    BY <2>1, <2>2
<1>3. UNCHANGED <<playback_start, play_queue, decode_stream>>
  BY DEF Prepares, Decode, DecReceive, DecHeader, DecFind, DecSeekSend, DecSeekReset, DecInit,
     DecInitSeek, DecFailStop, DecFail, DecStart, DecInput, DecOutput, DecOutputSend, DecOutputMark,
     DecWrite, DecErrorStop, DecEndStop, DecEndFinish, DecEnd, queues, streams, fields
<1> USE DEF DecGoto, DecShape
<1>4. CASE DecReceive
  <2>1. NoSeek' /\ dec'.pc \in {"wait", "header"}
    BY <1>1, <1>4, DecodeOnTheWay DEF DecReceive, NoSeek, PreCalm
  <2>2. Preparing(p)'
    BY <2>1 DEF Preparing
  <2>3. ~(Decodes \/ Ends)'
    BY <2>1 DEF Decodes, Ends
  <2> QED
    BY <1>1, <1>2, <1>3, <2>2, <2>3, QuietKept DEF Prepares
<1>5. CASE DecHeader \/ DecFind
  <2>1. NoSeek /\ UNCHANGED preprocess_queue
    BY <1>5 DEF DecHeader, DecFind, Preparing, queues
  <2>2. dec'.pc \in {"find", "seek_header_send", "fail_stop"}
    BY <1>5, InputIs DEF DecHeader, DecFind
  <2>3. Preparing(p)'
    BY <1>1, <2>1, <2>2 DEF Preparing, NoSeek, PreCalm
  <2>4. ~(Decodes \/ Ends)'
    BY <2>2 DEF Decodes, Ends
  <2> QED
    BY <1>1, <1>2, <1>3, <2>3, <2>4, QuietKept DEF Prepares
<1>6. CASE DecSeekSend
  <2>1. NoSeek
    BY <1>6 DEF DecSeekSend, Preparing
  <2>2. \/ /\ dec'.pc = "seek_header_reset" /\ preprocess_queue' = <<Seek(0)>>
        \/ /\ dec'.pc = "seek_start_reset" /\ preprocess_queue' = <<Seek(start_time)>>
           /\ start_time # 0
    BY <1>6 DEF DecSeekSend, Preparing
  <2>3. Preparing(p)'
    BY <1>1, <2>1, <2>2 DEF Preparing, NoSeek, SeekTo, PreCalm
  <2>4. ~(Decodes \/ Ends)'
    BY <2>2 DEF Decodes, Ends
  <2> QED
    BY <1>1, <1>2, <1>3, <2>3, <2>4, QuietKept DEF Prepares
<1>7. CASE DecSeekReset
  <2>1. /\ "RESET" \in preprocess_stream'.flags /\ preprocess_stream'.data = <<>>
        /\ UNCHANGED preprocess_queue
    BY <1>7, ResetIs DEF DecSeekReset, StreamShape, queues
  <2>2. \A i \in Nat : SeekTo(i) => Feed(p, i)'
    BY <1>1, <2>1 DEF SeekTo, PreCalm, Seek, Feed
  <2>3. \/ dec.pc = "seek_header_reset" /\ dec'.pc = "init"
        \/ dec.pc = "seek_start_reset" /\ dec'.pc = "start"
    BY <1>7 DEF DecSeekReset, CopyStart
  <2>4. dec'.pc = "start" => start_time # 0 /\ FirstHeard' = start_time
    BY <1>1, <2>3 DEF Preparing, FirstHeard, FieldShape
  <2>5. Preparing(p)'
    <3>1. CASE dec'.pc = "init"
      <4>1. dec'.start = start_time'
        BY <1>1, <1>7, <3>1 DEF DecSeekReset, CopyStart
      <4> QED
        BY <2>2, <2>3, <3>1, <4>1 DEF Preparing
    <3>2. CASE dec'.pc = "start"
      <4>1. \A i \in Nat : i = FirstHeard' => Feed(p, i)'
        BY <2>2, <2>3, <2>4, <3>2 DEF Preparing
      <4> QED
        BY <3>2, <4>1 DEF Preparing
    <3> QED
      BY <2>3, <3>1, <3>2
  <2>6. ~(Decodes \/ Ends)'
    BY <2>3 DEF Decodes, Ends
  <2> QED
    BY <1>1, <1>2, <1>3, <2>5, <2>6, QuietKept DEF Prepares
<1>8. CASE DecInit
  <2>1. Feed(p, 0) /\ UNCHANGED preprocess_queue
    BY <1>8 DEF DecInit, Preparing, queues
  <2>2. CASE Decoder = "wav"
    <3>1. Input("init_seek", "fail_stop")
      BY <1>8, <2>2 DEF DecInit
    <3>2. CASE dec' = [dec EXCEPT !.pc = "fail_stop"]
      <4>1. dec'.pc = "fail_stop"
        BY <3>2
      <4> QED
        BY <1>1, <1>2, <1>3, <4>1, QuietKept DEF Prepares, Preparing, Decodes, Ends
    <3>3. CASE dec' # [dec EXCEPT !.pc = "fail_stop"]
      <4>0. /\ dec' = [dec EXCEPT !.pc = "init_seek", !.buf = preprocess_stream.data[1]]
            /\ Len(preprocess_stream.data) >= 1
            /\ IsStream(preprocess_stream') /\ preprocess_stream'.flags = preprocess_stream.flags
            /\ Len(preprocess_stream'.data) = Len(preprocess_stream.data) - 1
            /\ \A k \in 1 .. Len(preprocess_stream'.data) :
                 preprocess_stream'.data[k] = preprocess_stream.data[k + 1]
        BY <3>1, <3>3, InputIs
      <4>1. Flowing(p, 1)' /\ dec'.pc = "init_seek"
        <5>1. 1 = 0 + 1
          OBVIOUS
        <5>2. Flowing(p, 1)'
          BY <1>1, <2>1, <4>0, <5>1, TakingFeeds
        <5> QED
          BY <4>0, <5>2
      <4>2. Preparing(p)'
        <5>1. dec'.start = start_time'
          BY <1>1, <1>8, <4>0 DEF DecInit, Preparing
        <5> QED
          BY <2>2, <4>1, <5>1 DEF Preparing
      <4> QED
        BY <1>1, <1>2, <1>3, <4>1, <4>2, QuietKept DEF Prepares, Decodes, Ends
    <3> QED
      BY <3>2, <3>3
  <2>3. CASE Decoder # "wav"
    <3>1. dec'.pc = "init_seek" /\ UNCHANGED preprocess_stream
      BY <1>8, <2>3 DEF DecInit
    <3>2. Feed(p, 0)'
      BY <1>1, <2>1, <3>1, EndingFeedsOn DEF FeedsOn
    <3>3. Preparing(p)'
      <4>1. dec'.start = start_time'
        BY <1>1, <1>8, <2>3 DEF DecInit, Preparing
      <4> QED
        BY <2>3, <3>1, <3>2, <4>1 DEF Preparing
    <3> QED
      BY <1>1, <1>2, <1>3, <3>1, <3>3, QuietKept DEF Prepares, Decodes, Ends
  <2> QED
    BY <2>2, <2>3
<1>9. CASE DecInitSeek
  <2>1. dec.pc = "init_seek" /\ UNCHANGED <<preprocess_queue, preprocess_stream>>
    BY <1>9 DEF DecInitSeek, queues, streams
  <2>2. FeedsOn(p)
    BY <1>1, <2>1, EndingFeedsOn
  <2>3. \/ dec'.pc = "fail_stop"
        \/ start_time = 0 /\ dec'.pc = "start"
        \/ start_time # 0 /\ dec'.pc = "seek_start_send"
    <3>1. Decoder \in {"wav", "pcm"} /\ dec.start = start_time
      BY <2>1, PlayerAssumption DEF Preparing
    <3>2. CASE Decoder = "wav" /\ dec.buf.pos # 0
      BY <1>9, <3>2 DEF DecInitSeek
    <3>3. CASE ~(Decoder = "wav" /\ dec.buf.pos # 0)
      BY <1>9, <3>1, <3>3 DEF DecInitSeek
    <3> QED
      BY <3>2, <3>3
  <2>4. CASE dec'.pc = "fail_stop"
    BY <1>1, <1>2, <1>3, <2>4, QuietKept DEF Prepares, Preparing, Decodes, Ends
  <2>5. CASE start_time = 0 /\ dec'.pc = "start"
    <3>1. \A i \in Nat : i = FirstHeard' => Feed(p, i)'
      <4>1. CASE Decoder = "wav"
        <5>1. FirstHeard' = 1
          BY <1>1, <2>5, <4>1 DEF FirstHeard
        <5>2. Feed(p, 1)
          BY <2>1, <4>1 DEF Preparing, Feed
        <5> QED
          BY <2>2, <5>1, <5>2 DEF FeedsOn
      <4>2. CASE Decoder # "wav"
        <5>1. FirstHeard' = 0
          BY <1>1, <2>5, <4>2 DEF FirstHeard
        <5>2. Feed(p, 0)
          BY <2>1, <4>2 DEF Preparing
        <5> QED
          BY <2>2, <5>1, <5>2 DEF FeedsOn
      <4> QED
        BY <4>1, <4>2
    <3>2. Preparing(p)'
      BY <2>5, <3>1 DEF Preparing
    <3> QED
      BY <1>1, <1>2, <1>3, <2>5, <3>2, QuietKept DEF Prepares, Decodes, Ends
  <2>6. CASE start_time # 0 /\ dec'.pc = "seek_start_send"
    <3>1. Flowing(p, 1)
      BY <2>1, <2>6 DEF Preparing
    <3>2. Preparing(p)'
      <4>1. dec'.start = start_time'
        <5>1. PICK where : DecGoto(where)
          BY <1>9 DEF DecInitSeek
        <5> QED
          BY <1>1, <2>1, <5>1 DEF Preparing
      <4> QED
        BY <1>1, <2>2, <2>6, <3>1, <4>1 DEF Preparing, FeedsOn, Flowing
    <3> QED
      BY <1>1, <1>2, <1>3, <2>6, <3>2, QuietKept DEF Prepares, Decodes, Ends
  <2> QED
    BY <2>3, <2>4, <2>5, <2>6
<1>10. CASE DecFailStop \/ DecFail
  <2>1. dec'.pc \in {"fail", "wait"}
    BY <1>10 DEF DecFailStop, DecFail
  <2> QED
    BY <1>1, <1>2, <1>3, <2>1, QuietKept DEF Prepares, Preparing, Decodes, Ends
<1> QED
  BY <1>4, <1>5, <1>6, <1>7, <1>8, <1>9, <1>10 DEF Prepares, Decode, DecStart, DecInput, DecOutput,
     DecOutputSend, DecOutputMark, DecWrite, DecErrorStop, DecEndStop, DecEndFinish, DecEnd

LEMMA Numbers ==
  ASSUME Shape
  PROVE  /\ Len(heard) \in Nat /\ Len(decode_stream.data) \in Nat /\ Len(pb.buf) \in Nat
         /\ FirstHeard \in Nat /\ Arrived \in Nat /\ Decoded \in Nat /\ Held \in {0, 1}
         /\ heard \in Seq(Units) /\ decode_stream.data \in Seq(Units) /\ pb.buf \in Seq(Units)
<1>1. /\ heard \in Seq(Units) /\ decode_stream.data \in Seq(Units) /\ pb.buf \in Seq(Units)
  BY DEF Shape, StreamShape, IsStream, PbShape
<1>2. /\ Len(heard) \in Nat /\ Len(decode_stream.data) \in Nat /\ Len(pb.buf) \in Nat
  BY <1>1, LenProperties
<1>3. FirstHeard \in Nat
  BY DEF Shape, FieldShape, FirstHeard
<1>4. InFrame \in Nat /\ Held \in {0, 1}
  BY <1>2 DEF InFrame, Held
<1>5. Arrived \in Nat
  BY <1>2, <1>3, <1>4 DEF Arrived
<1>6. Decoded \in Nat
  BY <1>2, <1>5 DEF Decoded
<1> QED
  BY <1>1, <1>2, <1>3, <1>4, <1>5, <1>6

\* A decoder past its preparations: the positions of the units go with them.
LEMMA DecodingTrack ==
  ASSUME NEW p \in Nat, Shape, Shape', Tracked(p), Track(p), Decode, ~Prepares
  PROVE  Preparing(p)' /\ Places' /\ Playing(p)'
<1> USE DEF Shape, Tracked, Plain, Track
<1>1. UNCHANGED <<start_time, app, pre, pb, heard>>
  BY DecodeLeaves DEF caller, history
<1>2. UNCHANGED <<preprocess_queue>>
  BY DEF Prepares, Decode, DecReceive, DecHeader, DecFind, DecSeekSend, DecSeekReset, DecInit,
     DecInitSeek, DecFailStop, DecFail, DecStart, DecInput, DecOutput, DecOutputSend, DecOutputMark,
     DecWrite, DecErrorStop, DecEndStop, DecEndFinish, DecEnd, queues
<1>3. pb'.pc \in {"paused", "unpaused", "device"} => InOrder(p, pb'.buf, FirstHeard + Len(heard))
  BY <1>1 DEF Playing
<1>4. InFrame' = InFrame
  BY <1>1 DEF InFrame
<1> USE DEF DecGoto, DecShape
<1>5. CASE DecStart
  <2>1. /\ dec.pc = "start" /\ dec'.pc = "input" /\ decode_stream' = Started
        /\ UNCHANGED <<preprocess_stream, playback_start, play_queue>>
    BY <1>5 DEF DecStart, queues, fields
  <2>2. Waiting /\ playback_start = 0 /\ pb.pc \in {"wait", "mute"} /\ heard = <<>>
    BY <2>1 DEF Places, Waiting, Decodes, Ends, Done, FieldShape
  <2>3. FeedsOn(p)
    BY <1>1, <1>2, <2>1, EndingFeedsOn
  <2>4. FirstHeard' = FirstHeard /\ decode_stream'.data = <<>> /\ decode_stream'.flags = {"RUN"}
    BY <1>1, <2>1, StartedIs DEF FirstHeard
  <2>5. FirstHeard \in Nat /\ Len(<<>>) = 0
    BY Numbers
  <2>6. Held' = 0 /\ InFrame' = 0 /\ Arrived' = FirstHeard /\ Decoded' = FirstHeard
    BY <1>1, <2>1, <2>2, <2>4, <2>5 DEF Held, InFrame, Arrived, Decoded
  <2>7. \A i \in Nat : i = Decoded' + Held' => Feed(p, i)'
    BY <2>1, <2>3, <2>5, <2>6 DEF Preparing, FeedsOn
  <2>8. InOrder(p, heard, FirstHeard)' /\ InOrder(p, decode_stream.data, Arrived)'
    BY <1>1, <2>2, <2>4, EmptyInOrder
  <2>9. Playing(p)'
    BY <1>1, <2>2, <2>6, <2>7, <2>8 DEF Playing
  <2>10. Preparing(p)' /\ Places'
    BY <1>1, <2>1, <2>2, <2>4 DEF Preparing, Places, Waiting, Decodes, Ends, Done
  <2> QED
    BY <2>9, <2>10
<1>6. CASE DecInput
  <2>1. /\ dec.pc = "input" /\ Input("output", "end_stop")
        /\ UNCHANGED <<decode_stream, playback_start, play_queue, state>>
    BY <1>6 DEF DecInput, queues, fields
  <2>2. dec'.pc \in {"output", "end_stop"}
    <3>1. \/ dec' = [dec EXCEPT !.pc = "end_stop"]
          \/ dec' = [dec EXCEPT !.pc = "output", !.buf = preprocess_stream.data[1]]
      BY <2>1, InputIs
    <3> QED
      BY <3>1
  <2>3. Preparing(p)' /\ Places'
    BY <1>1, <2>1, <2>2 DEF Preparing, Places, Waiting, Decodes, Ends, Done
  <2>4. Live' => Live
    BY <1>1, <2>1 DEF Live, CanHear, Waiting, Decodes
  <2>5. Arrived' = Arrived /\ Decoded' = Decoded /\ FirstHeard' = FirstHeard
    BY <1>1, <1>4, <2>1 DEF Arrived, Decoded, FirstHeard
  <2>6. /\ InOrder(p, heard, FirstHeard)'
        /\ Live' => /\ (pb.pc = "frame" => InOrder(p, pb.buf, FirstHeard + Len(heard)))'
                    /\ InOrder(p, decode_stream.data, Arrived)'
    BY <1>1, <2>1, <2>4, <2>5 DEF Playing
  <2>7. CASE dec'.pc = "end_stop"
    <3>1. Held' = 0 /\ ~Decodes'
      BY <2>7 DEF Held, Decodes
    <3> QED
      BY <1>1, <1>3, <2>3, <2>5, <2>6, <3>1 DEF Playing
  <2>8. CASE dec'.pc # "end_stop"
    <3>1. /\ dec' = [dec EXCEPT !.pc = "output", !.buf = preprocess_stream.data[1]]
          /\ Len(preprocess_stream.data) >= 1
          /\ IsStream(preprocess_stream') /\ preprocess_stream'.flags = preprocess_stream.flags
          /\ Len(preprocess_stream'.data) = Len(preprocess_stream.data) - 1
          /\ \A k \in 1 .. Len(preprocess_stream'.data) :
               preprocess_stream'.data[k] = preprocess_stream.data[k + 1]
      BY <2>1, <2>8, InputIs
    <3>2. Held = 0 /\ Decodes /\ Held' = 1
      BY <2>1, <3>1 DEF Held, Decodes
    <3>3. ASSUME Live
          PROVE  /\ preprocess_stream.data[1] = Unit(p, Decoded)
                 /\ \A j \in Nat : j = Decoded + 1 => Flowing(p, j)'
      <4>1. PICK i \in Nat : i = Decoded
        BY Numbers
      <4>2. i = Decoded + Held
        BY <3>2, <4>1
      <4>3. Feed(p, i)
        BY <3>2, <3>3, <4>2 DEF Playing
      <4> QED
        BY <1>1, <1>2, <3>1, <4>1, <4>3, TakingFeeds, Numbers
    <3>4. Live' => /\ dec'.buf = Unit(p, Decoded')
                   /\ \A j \in Nat : j = Decoded' + Held' => Feed(p, j)'
      BY <2>4, <2>5, <3>1, <3>2, <3>3 DEF Feed
    <3> QED
      BY <1>1, <1>3, <2>3, <2>5, <2>6, <3>4 DEF Playing
  <2> QED
    BY <2>7, <2>8
<1>7. CASE DecWrite /\ WriteStores(decode_stream, DecCap)
  <2>1. dec.pc = "write"
    BY <1>7 DEF DecWrite
  <2>2. CASE ~(decode_stream' = AfterWrite(decode_stream, dec.buf) /\ DecGoto("input"))
    BY <1>7, <2>2 DEF DecWrite, WriteStores, WriteIgnored, WriteStopped, Has
  <2>3. CASE decode_stream' = AfterWrite(decode_stream, dec.buf) /\ DecGoto("input")
    <3>1. /\ dec'.pc = "input" /\ decode_stream'.data = Append(decode_stream.data, dec.buf)
          /\ decode_stream'.flags = decode_stream.flags
          /\ UNCHANGED <<preprocess_stream, playback_start, play_queue, state>>
      BY <1>7, <2>3, WrittenIs DEF DecWrite, StreamShape, queues, fields
    <3>2. Preparing(p)' /\ Places'
      BY <1>1, <2>1, <3>1 DEF Preparing, Places, Waiting, Decodes, Ends, Done
    <3>3. (Live' => Live) /\ Held = 1 /\ Held' = 0 /\ Decodes
      BY <1>1, <2>1, <3>1 DEF Live, CanHear, Waiting, Decodes, Held
    <3>4. Arrived' = Arrived /\ FirstHeard' = FirstHeard
      BY <1>1, <1>4 DEF Arrived, FirstHeard
    <3>5. FeedsOn(p)
      BY <1>1, <1>2, <3>1, EndingFeedsOn
    <3>6. ASSUME Live
          PROVE  /\ InOrder(p, decode_stream'.data, Arrived)
                 /\ Len(decode_stream'.data) = Len(decode_stream.data) + 1
      <4>1. /\ InOrder(p, decode_stream.data, Arrived)
            /\ dec.buf = Unit(p, Arrived + Len(decode_stream.data))
        BY <3>3, <3>6 DEF Playing, Decoded
      <4>2. Arrived \in Nat /\ decode_stream.data \in Seq(Units) /\ dec.buf \in Units
        BY Numbers
      <4>3. /\ InOrder(p, Append(decode_stream.data, dec.buf), Arrived)
            /\ Len(Append(decode_stream.data, dec.buf)) = Len(decode_stream.data) + 1
        BY <4>1, <4>2, AppendInOrder
      <4> QED
        BY <3>1, <4>3
    <3>7. ASSUME Live PROVE Decoded' + Held' = Decoded + Held
      <4>1. Decoded = Arrived + Len(decode_stream.data) /\ Decoded' = Arrived + Len(decode_stream'.data)
        BY <3>4 DEF Decoded
      <4>2. Len(decode_stream'.data) = Len(decode_stream.data) + 1
        BY <3>6, <3>7
      <4> QED
        BY <3>3, <4>1, <4>2, Numbers
    <3>8. ASSUME Live', NEW i \in Nat, i = Decoded' + Held' PROVE Feed(p, i)'
      BY <3>3, <3>5, <3>7, <3>8 DEF Playing, FeedsOn
    <3>9. ASSUME Live'
          PROVE  /\ (pb.pc = "frame" => InOrder(p, pb.buf, FirstHeard + Len(heard)))'
                 /\ InOrder(p, decode_stream.data, Arrived)'
      BY <1>1, <3>3, <3>4, <3>6, <3>9 DEF Playing
    <3>10. InOrder(p, heard, FirstHeard)'
      BY <1>1, <3>4 DEF Playing
    <3> QED
      BY <1>1, <1>3, <3>2, <3>3, <3>4, <3>8, <3>9, <3>10 DEF Playing
  <2> QED
    BY <2>2, <2>3
<1>8. CASE ~DecStart /\ ~DecInput /\ ~(DecWrite /\ WriteStores(decode_stream, DecCap))
  <2>1. /\ dec'.buf = dec.buf /\ decode_stream'.data = decode_stream.data
        /\ preprocess_stream' \in {preprocess_stream, Stopped(preprocess_stream)}
    BY <1>8, EndedIs DEF Prepares, Decode, DecReceive, DecHeader, DecFind, DecSeekSend, DecSeekReset,
       DecInit, DecInitSeek, DecFailStop, DecFail, DecOutput, DecOutputSend, DecOutputMark, DecWrite,
       DecErrorStop, DecEndStop, DecEndFinish, DecEnd, streams, StreamShape
  <2>2. FeedsOn(p)
    BY <1>1, <1>2, <2>1, EndingFeedsOn
  <2>3. CASE DecOutput
    <3>1. /\ dec.pc = "output" /\ UNCHANGED <<decode_stream, playback_start, play_queue, state>>
          /\ dec'.pc \in {"output_send", "write"} /\ (dec'.pc = "output_send" => playback_start = 0)
      BY <2>3 DEF DecOutput, queues, fields, streams
    <3>2. Preparing(p)' /\ Places'
      BY <1>1, <3>1 DEF Preparing, Places, Waiting, Decodes, Ends, Done
    <3>3. (Live' => Live) /\ Held' = Held /\ Decodes
      BY <1>1, <3>1 DEF Live, CanHear, Waiting, Decodes, Held
    <3> QED
      BY <1>1, <1>3, <1>4, <2>1, <2>2, <3>2, <3>3, PlayingMoves
  <2>4. CASE DecOutputSend
    <3>1. /\ dec.pc = "output_send" /\ UNCHANGED <<decode_stream, playback_start, state>>
          /\ dec'.pc = "output_mark" /\ play_queue' = <<"play">> /\ playback_start = 0
      BY <2>4 DEF DecOutputSend, fields, streams, Places
    <3>2. Waiting /\ pb.pc \in {"wait", "mute"} /\ heard = <<>>
      BY <3>1 DEF Places, Waiting
    <3>3. Preparing(p)' /\ Places'
      BY <1>1, <3>1, <3>2 DEF Preparing, Places, Waiting, Decodes, Ends, Done
    <3>4. Live /\ Held' = Held /\ Decodes
      BY <3>1, <3>2 DEF Live, CanHear, Decodes, Held
    <3> QED
      BY <1>1, <1>3, <1>4, <2>1, <2>2, <3>3, <3>4, PlayingMoves
  <2>5. CASE DecOutputMark
    <3>1. /\ dec.pc = "output_mark" /\ UNCHANGED <<decode_stream, play_queue, state>>
          /\ dec'.pc = "write" /\ playback_start' = 1
      BY <2>5 DEF DecOutputMark, queues, streams
    <3>2. Preparing(p)' /\ Places'
      BY <1>1, <3>1 DEF Preparing, Places, Waiting, Decodes, Ends, Done
    <3>3. (Live' => Live) /\ Held' = Held /\ Decodes
      BY <1>1, <3>1 DEF Live, CanHear, Waiting, Decodes, Held
    <3> QED
      BY <1>1, <1>3, <1>4, <2>1, <2>2, <3>2, <3>3, PlayingMoves
  <2>6. CASE DecWrite
    <3>1. /\ dec.pc = "write" /\ UNCHANGED <<decode_stream, playback_start, play_queue, state>>
          /\ dec'.pc \in {"input", "error_stop", "end_stop"}
          /\ dec'.pc = "input" => WriteIgnored(decode_stream)
      BY <1>8, <2>6 DEF DecWrite, queues, fields, streams
    <3>2. dec'.pc # "input"
      BY <3>1 DEF WriteIgnored, Has, Places, Decodes
    <3>3. Preparing(p)' /\ Places'
      BY <1>1, <3>1, <3>2 DEF Preparing, Places, Waiting, Decodes, Ends, Done
    <3>4. (Live' => Live) /\ Held' = 0 /\ ~Decodes'
      BY <1>1, <3>1, <3>2 DEF Live, CanHear, Waiting, Decodes, Held
    <3> QED
      BY <1>1, <1>3, <1>4, <2>1, <2>2, <3>3, <3>4, PlayingMoves
  <2>7. CASE DecErrorStop \/ DecEndStop \/ DecEndFinish
    <3>1. /\ dec.pc \in {"error_stop", "error_stop_pre", "end_stop", "end_finish"}
          /\ dec'.pc \in {"error_stop_pre", "end_finish", "end"}
          /\ UNCHANGED <<playback_start, play_queue, state>>
      BY <2>7 DEF DecErrorStop, DecEndStop, DecEndFinish, queues, fields
    <3>2. Preparing(p)' /\ Places'
      BY <1>1, <3>1 DEF Preparing, Places, Waiting, Decodes, Ends, Done
    <3>3. (Live' => Live) /\ Held' = 0 /\ ~Decodes'
      BY <1>1, <3>1 DEF Live, CanHear, Waiting, Decodes, Ends, Held
    <3> QED
      BY <1>1, <1>3, <1>4, <2>1, <2>2, <3>2, <3>3, PlayingMoves
  <2>8. CASE DecEnd
    <3>1. /\ dec.pc = "end" /\ dec'.pc = "wait"
          /\ UNCHANGED <<decode_stream, playback_start, play_queue>>
          /\ playback_start # 0 => UNCHANGED state
      BY <2>8 DEF DecEnd, queues, streams
    <3>2. Preparing(p)' /\ Places'
      BY <1>1, <3>1 DEF Preparing, Places, Waiting, Decodes, Ends, Done
    <3>3. (Live' => Live) /\ Held' = 0 /\ ~Decodes'
      BY <1>1, <3>1 DEF Live, CanHear, Waiting, Decodes, Ends, Done, Held
    <3> QED
      BY <1>1, <1>3, <1>4, <2>1, <2>2, <3>2, <3>3, PlayingMoves
  <2> QED
    BY <1>8, <2>3, <2>4, <2>5, <2>6, <2>7, <2>8 DEF Prepares, Decode, DecReceive, DecHeader, DecFind,
       DecSeekSend, DecSeekReset, DecInit, DecInitSeek, DecFailStop, DecFail
<1> QED
  BY <1>5, <1>6, <1>7, <1>8

LEMMA DecodeTrack ==
  ASSUME NEW p \in Nat, Shape, Shape', Tracked(p), Track(p), Decode
  PROVE  Track(p)'
  BY DecodeOnTheWay, PreparingTrack, DecodingTrack DEF Track

\* The playback thread between two sessions: a message, or the end of its silence.
LEMMA Listens ==
  ASSUME Shape, PbReceive \/ PbMuteMessage \/ PbClose
  PROVE  /\ pb.pc \in {"wait", "mute"} /\ pb'.buf = pb.buf
         /\ UNCHANGED <<heard, state, decode_stream, preprocess_stream>>
         /\ \/ play_queue = <<"play">> /\ play_queue' # <<"play">> /\ pb'.pc \in {"open", "begin"}
            \/ play_queue # <<"play">> /\ play_queue' # <<"play">> /\ pb'.pc = "wait"
            \/ play_queue' = play_queue /\ pb'.pc = "wait"
<1> USE DEF Shape, PbShape, PbGoto, fields, history, streams, queues
<1>1. <<>> # <<"play">>
  OBVIOUS
<1>2. CASE PbReceive
  BY <1>1, <1>2 DEF PbReceive
<1>3. CASE PbMuteMessage
  BY <1>1, <1>3 DEF PbMuteMessage
<1>4. CASE PbClose
  BY <1>4 DEF PbClose
<1> QED
  BY <1>2, <1>3, <1>4

LEMMA PlaybackTrack ==
  ASSUME NEW p \in Nat, Shape, Shape', Tracked(p), Track(p), Play
  PROVE  Track(p)'
<1> USE DEF Shape, Tracked, Plain, Track, PbGoto, PbShape
<1>1. UNCHANGED <<preprocess_queue, decode_queue, playback_start, start_time, app, pre, dec>>
  BY PlayLeaves DEF caller
<1>2. preprocess_stream' \in {preprocess_stream, Stopped(preprocess_stream)}
  BY DEF Play, PbReceive, PbNoDevice, PbOpen, PbFailStop, PbFailStopDecode, PbFail, PbBegin, PbRead,
     PbDrained, PbFrame, PbUnpause, PbAwake, PbDevice, PbNext, PbIdle, PbMuteMessage, PbClose, streams
<1>3. FeedsOn(p)
  BY <1>1, <1>2, EndingFeedsOn
<1>4. OnTheWay(p)' /\ Preparing(p)'
  BY <1>1, <1>3, PreparingKept DEF OnTheWay, Fresh, PlayQueued, PreHolds, NoSeek, PreCalm
<1>5. FirstHeard' = FirstHeard /\ Held' = Held
      /\ Decodes' = Decodes /\ Ends' = Ends /\ Done' = Done /\ Waiting' = Waiting
  BY <1>1 DEF FirstHeard, Held, Decodes, Ends, Done, Waiting
<1>6. pb.pc \notin {"wait", "mute"} => Decodes \/ Ends \/ Done
  BY DEF Places, Waiting, FieldShape, Decodes
<1>7. CASE PbReceive \/ PbMuteMessage \/ PbClose
  <2>1. /\ pb.pc \in {"wait", "mute"} /\ UNCHANGED <<heard, state, decode_stream>> /\ pb'.buf = pb.buf
        /\ \/ play_queue = <<"play">> /\ play_queue' # <<"play">> /\ pb'.pc \in {"open", "begin"}
           \/ play_queue # <<"play">> /\ play_queue' # <<"play">> /\ pb'.pc = "wait"
           \/ play_queue' = play_queue /\ pb'.pc = "wait"
    BY <1>7, Listens
  <2>2. Places'
    <3>1. CASE pb'.pc = "wait"
      BY <1>1, <1>5, <2>1, <3>1 DEF Places
    <3>2. CASE pb'.pc # "wait"
      BY <1>1, <1>5, <2>1, <3>2 DEF Places
    <3> QED
      BY <3>1, <3>2
  <2>3. Live' => Live
    <3>1. CanHear' => CanHear
      BY <1>5, <2>1 DEF CanHear
    <3> QED
      BY <1>5, <3>1 DEF Live
  <2>4. InFrame' = InFrame
    BY <2>1 DEF InFrame
  <2> QED
    BY <1>1, <1>3, <1>4, <1>5, <2>1, <2>2, <2>3, <2>4, PlayingMoves
<1>8. CASE PbRead
  <2>1. /\ pb.pc = "read" /\ UNCHANGED <<heard, state, play_queue>>
    BY <1>8 DEF PbRead, fields, history, queues
  <2>2. CASE Has(decode_stream, "STOPPED")
    <3>1. pb'.pc = "idle" /\ UNCHANGED decode_stream
      BY <1>8, <2>2 DEF PbRead
    <3>2. ~Live'
      BY <3>1 DEF Live, CanHear
    <3>3. Places'
      BY <1>1, <1>5, <2>1, <3>1 DEF Places
    <3> QED
      BY <1>1, <1>3, <1>4, <1>5, <2>1, <3>1, <3>2, <3>3, PlayingMoves
  <2>3. CASE ~Has(decode_stream, "STOPPED")
    <3> DEFINE got  == ReadUnits(decode_stream, FrameUnits)
               rest == AfterRead(decode_stream, FrameUnits)
    <3>1. /\ pb'.buf = got /\ pb'.pc \in {"drained", "frame"} /\ decode_stream' = rest
      BY <1>8, <2>3 DEF PbRead
    <3>2. /\ IsStream(rest) /\ rest.flags = decode_stream.flags /\ got \in Seq(Units)
          /\ Len(got) + Len(rest.data) = Len(decode_stream.data)
          /\ \A k \in 1 .. Len(got) : got[k] = decode_stream.data[k]
          /\ \A k \in 1 .. Len(rest.data) : rest.data[k] = decode_stream.data[k + Len(got)]
      BY ReadIs, PlayerAssumption DEF StreamShape
    <3> HIDE DEF got, rest
    <3>3. Len(got) \in Nat /\ Len(rest.data) \in Nat
      BY <3>2, LenProperties DEF IsStream
    <3>4. Places'
      BY <1>1, <1>5, <2>1, <3>1, <3>2 DEF Places
    <3>5. InOrder(p, heard, FirstHeard)'
      BY <1>5, <2>1 DEF Playing
    <3>6. CASE ~Live'
      BY <1>5, <2>1, <3>1, <3>4, <1>4, <3>5, <3>6 DEF Playing
    <3>7. CASE Live'
      <4>1. pb'.pc = "frame" /\ Live
        BY <1>5, <2>1, <3>1, <3>7 DEF Live, CanHear
      <4>2. Arrived = FirstHeard + Len(heard) /\ Arrived' = Arrived + Len(got)
        BY <1>5, <2>1, <3>1, <3>3, <4>1, Numbers DEF Arrived, InFrame
      <4>3. Decoded' = Decoded
        <5>1. Decoded' = Arrived' + Len(rest.data)
          BY <3>1 DEF Decoded
        <5>2. Len(got) + Len(rest.data) = Len(decode_stream.data) /\ Arrived \in Nat
          BY <3>2, Numbers
        <5> QED
          BY <3>3, <4>2, <5>1, <5>2 DEF Decoded
      <4>4. InOrder(p, got, Arrived) /\ InOrder(p, rest.data, Arrived + Len(got))
        BY <3>2, <3>3, <4>1, Numbers, SplitInOrder DEF Playing
      <4>5. /\ (pb.pc = "frame" => InOrder(p, pb.buf, FirstHeard + Len(heard)))'
            /\ InOrder(p, decode_stream.data, Arrived)'
        BY <1>5, <2>1, <3>1, <4>2, <4>4
      <4>6. Held' = 1 => dec'.buf = Unit(p, Decoded')
        BY <1>1, <1>5, <4>1, <4>3 DEF Playing
      <4>7. ASSUME Decodes', NEW i \in Nat, i = Decoded' + Held' PROVE Feed(p, i)'
        BY <1>3, <1>5, <4>1, <4>3, <4>7 DEF Playing, FeedsOn
      <4> QED
        BY <1>4, <3>1, <3>4, <3>5, <4>1, <4>5, <4>6, <4>7 DEF Playing
    <3> QED
      BY <3>6, <3>7
  <2> QED
    BY <2>2, <2>3
<1>9. CASE PbFrame
  <2>1. /\ pb.pc = "frame" /\ UNCHANGED <<heard, state, play_queue, decode_stream>>
        /\ pb'.buf = pb.buf
        /\ pb'.pc = IF state = "RUNNING" THEN "device" ELSE IF state = "PAUSED" THEN "paused"
                                                       ELSE "written"
    <3>1. CASE state = "RUNNING"
      BY <1>9, <3>1 DEF PbFrame, fields, history, queues, streams
    <3>2. CASE state = "PAUSED"
      BY <1>9, <3>2 DEF PbFrame, fields, history, queues, streams
    <3>3. CASE state \notin {"RUNNING", "PAUSED"}
      BY <1>9, <3>3 DEF PbFrame, fields, history, queues, streams
    <3> QED
      BY <3>1, <3>2, <3>3
  <2>2. Places'
    BY <1>1, <1>5, <2>1 DEF Places
  <2>3. Live' => Live /\ InFrame' = InFrame
    BY <1>5, <2>1 DEF Live, CanHear, InFrame
  <2>4. pb'.pc \in {"paused", "unpaused", "device"} => InOrder(p, pb'.buf, FirstHeard + Len(heard))
    BY <1>6, <2>1 DEF Playing, Live, CanHear
  <2> QED
    BY <1>1, <1>3, <1>4, <1>5, <2>1, <2>2, <2>3, <2>4, PlayingMoves
<1>10. CASE PbUnpause \/ PbAwake
  <2>1. /\ pb.pc \in {"paused", "unpaused"} /\ UNCHANGED <<heard, state, play_queue, decode_stream>>
        /\ \/ pb'.pc \in {"unpaused", "device"} /\ pb'.buf = pb.buf
           \/ pb'.pc = "idle"
    BY <1>10 DEF PbUnpause, PbAwake, fields, history, queues, streams
  <2>2. Places'
    BY <1>1, <1>5, <2>1 DEF Places
  <2>3. Live' => Live /\ InFrame' = InFrame
    BY <1>5, <2>1 DEF Live, CanHear, InFrame
  <2>4. pb'.pc \in {"paused", "unpaused", "device"} => InOrder(p, pb'.buf, FirstHeard + Len(heard))
    BY <2>1 DEF Playing
  <2> QED
    BY <1>1, <1>3, <1>4, <1>5, <2>1, <2>2, <2>3, <2>4, PlayingMoves
<1>11. CASE PbDevice
  <2>1. /\ pb.pc = "device" /\ pb'.pc = "written" /\ heard' = heard \o pb.buf
        /\ UNCHANGED <<state, play_queue, decode_stream>>
    BY <1>11 DEF PbDevice, fields, queues, streams
  <2>2. Places'
    BY <1>1, <1>5, <2>1 DEF Places
  <2>3. InOrder(p, heard \o pb.buf, FirstHeard) /\ Len(heard \o pb.buf) = Len(heard) + Len(pb.buf)
    <3>1. InOrder(p, heard, FirstHeard) /\ InOrder(p, pb.buf, FirstHeard + Len(heard))
      BY <2>1 DEF Playing
    <3> QED
      BY <3>1, Numbers, ConcatInOrder
  <2>4. Arrived' = Arrived
    BY <1>5, <2>1, <2>3, Numbers DEF Arrived, InFrame
  <2>5. Decoded' = Decoded /\ (Live' => Live)
    BY <1>5, <2>1, <2>4 DEF Decoded, Live, CanHear
  <2>6. InOrder(p, heard, FirstHeard)'
    BY <1>5, <2>1, <2>3
  <2>7. Live' => InOrder(p, decode_stream.data, Arrived)'
    BY <2>1, <2>4, <2>5 DEF Playing
  <2>8. ASSUME Live', Decodes', NEW i \in Nat, i = Decoded' + Held' PROVE Feed(p, i)'
    BY <1>3, <1>5, <2>5, <2>8 DEF Playing, FeedsOn
  <2>9. Live' /\ Held' = 1 => dec'.buf = Unit(p, Decoded')
    BY <1>1, <1>5, <2>5 DEF Playing
  <2> QED
    BY <1>4, <2>1, <2>2, <2>6, <2>7, <2>8, <2>9 DEF Playing
<1>12. CASE ~PbReceive /\ ~PbMuteMessage /\ ~PbClose /\ ~PbRead /\ ~PbFrame /\ ~PbUnpause
            /\ ~PbAwake /\ ~PbDevice
  <2>1. /\ UNCHANGED heard /\ decode_stream' \in {decode_stream, Stopped(decode_stream)}
        /\ play_queue' \in {play_queue, <<>>}
    BY <1>12 DEF Play, PbNoDevice, PbOpen, PbFailStop, PbFailStopDecode, PbFail, PbBegin,
       PbDrained, PbNext, PbIdle, streams, history, queues
  <2>2. /\ decode_stream'.data = decode_stream.data
        /\ decode_stream'.flags \in {decode_stream.flags, decode_stream.flags \cup {"STOPPED"}}
    BY <2>1, EndedIs DEF StreamShape
  <2>3. /\ pb.pc \notin {"wait", "mute"}
        /\ \/ pb.pc = "open" /\ pb'.pc \in {"begin", "fail_stop"}
           \/ pb.pc = "begin" /\ pb'.pc = "read"
           \/ pb.pc = "written" /\ pb'.pc \in {"idle", "read"} /\ UNCHANGED state
           \/ pb'.pc \in {"idle", "mute", "fail_stop_decode", "fail"}
           \/ pb.pc = "fail" /\ pb'.pc = "wait"
    <3>1. ~PbNoDevice
      BY DEF PbNoDevice
    <3> QED
      BY <1>12, <3>1 DEF Play, PbOpen, PbFailStop, PbFailStopDecode, PbFail, PbBegin,
         PbDrained, PbNext, PbIdle, fields
  <2>4. ~Waiting /\ play_queue # <<"play">>
    BY <2>3 DEF Places
  <2>5. <<>> # <<"play">>
    OBVIOUS
  <2>6. Places'
    BY <1>1, <1>5, <2>1, <2>2, <2>3, <2>4, <2>5 DEF Places
  <2>7. Live' => Live /\ InFrame' = InFrame
    BY <1>5, <1>6, <2>1, <2>3, <2>4, <2>5 DEF Live, CanHear, InFrame
  <2>8. pb'.pc \notin {"paused", "unpaused", "device", "frame"}
    BY <2>3
  <2> QED
    BY <1>1, <1>3, <1>4, <1>5, <2>1, <2>2, <2>6, <2>7, <2>8, PlayingMoves
<1> QED
  BY <1>7, <1>8, <1>9, <1>10, <1>11, <1>12

--------------------------------------------------------------------------------

\* A track that begins at rest: nothing of the one before is left.
LEMMA TrackBegins ==
  ASSUME NEW p \in Nat, Shape, PlaySet, plays' = p, BeginsAtRest(p)
  PROVE  TrackInv(p)'
<1> USE DEF Shape
<1>1. AtRest /\ (playback' = 0 => pb.pc = "wait")
  BY DEF BeginsAtRest
<1>2. /\ playback_start' = 0 /\ heard' = <<>> /\ app'.pc = "play_send"
      /\ UNCHANGED <<preprocess_queue, decode_queue, play_queue, pre, dec, pb>>
  BY DEF PlaySet, workers, queues, AppGoto, AppShape
<1>3. OnTheWay(p)' /\ Preparing(p)' /\ Places'
  BY <1>1, <1>2 DEF AtRest, OnTheWay, Preparing, Places, Fresh, PlayQueued, PreHolds, Waiting, Decodes,
     Ends, Done
<1>4. Playing(p)'
  <2>1. InOrder(p, heard, FirstHeard)'
    BY <1>2, EmptyInOrder
  <2> QED
    BY <1>1, <1>2, <2>1 DEF AtRest, Playing, Live, Decodes, Ends, Done
<1> QED
  BY <1>1, <1>2, <1>3, <1>4 DEF TrackInv, Track, OnlyInfo

\* An info_only play gives the device nothing.
LEMMA OnlyInfoTrack ==
  ASSUME playback = 0, OnlyInfo, Next, ~PlaySet, PbShape
  PROVE  OnlyInfo'
<1>1. CASE Play
  BY <1>1 DEF OnlyInfo, Play, PbReceive, PbNoDevice, PbOpen, PbFailStop, PbFailStopDecode, PbFail,
     PbBegin, PbRead, PbDrained, PbFrame, PbUnpause, PbAwake, PbDevice, PbNext, PbIdle,
     PbMuteMessage, PbClose, PbGoto, PbShape, history
<1> QED
  BY <1>1, ApplicationLeaves, PreprocessLeaves, DecodeLeaves DEF Next, OnlyInfo, workers, history

\* only player_play gives the player another track
LEMMA SameTrack ==
  ASSUME Next, ~PlaySet
  PROVE  UNCHANGED <<plays, playback, start_time>>
  BY PreprocessLeaves, DecodeLeaves, PlayLeaves DEF Next, Application, PlayCall, PlaySend, PlayWait,
     PlayCheck, InfoResume, StopCall, StopPreprocess, StopIdlePlayer, StopDecode, StopWait, StopReturn,
     DeviceStopCall, DeviceStopSend, DeviceStopWait, Pause, Resume, caller, fields

LEMMA NextTrack ==
  ASSUME NEW p \in Nat, Shape, Shape', TrackInv(p), [Next]_vars, [BeginsAtRest(p)]_vars
  PROVE  TrackInv(p)'
<1>1. CASE UNCHANGED vars
  BY <1>1 DEF vars, TrackInv, OnlyInfo, Tracked, Plain, Track, OnTheWay, Preparing, Places,
     Playing, Fresh, PlayQueued, PreHolds, NoSeek, PreCalm, SeekTo, Feed, Flowing, Follows, Live,
     CanHear, Waiting, Decodes, Ends, Done, Held, InFrame, Arrived, Decoded, FirstHeard
<1>2. CASE PlaySet
  <2>1. BeginsAtRest(p)
    <3>1. UNCHANGED vars => ~PlaySet
      BY DEF vars, PlaySet, AppGoto, Shape, AppShape
    <3> QED
      BY <1>2, <3>1
  <2>2. CASE plays' = p
    BY <1>2, <2>1, <2>2, TrackBegins
  <2>3. CASE plays' # p
    BY <2>3 DEF TrackInv, Tracked
  <2> QED
    BY <2>2, <2>3
<1>3. CASE Next /\ ~PlaySet
  <2>1. UNCHANGED <<plays, playback, start_time>>
    BY <1>3, SameTrack
  <2>2. Tracked(p) /\ Track(p) => Track(p)'
    BY <1>3, <2>1, ApplicationTrack, PreprocessTrack, DecodeTrack, PlaybackTrack DEF Next, Tracked
  <2>3. playback = 0 /\ OnlyInfo => OnlyInfo'
    BY <1>3, OnlyInfoTrack DEF Shape
  <2> QED
    BY <2>1, <2>2, <2>3 DEF TrackInv, Tracked, Plain
<1> QED
  BY <1>1, <1>2, <1>3

LEMMA InitTrack == ASSUME NEW p \in Nat PROVE Init => TrackInv(p)
  BY DEF Init, TrackInv, OnlyInfo, Tracked

\* before the first track
LEMMA NextNotYet ==
  ASSUME Shape, NotYet, [Next]_vars
  PROVE  NotYet'
<1> USE DEF Shape, NotYet, NothingYet, AtRest
<1>1. CASE UNCHANGED vars
  BY <1>1 DEF vars, Runs
<1>2. CASE PlaySet
  <2>1. plays' = plays + 1 /\ plays \in Nat
    BY <1>2 DEF PlaySet, FieldShape
  <2> QED
    BY <2>1
<1>3. CASE Next /\ ~PlaySet
  <2>1. SUFFICES ASSUME plays = 0, NothingYet PROVE NothingYet'
    BY <1>3, SameTrack
  <2>2. ~Preprocess /\ ~Decode
    BY <2>1 DEF Preprocess, PreReceive, PreInit, PreInitFail, PreStart, PreSend, PreResume, PrePoll,
       PreRead, PreEnd, PreTimeout, PreWrite, Decode, DecReceive, DecHeader, DecFind, DecSeekSend,
       DecSeekReset, DecInit, DecInitSeek, DecFailStop, DecFail, DecStart, DecInput, DecOutput,
       DecOutputSend, DecOutputMark, DecWrite, DecErrorStop, DecEndStop, DecEndFinish, DecEnd
  <2>3. CASE Play
    <3>1. PbReceive
      BY <2>1, <2>3 DEF Play, PbReceive, PbNoDevice, PbOpen, PbFailStop, PbFailStopDecode, PbFail,
         PbBegin,
         PbRead, PbDrained, PbFrame, PbUnpause, PbAwake, PbDevice, PbNext, PbIdle, PbMuteMessage,
         PbClose
    <3>2. /\ UNCHANGED <<preprocess_queue, decode_queue, pre, dec, pb, app, state, heard, silent>>
          /\ play_queue' = <<>>
      BY <2>1, <3>1 DEF PbReceive, fields, caller, history
    <3> QED
      BY <2>1, <3>2 DEF Runs
  <2>4. CASE Application
    <3>1. UNCHANGED <<decode_queue, pre, dec, pb, heard>>
      BY <1>3, <2>4, ApplicationLeaves DEF workers
    <3>2. UNCHANGED <<preprocess_queue, state, silent>>
      BY <1>3, <2>1, <2>4 DEF Application, PlayCall, PlaySend, PlayWait, PlayCheck, InfoResume, StopCall,
         StopPreprocess, StopIdlePlayer, StopDecode, StopWait, StopReturn, DeviceStopCall,
         DeviceStopSend, DeviceStopWait, Pause, Resume, queues, fields, history
    <3>3. play_queue' # <<"play">>
      <4>1. CASE DeviceStopSend
        BY <4>1 DEF DeviceStopSend
      <4> QED
        BY <1>3, <2>1, <2>4, <4>1 DEF Application, PlayCall, PlaySend, PlayWait, PlayCheck, InfoResume,
           StopCall, StopPreprocess, StopIdlePlayer, StopDecode, StopWait, StopReturn, DeviceStopCall,
           DeviceStopWait, Pause, Resume, queues
    <3>4. app'.pc \notin {"play_send", "play_wait", "play_check", "info_resume",
                         "stop_decode", "stop_wait", "stop_idle"}
      <4> USE DEF AppGoto, AppShape
      <4>1. CASE PlayCall \/ StopCall \/ StopIdlePlayer
        BY <4>1 DEF PlayCall, StopCall, StopIdlePlayer, AfterStop
      <4>2. CASE DeviceStopCall(TRUE) \/ DeviceStopCall(FALSE) \/ DeviceStopSend \/ DeviceStopWait
        BY <4>2 DEF DeviceStopCall, DeviceStopSend, DeviceStopWait
      <4> QED
        BY <1>3, <2>1, <2>4, <4>1, <4>2 DEF Application, PlaySend, PlayWait, PlayCheck, InfoResume,
           StopPreprocess, StopDecode, StopWait, StopReturn, Pause, Resume
    <3> QED
      BY <2>1, <3>1, <3>2, <3>3, <3>4 DEF Runs
  <2> QED
    BY <1>3, <2>2, <2>3, <2>4 DEF Next
<1> QED
  BY <1>1, <1>2, <1>3

LEMMA PlayerShape == Spec => []Shape
<1>1. Init => Shape
  BY InitShape
<1>2. Shape /\ [Next]_vars => Shape'
  BY NextShape
<1> QED
  BY <1>1, <1>2, PTL DEF Spec

LEMMA PlayerNotYet == Spec => []NotYet
<1>1. Init => NotYet
  BY DEF Init, NotYet, NothingYet, AtRest, Runs
<1>2. Shape /\ NotYet /\ [Next]_vars => NotYet'
  BY NextNotYet
<1> QED
  BY <1>1, <1>2, PlayerShape, PTL DEF Spec

LEMMA FirstBeginsAtRest ==
  ASSUME Shape, NotYet, [Next]_vars
  PROVE  [BeginsAtRest(1)]_vars
  BY DEF NotYet, NothingYet, BeginsAtRest, PlaySet, Shape, FieldShape

LEMMA HeardIsInOrder ==
  ASSUME NEW p \in Nat, Shape, TrackInv(p), plays = p, Plain
  PROVE  HeardInOrder
<1>1. heard \in Seq(Units) /\ Len(heard) \in Nat /\ FirstHeard \in Nat
  BY Numbers
<1>2. heard = [i \in 1 .. Len(heard) |-> heard[i]]
  BY <1>1
<1>3. CASE heard = <<>>
  BY <1>2, <1>3 DEF HeardInOrder
<1>4. CASE heard # <<>>
  <2>1. Tracked(p)
    BY <1>4 DEF TrackInv, OnlyInfo, Tracked, Shape, FieldShape
  <2>2. \A i \in 1 .. Len(heard) : heard[i] = Unit(plays, FirstHeard + i - 1)
    BY <2>1 DEF TrackInv, Track, Playing, InOrder
  <2> QED
    BY <1>2, <2>2 DEF HeardInOrder
<1> QED
  BY <1>3, <1>4

\* What the device gets of a track that begins when the workers are at rest is its
\* file from the start position on, in order and without a gap, whatever happened
\* to the tracks before, and whatever fails, times out, is paused or stopped.
THEOREM TrackInOrder ==
  ASSUME NEW p \in Nat
  PROVE  Spec /\ [][BeginsAtRest(p)]_vars => [](plays = p /\ Plain => HeardInOrder)
<1>1. Init => TrackInv(p)
  BY InitTrack
<1>2. Shape /\ Shape' /\ TrackInv(p) /\ [Next]_vars /\ [BeginsAtRest(p)]_vars => TrackInv(p)'
  BY NextTrack
<1>3. Shape /\ TrackInv(p) => (plays = p /\ Plain => HeardInOrder)
  BY HeardIsInOrder
<1> QED
  BY <1>1, <1>2, <1>3, PlayerShape, PTL DEF Spec

\* The first track of a player always begins like this.
THEOREM FirstTrackInOrder == Spec => [](plays <= 1 /\ Plain => HeardInOrder)
<1>1. Init => TrackInv(1)
  BY InitTrack
<1>2. Shape /\ Shape' /\ NotYet /\ TrackInv(1) /\ [Next]_vars => TrackInv(1)'
  BY NextTrack, FirstBeginsAtRest
<1>3. Shape /\ NotYet /\ TrackInv(1) => (plays <= 1 /\ Plain => HeardInOrder)
  <2>1. CASE plays = 0
    BY <2>1 DEF NotYet, NothingYet, HeardInOrder
  <2>2. CASE plays # 0
    BY <2>2, HeardIsInOrder DEF Shape, FieldShape
  <2> QED
    BY <2>1, <2>2
<1> QED
  BY <1>1, <1>2, <1>3, PlayerShape, PlayerNotYet, PTL DEF Spec


--------------------------------------------------------------------------------
(* The decode stream starts only when its last run has ended, in any track. *)

\* The decoder leaves no run of its stream open when it goes back to wait.
DecodeEnded == Prepares \/ dec.pc \in {"start", "error_stop_pre", "end"} => Ended(decode_stream)

LEMMA NextDecodeEnded ==
  ASSUME Shape, Shape', DecodeEnded, [Next]_vars
  PROVE  DecodeEnded'
<1> USE DEF Shape, DecodeEnded
<1>1. CASE dec'.pc = dec.pc /\ decode_stream'.flags \in {decode_stream.flags,
                                                          decode_stream.flags \cup {"STOPPED"}}
  BY <1>1 DEF Prepares, Ended, Has
<1>2. CASE Application
  <2>1. UNCHANGED dec
    BY <1>2, ApplicationLeaves DEF PlaySet, workers
  <2>2. decode_stream' \in {decode_stream, Stopped(decode_stream)}
    BY <1>2 DEF Application, PlayCall, PlaySet, PlaySend, PlayWait, PlayCheck, InfoResume, StopCall,
       StopPreprocess, StopIdlePlayer, StopDecode, StopWait, StopReturn, DeviceStopCall,
       DeviceStopSend, DeviceStopWait, Pause, Resume, streams
  <2> QED
    BY <1>1, <2>1, <2>2, EndedIs DEF StreamShape
<1>3. CASE Preprocess
  <2>1. CASE PreStart
    BY <1>1, <2>1 DEF PreStart, DecShape
  <2>2. CASE ~PreStart
    BY <1>1, <1>3, <2>2, PreprocessLeaves DEF Preprocess, PreReceive, PreInit, PreInitFail, PreSend,
       PreResume, PrePoll, PreRead, PreEnd, PreTimeout, PreWrite
  <2> QED
    BY <2>1, <2>2
<1>4. CASE Play
  <2>1. CASE PbRead
    <3>1. AfterRead(decode_stream, FrameUnits).flags = decode_stream.flags
      BY ReadIs, PlayerAssumption DEF StreamShape
    <3> QED
      BY <1>1, <1>4, <2>1, <3>1, PlayLeaves DEF PbRead
  <2>2. CASE ~PbRead
    <3>1. decode_stream' \in {decode_stream, Stopped(decode_stream)}
      BY <1>4, <2>2 DEF Play, PbReceive, PbNoDevice, PbOpen, PbFailStop, PbFailStopDecode, PbFail,
         PbBegin, PbDrained, PbFrame, PbUnpause, PbAwake, PbDevice, PbNext, PbIdle, PbMuteMessage,
         PbClose, streams
    <3> QED
      BY <1>1, <1>4, <3>1, PlayLeaves, EndedIs DEF StreamShape
  <2> QED
    BY <2>1, <2>2
<1>5. CASE Decode
  <2> USE DEF DecGoto, DecShape
  <2>1. CASE Prepares
    <3>1. UNCHANGED decode_stream
      BY <1>5, <2>1 DEF Prepares, Decode, DecReceive, DecHeader, DecFind, DecSeekSend, DecSeekReset,
         DecInit, DecInitSeek, DecFailStop, DecFail, DecStart, DecInput, DecOutput, DecOutputSend,
         DecOutputMark, DecWrite, DecErrorStop, DecEndStop, DecEndFinish, DecEnd, streams
    <3> QED
      BY <2>1, <3>1 DEF Ended, Has
  <2>2. CASE DecStart \/ DecInput \/ DecOutput \/ DecOutputSend \/ DecOutputMark
    <3>1. dec'.pc \in {"input", "output", "end_stop", "output_send", "output_mark", "write"}
      <4>1. CASE DecInput
        <5>1. \/ dec' = [dec EXCEPT !.pc = "end_stop"]
              \/ dec' = [dec EXCEPT !.pc = "output", !.buf = preprocess_stream.data[1]]
          BY <4>1, InputIs DEF DecInput
        <5> QED
          BY <5>1
      <4> QED
        BY <2>2, <4>1 DEF DecStart, DecOutput, DecOutputSend, DecOutputMark
    <3> QED
      BY <3>1 DEF Prepares
  <2>3. CASE DecWrite
    BY <2>3 DEF DecWrite, Prepares
  <2>4. CASE DecErrorStop \/ DecEndStop \/ DecEndFinish
    <3>1. CASE DecErrorStop
      <4>1. decode_stream'.flags = decode_stream.flags \cup {"STOPPED"}
        BY <3>1, EndedIs DEF DecErrorStop, StreamShape
      <4> QED
        BY <4>1 DEF Ended
    <3>2. CASE DecEndStop
      <4>1. UNCHANGED decode_stream /\ dec' = [dec EXCEPT !.pc = IF dec.pc = "end_stop"
                                                                THEN "end_finish" ELSE "end"]
        BY <3>2 DEF DecEndStop
      <4>2. dec.pc = "end_stop" \/ dec.pc = "error_stop_pre"
        BY <3>2 DEF DecEndStop
      <4> QED
        BY <4>1, <4>2 DEF Ended, Has, Prepares
    <3>3. CASE DecEndFinish
      <4>1. decode_stream'.flags = decode_stream.flags \cup {"FINISHED"}
        BY <3>3, EndedIs DEF DecEndFinish, StreamShape
      <4> QED
        BY <4>1 DEF Ended
    <3> QED
      BY <2>4, <3>1, <3>2, <3>3
  <2>5. CASE DecEnd
    <3>1. UNCHANGED decode_stream /\ dec.pc = "end"
      BY <2>5 DEF DecEnd, streams
    <3> QED
      BY <3>1 DEF Ended, Has
  <2> QED
    BY <1>5, <2>1, <2>2, <2>3, <2>4, <2>5 DEF Prepares, Decode, DecReceive, DecHeader, DecFind,
       DecSeekSend,
       DecSeekReset, DecInit, DecInitSeek, DecFailStop, DecFail
<1>6. CASE UNCHANGED vars
  BY <1>1, <1>6 DEF vars
<1> QED
  BY <1>2, <1>3, <1>4, <1>5, <1>6 DEF Next

LEMMA InitDecodeEnded == Init => DecodeEnded
  BY DEF Init, DecodeEnded, Ended, NewStream, Has

\* The decoder starts its stream only after the last run of it has ended, whatever
\* fails or is stopped, so that no reader of an old track is in it: the part of
\* StartsAfterEnd that concerns the decode stream.
THEOREM DecodeStartsEnded == Spec => [][DecStart => Ended(decode_stream)]_vars
<1>1. Init => Shape /\ DecodeEnded
  BY InitShape, InitDecodeEnded
<1>2. Shape /\ DecodeEnded /\ [Next]_vars => Shape' /\ DecodeEnded'
  BY NextShape, NextDecodeEnded
<1>3. DecodeEnded => (DecStart => Ended(decode_stream))
  BY DEF DecodeEnded, DecStart
<1> QED
  BY <1>1, <1>2, <1>3, PTL DEF Spec

--------------------------------------------------------------------------------
(* A stop of a track. *)

\* the playback thread is between PLAYBACK_START and PLAYBACK_STOP
InSession == pb.pc \in {"read", "drained", "frame", "paused", "unpaused", "device", "written", "idle"}

\* the session of this track is over, and no other message to play will come
Over == pb.pc \in {"wait", "mute"} /\ play_queue # <<"play">> /\ ~Waiting

\* the decoder has got its first unit to put out
Begun == dec.pc \in {"output", "output_send", "output_mark", "write"} \/ playback_start = 1


\* The state says that the track runs only while it is in its session; a stop that
\* found it running waits until that is over, because nothing makes an error of it.
TrackStops ==
  /\ Begun => NoSeek /\ "RESET" \notin preprocess_stream.flags
  /\ Runs => InSession
  /\ app.pc \in {"stop_decode", "stop_wait"} /\ app.found \in {"RUNNING", "PAUSED"} => Runs \/ Over
  /\ app.pc = "stop_idle" /\ app.found \in {"RUNNING", "PAUSED"} => Over
  /\ silent => Over

StopInv(p) == /\ plays = p /\ playback = 0 => ~silent
              /\ Tracked(p) => TrackStops

\* between two sessions, and before one, there is none
LEMMA Sessions ==
  ASSUME NEW p \in Nat, Shape, Track(p)
  PROVE  /\ InSession => ~Waiting /\ play_queue # <<"play">> /\ Begun
         /\ Over => ~InSession /\ Begun
         /\ ~Waiting => Begun
  BY DEF Shape, FieldShape, Track, Places, InSession, Over, Waiting, Begun

\* The message to play is sent once.
LEMMA OverKept ==
  ASSUME NEW p \in Nat, Shape, Tracked(p), Track(p), Next, ~PlaySet, Over
  PROVE  Over'
<1> USE DEF Over, Waiting
<1>1. CASE Application
  <2>1. UNCHANGED <<dec, pb, playback_start>>
    BY <1>1, ApplicationLeaves DEF workers, Application, PlayCall, PlaySend, PlayWait, PlayCheck,
       InfoResume, StopCall, StopPreprocess, StopIdlePlayer, StopDecode, StopWait, StopReturn,
       DeviceStopCall, DeviceStopSend, DeviceStopWait, Pause, Resume, fields
  <2>2. play_queue' # <<"play">>
    <3>1. CASE DeviceStopSend
      BY <3>1 DEF DeviceStopSend
    <3> QED
      BY <1>1, <3>1 DEF Application, PlayCall, PlaySet, PlaySend, PlayWait, PlayCheck, InfoResume,
         StopCall, StopPreprocess, StopIdlePlayer, StopDecode, StopWait, StopReturn, DeviceStopCall,
         DeviceStopWait, Pause, Resume, queues
  <2> QED
    BY <2>1, <2>2
<1>2. CASE Preprocess
  <2>1. dec'.pc = dec.pc
    <3>1. CASE PreStart
      BY <3>1 DEF PreStart, Shape, DecShape
    <3> QED
      BY <1>2, <3>1 DEF Preprocess, PreReceive, PreInit, PreInitFail, PreSend, PreResume, PrePoll,
         PreRead, PreEnd, PreTimeout, PreWrite
  <2> QED
    BY <1>2, <2>1, PreprocessLeaves
<1>3. CASE Decode
  <2>1. UNCHANGED pb
    BY <1>3, DecodeLeaves
  <2>2. CASE DecOutputSend
    BY <2>2 DEF DecOutputSend, Track, Places, Shape, FieldShape
  <2>3. CASE DecOutputMark
    BY <2>1, <2>3 DEF DecOutputMark, queues
  <2>4. CASE ~DecOutputSend /\ ~DecOutputMark
    <3>1. UNCHANGED <<play_queue, playback_start>>
      BY <1>3, <2>4 DEF Decode, DecReceive, DecHeader, DecFind, DecSeekSend, DecSeekReset, DecInit,
         DecInitSeek, DecFailStop, DecFail, DecStart, DecInput, DecOutput, DecWrite, DecErrorStop,
         DecEndStop, DecEndFinish, DecEnd, queues, fields
    <3>2. dec.pc # "output_mark"
      BY <1>3, <2>4 DEF Decode, DecReceive, DecHeader, DecFind, DecSeekSend, DecSeekReset, DecInit,
         DecInitSeek, DecFailStop, DecFail, DecStart, DecInput, DecOutput, DecWrite, DecErrorStop,
         DecEndStop, DecEndFinish, DecEnd
    <3> QED
      BY <2>1, <3>1, <3>2
  <2> QED
    BY <2>2, <2>3, <2>4
<1>4. CASE Play
  <2>1. UNCHANGED <<dec, playback_start>>
    BY <1>4, PlayLeaves
  <2>2. pb'.pc \in {"wait", "mute"} /\ play_queue' \in {play_queue, <<>>}
    <3> USE DEF PbGoto, Shape, PbShape
    <3>1. CASE PbReceive
      BY <3>1 DEF PbReceive
    <3>2. CASE PbMuteMessage
      BY <3>2 DEF PbMuteMessage
    <3>3. CASE PbClose
      BY <3>3 DEF PbClose, queues
    <3> QED
      BY <1>4, <3>1, <3>2, <3>3 DEF Play, PbNoDevice, PbOpen, PbFailStop, PbFailStopDecode, PbFail,
         PbBegin, PbRead, PbDrained, PbFrame, PbUnpause, PbAwake, PbDevice, PbNext, PbIdle
  <2>3. <<>> # <<"play">>
    OBVIOUS
  <2> QED
    BY <2>1, <2>2, <2>3
<1> QED
  BY <1>1, <1>2, <1>3, <1>4 DEF Next

\* nothing that fails makes an error of a track in its session
LEMMA SessionState ==
  ASSUME NEW p \in Nat, Shape, Tracked(p), Track(p), TrackStops, InSession, Preprocess \/ Decode
  PROVE  UNCHANGED <<state, pb>>
<1>0. ~Waiting /\ NoSeek
  BY Sessions DEF TrackStops
<1>1. CASE Preprocess
  <2>1. pre.pc # "init"
    BY <1>0 DEF NoSeek, PreCalm
  <2>2. UNCHANGED state
    BY <1>1, <2>1 DEF Preprocess, PreReceive, PreInit, PreInitFail, PreStart, PreSend, PreResume,
       PrePoll, PreRead, PreEnd, PreTimeout, PreWrite, fields
  <2> QED
    BY <1>1, <2>2, PreprocessLeaves
<1>2. CASE Decode
  <2>1. ~DecFail /\ (DecEnd => UNCHANGED state)
    BY <1>0 DEF DecFail, DecEnd, Waiting, Shape, FieldShape, Track, Places, Decodes, Ends, Done
  <2>2. UNCHANGED state
    BY <1>2, <2>1 DEF Decode, DecReceive, DecHeader, DecFind, DecSeekSend, DecSeekReset, DecInit,
       DecInitSeek, DecFailStop, DecStart, DecInput, DecOutput, DecOutputSend, DecOutputMark, DecWrite,
       DecErrorStop, DecEndStop, DecEndFinish, fields
  <2> QED
    BY <1>2, <2>2, DecodeLeaves
<1> QED
  BY <1>1, <1>2

\* what a step does to the state of a track in its session
LEMMA RunsKept ==
  ASSUME NEW p \in Nat, Shape, Tracked(p), Track(p), TrackStops, Next, ~PlaySet, InSession, Runs,
         ~StopReturn
  PROVE  (InSession /\ Runs)' \/ (~Runs /\ Over)'
<1> USE DEF Runs, InSession
<1>0. ~Waiting /\ play_queue # <<"play">>
  BY Sessions
<1>1. CASE Application
  <2>1. UNCHANGED pb
    BY <1>1, ApplicationLeaves DEF workers
  <2>2. Runs'
    <3>1. CASE StopDecode
      BY <3>1 DEF StopDecode
    <3>2. CASE Pause \/ Resume
      BY <3>2 DEF Pause, Resume
    <3> QED
      BY <1>1, <3>1, <3>2 DEF Application, PlayCall, PlaySet, PlaySend, PlayWait, PlayCheck, InfoResume,
         StopCall, StopPreprocess, StopIdlePlayer, StopWait, StopReturn, DeviceStopCall,
         DeviceStopSend, DeviceStopWait, fields
  <2> QED
    BY <2>1, <2>2
<1>2. CASE Preprocess \/ Decode
  BY <1>2, SessionState
<1>3. CASE Play
  <2> USE DEF PbGoto, Shape, PbShape
  <2>1. CASE PbIdle
    <3>1. pb'.pc = "mute" /\ state' = "IDLE" /\ UNCHANGED <<play_queue, dec, playback_start>>
      BY <2>1 DEF PbIdle, queues
    <3> QED
      BY <1>0, <3>1 DEF Over, Waiting
  <2>2. CASE ~PbIdle
    <3>1. UNCHANGED state
      BY <1>3, <2>2 DEF Play, PbReceive, PbNoDevice, PbOpen, PbFailStop, PbFailStopDecode, PbFail,
         PbBegin, PbRead, PbDrained, PbFrame, PbUnpause, PbAwake, PbDevice, PbNext, PbMuteMessage,
         PbClose, fields
    <3>2. pb'.pc \in {"read", "drained", "frame", "paused", "unpaused", "device", "written", "idle"}
      <4>1. CASE PbFrame
        BY <4>1 DEF PbFrame
      <4>2. CASE PbRead
        BY <4>2 DEF PbRead
      <4> QED
        BY <1>3, <2>2, <4>1, <4>2 DEF Play, PbReceive, PbNoDevice, PbOpen, PbFailStop, PbFailStopDecode,
           PbFail, PbBegin, PbDrained, PbUnpause, PbAwake, PbDevice, PbNext, PbMuteMessage, PbClose
    <3> QED
      BY <3>1, <3>2
  <2> QED
    BY <2>1, <2>2
<1> QED
  BY <1>1, <1>2, <1>3 DEF Next


\* Once the decoder has got a unit to put out, no seek is on its way any more.
LEMMA BegunKept ==
  ASSUME NEW p \in Nat, Shape, Tracked(p), Track(p), Next, ~PlaySet,
         Begun => NoSeek /\ "RESET" \notin preprocess_stream.flags
  PROVE  Begun' => NoSeek' /\ "RESET" \notin preprocess_stream'.flags
<1> USE DEF Shape, Track
<1>1. CASE Application
  <2>1. UNCHANGED <<pre, dec, playback_start>>
    BY <1>1, ApplicationLeaves DEF workers, Application, PlayCall, PlaySend, PlayWait, PlayCheck,
       InfoResume, StopCall, StopPreprocess, StopIdlePlayer, StopDecode, StopWait, StopReturn,
       DeviceStopCall, DeviceStopSend, DeviceStopWait, Pause, Resume, fields
  <2>2. Begun' <=> Begun
    BY <2>1 DEF Begun
  <2>3. Begun => UNCHANGED preprocess_queue
    <3>1. CASE PlaySend
      BY <3>1 DEF PlaySend, OnTheWay, Fresh, Begun
    <3> QED
      BY <1>1, <3>1 DEF Application, PlayCall, PlaySet, PlayWait, PlayCheck, InfoResume, StopCall,
         StopPreprocess, StopIdlePlayer, StopDecode, StopWait, StopReturn, DeviceStopCall,
         DeviceStopSend, DeviceStopWait, Pause, Resume, queues
  <2>4. preprocess_stream' \in {preprocess_stream, Stopped(preprocess_stream)}
    BY <1>1 DEF Application, PlayCall, PlaySet, PlaySend, PlayWait, PlayCheck, InfoResume, StopCall,
       StopPreprocess, StopIdlePlayer, StopDecode, StopWait, StopReturn, DeviceStopCall,
       DeviceStopSend, DeviceStopWait, Pause, Resume, streams, Places
  <2> QED
    BY <2>1, <2>2, <2>3, <2>4, EndedIs DEF NoSeek, PreCalm, StreamShape
<1>2. CASE Preprocess
  <2>1. dec'.pc = dec.pc
    <3>1. CASE PreStart
      BY <3>1 DEF PreStart, DecShape
    <3> QED
      BY <1>2, <3>1 DEF Preprocess, PreReceive, PreInit, PreInitFail, PreSend, PreResume, PrePoll,
         PreRead, PreEnd, PreTimeout, PreWrite
  <2>2. Begun' <=> Begun
    BY <1>2, <2>1, PreprocessLeaves DEF Begun
  <2>3. FeedsOn(p)
    BY <1>2, PreprocessFeedsOn DEF OnTheWay, Tracked
  <2>4. ASSUME Begun PROVE "RESET" \notin preprocess_stream'.flags
    <3>1. pre.pc \in {"wait", "poll", "read", "write"} /\ "RESET" \notin preprocess_stream.flags
      BY <2>4 DEF NoSeek, PreCalm
    <3>2. \/ preprocess_stream' \in {preprocess_stream, Stopped(preprocess_stream),
                                     Finished(preprocess_stream)}
          \/ preprocess_stream' = AfterWrite(preprocess_stream, pre.buf)
      BY <1>2, <3>1 DEF Preprocess, PreReceive, PreInit, PreInitFail, PreStart, PreSend, PreResume,
         PrePoll, PreRead, PreEnd, PreTimeout, PreWrite, streams
    <3> QED
      BY <3>1, <3>2, EndedIs, WrittenIs DEF StreamShape, PreShape
  <2> QED
    BY <2>2, <2>3, <2>4 DEF FeedsOn
<1>3. CASE Play
  <2>1. UNCHANGED <<preprocess_queue, pre, dec, playback_start>>
    BY <1>3, PlayLeaves
  <2>2. preprocess_stream' \in {preprocess_stream, Stopped(preprocess_stream)}
    BY <1>3 DEF Play, PbReceive, PbNoDevice, PbOpen, PbFailStop, PbFailStopDecode, PbFail, PbBegin,
       PbRead, PbDrained, PbFrame, PbUnpause, PbAwake, PbDevice, PbNext, PbIdle, PbMuteMessage,
       PbClose, streams
  <2> QED
    BY <2>1, <2>2, EndedIs DEF NoSeek, PreCalm, StreamShape, Begun
<1>4. CASE Decode
  <2>1. UNCHANGED <<pre, pb>>
    BY <1>4, DecodeLeaves
  <2>2. CASE DecInput
    <3>1. dec.pc = "input" /\ UNCHANGED <<preprocess_queue, playback_start>>
      BY <2>2 DEF DecInput, queues, fields
    <3>2. CASE playback_start = 1
      <4>1. preprocess_stream'.flags = preprocess_stream.flags
        BY <2>2, InputIs DEF DecInput
      <4> QED
        BY <2>1, <3>1, <3>2, <4>1 DEF Begun, NoSeek, PreCalm
    <3>3. CASE playback_start = 0
      <4>1. Live /\ Decodes /\ Held = 0
        BY <3>1, <3>3 DEF Live, Decodes, Held, CanHear, Waiting, Places
      <4>2. PICK i \in Nat : i = Decoded
        BY Numbers
      <4>3. Feed(p, i)
        <5>1. i = Decoded + Held
          BY <4>1, <4>2
        <5> QED
          BY <4>1, <5>1 DEF Playing
      <4>4. CASE dec' = [dec EXCEPT !.pc = "end_stop"]
        BY <3>1, <3>3, <4>4 DEF Begun, DecShape
      <4>5. CASE dec' # [dec EXCEPT !.pc = "end_stop"]
        <5>1. Len(preprocess_stream.data) >= 1 /\ preprocess_stream'.flags = preprocess_stream.flags
          BY <2>2, <4>5, InputIs DEF DecInput
        <5>2. Flowing(p, i)
          <6>1. preprocess_stream.data # <<>>
            BY <5>1
          <6> QED
            BY <4>3, <6>1 DEF Feed
        <5> QED
          BY <2>1, <3>1, <5>1, <5>2 DEF Flowing, NoSeek, PreCalm
      <4> QED
        BY <4>4, <4>5
    <3> QED
      BY <3>2, <3>3 DEF FieldShape
  <2>3. CASE ~DecInput /\ ~Begun
    <3>1. ~Begun'
      <4>1. dec.pc \notin {"output", "output_send", "output_mark", "write"} /\ playback_start # 1
        BY <2>3 DEF Begun
      <4>2. CASE DecHeader \/ DecInit
        <5>1. dec'.pc \in {"find", "init_seek", "fail_stop"} /\ UNCHANGED playback_start
          <6>1. CASE DecHeader
            <7>1. Input("find", "fail_stop") /\ UNCHANGED playback_start
              BY <6>1 DEF DecHeader, fields
            <7>2. \/ dec' = [dec EXCEPT !.pc = "fail_stop"]
                  \/ dec' = [dec EXCEPT !.pc = "find", !.buf = preprocess_stream.data[1]]
              BY <7>1, InputIs
            <7> QED
              BY <7>1, <7>2 DEF DecShape
          <6>2. CASE DecInit /\ Decoder = "wav"
            <7>1. Input("init_seek", "fail_stop") /\ UNCHANGED playback_start
              BY <6>2 DEF DecInit, fields
            <7>2. \/ dec' = [dec EXCEPT !.pc = "fail_stop"]
                  \/ dec' = [dec EXCEPT !.pc = "init_seek", !.buf = preprocess_stream.data[1]]
              BY <7>1, InputIs
            <7> QED
              BY <7>1, <7>2 DEF DecShape
          <6>3. CASE DecInit /\ Decoder # "wav"
            BY <6>3 DEF DecInit, fields, DecShape, DecGoto
          <6> QED
            BY <4>2, <6>1, <6>2, <6>3
        <5> QED
          BY <4>1, <5>1 DEF Begun
      <4>3. CASE DecInitSeek
        <5>1. Decoder \in {"wav", "pcm"}
          BY PlayerAssumption
        <5>2. CASE Decoder = "wav" /\ dec.buf.pos # 0
          BY <4>1, <4>3, <5>2 DEF DecInitSeek, fields, DecGoto, DecShape, Begun
        <5>3. CASE ~(Decoder = "wav" /\ dec.buf.pos # 0)
          BY <4>1, <4>3, <5>1, <5>3 DEF DecInitSeek, fields, DecGoto, DecShape, Begun
        <5> QED
          BY <5>2, <5>3
      <4>4. CASE ~DecHeader /\ ~DecInit /\ ~DecInitSeek
        BY <1>4, <2>3, <4>1, <4>4 DEF Decode, DecReceive, DecFind, DecSeekSend, DecSeekReset,
           CopyStart, DecFailStop, DecFail, DecStart, DecOutput, DecOutputSend, DecOutputMark,
           DecWrite, DecErrorStop, DecEndStop, DecEndFinish, DecEnd, Begun, DecGoto, DecShape, fields
      <4> QED
        BY <4>2, <4>3, <4>4
    <3> QED
      BY <3>1
  <2>4. CASE ~DecInput /\ Begun
    <3>1. ~Prepares /\ dec.pc # "start"
      BY <1>4, <2>4, DecodeOnTheWay DEF Begun, Places, Prepares, Decodes, Ends, Done
    <3>2. UNCHANGED preprocess_queue
      BY <1>4, <3>1 DEF Prepares, Decode, DecReceive, DecHeader, DecFind, DecSeekSend, DecSeekReset,
         DecInit, DecInitSeek, DecFailStop, DecFail, DecStart, DecInput, DecOutput, DecOutputSend,
         DecOutputMark, DecWrite, DecErrorStop, DecEndStop, DecEndFinish, DecEnd, queues
    <3>3. preprocess_stream' \in {preprocess_stream, Stopped(preprocess_stream)}
      BY <1>4, <2>4, <3>1 DEF Prepares, Decode, DecReceive, DecHeader, DecFind, DecSeekSend,
         DecSeekReset, DecInit, DecInitSeek, DecFailStop, DecFail, DecStart, DecOutput,
         DecOutputSend, DecOutputMark, DecWrite, DecErrorStop, DecEndStop, DecEndFinish, DecEnd, streams
    <3> QED
      BY <2>1, <2>4, <3>2, <3>3, EndedIs DEF NoSeek, PreCalm, StreamShape
  <2> QED
    BY <2>2, <2>3, <2>4
<1> QED
  BY <1>1, <1>2, <1>3, <1>4 DEF Next

\* Only the begin of a session makes a track run.
LEMMA NotRunning ==
  ASSUME NEW p \in Nat, Tracked(p), Next, ~Runs, ~PbBegin
  PROVE  ~Runs'
<1>1. CASE Application
  BY <1>1 DEF Runs, Application, PlayCall, PlaySet, PlaySend, PlayWait, PlayCheck, InfoResume, StopCall,
     StopPreprocess, StopIdlePlayer, StopDecode, StopWait, StopReturn, DeviceStopCall, DeviceStopSend,
     DeviceStopWait, Pause, Resume, fields
<1>2. CASE Preprocess
  BY <1>2 DEF Runs, Preprocess, PreReceive, PreInit, PreInitFail, PreStart, PreSend, PreResume, PrePoll,
     PreRead, PreEnd, PreTimeout, PreWrite, fields
<1>3. CASE Decode
  BY <1>3 DEF Runs, Decode, DecReceive, DecHeader, DecFind, DecSeekSend, DecSeekReset, DecInit,
     DecInitSeek, DecFailStop, DecFail, DecStart, DecInput, DecOutput, DecOutputSend, DecOutputMark,
     DecWrite, DecErrorStop, DecEndStop, DecEndFinish, DecEnd, fields
<1>4. CASE Play
  BY <1>4 DEF Runs, Tracked, Play, PbReceive, PbNoDevice, PbOpen, PbFailStop, PbFailStopDecode,
     PbFail, PbBegin, PbRead, PbDrained, PbFrame, PbUnpause, PbAwake, PbDevice, PbNext, PbIdle,
     PbMuteMessage, PbClose, fields
<1> QED
  BY <1>1, <1>2, <1>3, <1>4 DEF Next


LEMMA NextTrackStops ==
  ASSUME NEW p \in Nat, Shape, Shape', Tracked(p), Track(p), TrackStops, Next, ~PlaySet
  PROVE  TrackStops'
<1> USE DEF Shape, AppShape, AppGoto
<1>1. Begun' => NoSeek' /\ "RESET" \notin preprocess_stream'.flags
  BY BegunKept DEF TrackStops
<1>2. Over => Over'
  BY OverKept
\* a track runs when its session begins, and no more when that ends
<1>3. Runs' => InSession'
  <2>1. CASE StopReturn
    BY <2>1 DEF StopReturn, Runs
  <2>2. CASE Runs /\ ~StopReturn
    BY <2>2, RunsKept DEF TrackStops
  <2>3. CASE PbBegin
    BY <2>3 DEF PbBegin, InSession, PbShape
  <2>4. CASE ~Runs /\ ~PbBegin
    BY <2>4, NotRunning
  <2> QED
    BY <2>1, <2>2, <2>3, <2>4
<1>4. CASE Application
  <2>1. CASE StopPreprocess
    <3>1. /\ app'.pc = "stop_decode" /\ app'.found = state /\ UNCHANGED <<state, silent>>
      BY <2>1 DEF StopPreprocess, fields
    <3>2. app'.found \in {"RUNNING", "PAUSED"} => Runs'
      BY <3>1 DEF Runs
    <3> QED
      BY <1>1, <1>2, <1>3, <3>1, <3>2 DEF TrackStops
  <2>2. CASE StopDecode
    <3>1. /\ app.pc = "stop_decode" /\ app'.pc = "stop_wait" /\ app'.found = app.found
          /\ state' = IF state = "PAUSED" THEN "STOP" ELSE state
          /\ UNCHANGED silent
      BY <2>2 DEF StopDecode, history
    <3>2. Runs => Runs'
      BY <3>1 DEF Runs
    <3> QED
      BY <1>1, <1>2, <1>3, <3>1, <3>2 DEF TrackStops
  <2>3. CASE StopWait
    <3>1. /\ app.pc = "stop_wait" /\ app'.pc = "stop_idle" /\ app'.found = app.found
          /\ ~Runs /\ UNCHANGED silent
      BY <2>3 DEF StopWait, history, Tracked, Runs
    <3> QED
      BY <1>1, <1>2, <1>3, <3>1 DEF TrackStops
  <2>4. CASE StopReturn
    <3>1. /\ app.pc = "stop_idle" /\ app'.pc \notin {"stop_decode", "stop_wait", "stop_idle"}
      BY <2>4 DEF StopReturn, AfterStop
    <3>2. silent' => silent \/ app.found \in {"RUNNING", "PAUSED"}
      BY <2>4, Zenon DEF StopReturn
    <3> QED
      BY <1>1, <1>2, <1>3, <3>1, <3>2 DEF TrackStops
  <2>5. CASE ~StopPreprocess /\ ~StopDecode /\ ~StopWait /\ ~StopReturn
    <3>1. UNCHANGED silent
      BY <1>4, <2>5 DEF Application, PlayCall, PlaySend, PlayWait, PlayCheck, InfoResume, StopCall,
         StopIdlePlayer, DeviceStopCall, DeviceStopSend, DeviceStopWait, Pause, Resume, history
    <3>2. CASE Pause \/ Resume
      <4>1. app.pc = "idle" /\ UNCHANGED app
        BY <3>2 DEF Pause, Resume, caller
      <4> QED
        BY <1>1, <1>2, <1>3, <3>1, <4>1 DEF TrackStops
    <3>3. CASE ~Pause /\ ~Resume
      <4>1. app'.pc \notin {"stop_decode", "stop_wait", "stop_idle"}
        BY <1>4, <2>5, <3>3 DEF Application, PlayCall, PlaySend, PlayWait, PlayCheck, InfoResume,
           StopCall, StopIdlePlayer, DeviceStopCall, DeviceStopSend, DeviceStopWait, AfterStop
      <4> QED
        BY <1>1, <1>2, <1>3, <3>1, <4>1 DEF TrackStops
    <3> QED
      BY <3>2, <3>3
  <2> QED
    BY <2>1, <2>2, <2>3, <2>4, <2>5
<1>5. CASE ~Application
  <2>1. UNCHANGED <<app, silent>>
    <3>1. Preprocess => UNCHANGED silent
      BY DEF Preprocess, PreReceive, PreInit, PreInitFail, PreStart, PreSend, PreResume, PrePoll,
         PreRead, PreEnd, PreTimeout, PreWrite, history
    <3>2. Play => UNCHANGED silent
      BY DEF Play, PbReceive, PbNoDevice, PbOpen, PbFailStop, PbFailStopDecode, PbFail, PbBegin,
         PbRead, PbDrained, PbFrame, PbUnpause, PbAwake, PbDevice, PbNext, PbIdle, PbMuteMessage,
         PbClose, history
    <3> QED
      BY <1>5, <3>1, <3>2, PreprocessLeaves, DecodeLeaves, PlayLeaves DEF Next, caller, history
  <2>2. Runs => Runs' \/ Over'
    <3>1. ~StopReturn
      BY <1>5 DEF Application
    <3> QED
      BY <3>1, RunsKept DEF TrackStops
  <2> QED
    BY <1>1, <1>2, <1>3, <2>1, <2>2 DEF TrackStops
<1> QED
  BY <1>4, <1>5

\* A track begins without a stop, and an info_only one is never silent.
LEMMA NextStopInv ==
  ASSUME NEW p \in Nat, Shape, Shape', TrackInv(p), StopInv(p), [Next]_vars, [BeginsAtRest(p)]_vars
  PROVE  StopInv(p)'
<1> USE DEF Shape, StopInv
<1>1. CASE UNCHANGED vars
  BY <1>1 DEF vars, Tracked, Plain, TrackStops, Begun, NoSeek, PreCalm, Runs, InSession, Over, Waiting
<1>2. CASE PlaySet /\ plays' = p
  <2>1. /\ silent' = FALSE /\ playback_start' = 0
        /\ app'.pc = "play_send" /\ UNCHANGED <<state, dec, pb>>
    BY <1>2 DEF PlaySet, workers, AppGoto, AppShape
  <2>2. AtRest
    <3>1. UNCHANGED vars => ~PlaySet
      BY DEF vars, PlaySet, AppGoto, AppShape
    <3> QED
      BY <1>2, <3>1 DEF BeginsAtRest
  <2>3. ~Begun' /\ ~Runs'
    BY <2>1, <2>2 DEF Begun, Runs, AtRest
  <2> QED
    BY <2>1, <2>3 DEF TrackStops
<1>3. CASE PlaySet /\ plays' # p
  BY <1>3 DEF Tracked
<1>4. CASE Next /\ ~PlaySet
  <2>1. UNCHANGED <<plays, playback, start_time>>
    BY <1>4, SameTrack
  <2>2. Tracked(p) => TrackStops'
    BY <1>4, NextTrackStops DEF TrackInv
  <2>3. ASSUME playback = 0, ~silent PROVE ~silent'
    <3>1. CASE StopReturn
      <4>1. playback # 1
        BY <2>3
      <4>2. silent' = (silent \/ (playback = 1 /\ app.found \in {"RUNNING", "PAUSED"}))
        BY <3>1, Zenon DEF StopReturn
      <4> QED
        BY <2>3, <4>1, <4>2, Zenon
    <3>2. CASE ~StopReturn
      <4>1. UNCHANGED silent
        BY <1>4, <3>2 DEF Next, Application, PlayCall, PlaySend, PlayWait, PlayCheck, InfoResume,
           StopCall,
           StopPreprocess, StopIdlePlayer, StopDecode, StopWait, DeviceStopCall, DeviceStopSend,
           DeviceStopWait, Pause, Resume, history, Preprocess, PreReceive, PreInit, PreInitFail,
           PreStart, PreSend, PreResume, PrePoll, PreRead, PreEnd, PreTimeout, PreWrite, Decode,
           DecReceive, DecHeader, DecFind, DecSeekSend, DecSeekReset, DecInit, DecInitSeek, DecFailStop,
           DecFail, DecStart, DecInput, DecOutput, DecOutputSend, DecOutputMark, DecWrite, DecErrorStop,
           DecEndStop, DecEndFinish, DecEnd, Play, PbReceive, PbNoDevice, PbOpen, PbFailStop,
           PbFailStopDecode, PbFail, PbBegin, PbRead, PbDrained, PbFrame, PbUnpause, PbAwake, PbDevice,
           PbNext, PbIdle, PbMuteMessage, PbClose
      <4> QED
        BY <2>3, <4>1
    <3> QED
      BY <3>1, <3>2
  <2> QED
    BY <2>1, <2>2, <2>3 DEF Tracked, Plain
<1> QED
  BY <1>1, <1>2, <1>3, <1>4

LEMMA InitStopInv == ASSUME NEW p \in Nat PROVE Init => StopInv(p)
  BY DEF Init, StopInv, Tracked

\* Silence is for ever, or for the rest of the track.
LEMMA SilentStays ==
  ASSUME NEW p \in Nat, Shape, StopInv(p), Next, plays = p, Plain, silent
  PROVE  Len(heard') <= Len(heard)
<1>1. Over
  BY DEF StopInv, TrackStops, Tracked, Shape, FieldShape
<1>2. Len(heard) \in Nat
  BY Numbers
<1>3. CASE PlaySet
  BY <1>2, <1>3 DEF PlaySet
<1>4. CASE ~PlaySet
  <2>1. UNCHANGED heard
    BY <1>1, <1>4, ApplicationLeaves, PreprocessLeaves, DecodeLeaves DEF Next, Over, Play, PbReceive,
       PbNoDevice, PbOpen, PbFailStop, PbFailStopDecode, PbFail, PbBegin, PbRead, PbDrained, PbFrame,
       PbUnpause, PbAwake, PbDevice, PbNext, PbIdle, PbMuteMessage, PbClose, history
  <2> QED
    BY <1>2, <2>1
<1> QED
  BY <1>3, <1>4

\* Once a player_stop that found the track running or paused has returned, the device
\* gets nothing of it any more, whatever fails and whatever the workers still do, if
\* it began when they were at rest.
THEOREM TrackFallsSilent ==
  ASSUME NEW p \in Nat
  PROVE  Spec /\ [][BeginsAtRest(p)]_vars
           => [][plays = p /\ Plain /\ silent => Len(heard') <= Len(heard)]_vars
<1>1. Init => TrackInv(p) /\ StopInv(p)
  BY InitTrack, InitStopInv
<1>2. Shape /\ Shape' /\ TrackInv(p) /\ StopInv(p) /\ [Next]_vars /\ [BeginsAtRest(p)]_vars
        => TrackInv(p)' /\ StopInv(p)'
  BY NextTrack, NextStopInv
<1>3. Shape /\ StopInv(p) /\ [Next]_vars
        => [plays = p /\ Plain /\ silent => Len(heard') <= Len(heard)]_vars
  BY SilentStays
<1> QED
  BY <1>1, <1>2, <1>3, PlayerShape, PTL DEF Spec

\* one play at most, and not of play_pcm with a start position
FirstPlay == plays <= 1 /\ Plain

\* The first track always does, while there is no second play, unless it is one of
\* play_pcm with a start position.
THEOREM FirstTrackStops == Spec => ([]FirstPlay => StopSilences)
<1>1. Init => TrackInv(1) /\ StopInv(1)
  BY InitTrack, InitStopInv
<1>2. Shape /\ Shape' /\ NotYet /\ TrackInv(1) /\ StopInv(1) /\ [Next]_vars
        => TrackInv(1)' /\ StopInv(1)'
  BY NextTrack, NextStopInv, FirstBeginsAtRest
<1>3. Shape /\ NotYet /\ StopInv(1) /\ FirstPlay /\ [Next]_vars
        => [silent => Len(heard') <= Len(heard)]_vars
  <2> SUFFICES ASSUME Shape, NotYet, StopInv(1), FirstPlay, Next, silent
               PROVE  Len(heard') <= Len(heard)
    OBVIOUS
  <2>1. plays = 1 /\ Plain
    BY DEF Shape, FieldShape, NotYet, NothingYet, FirstPlay
  <2> QED
    BY <2>1, SilentStays
<1> QED
  BY <1>1, <1>2, <1>3, PlayerShape, PlayerNotYet, PTL DEF Spec, StopSilences


--------------------------------------------------------------------------------
(* A track is heard to its end. *)

\* no position lies behind the end of the file
InFile == /\ pre.next <= FileUnits /\ pre.cmd.pos <= FileUnits
          /\ start_time <= FileUnits /\ dec.start <= FileUnits
          /\ preprocess_queue # <<>> => Head(preprocess_queue).pos <= FileUnits

\* The decoder can still get all of the file, if nothing stops the stream.
Readies == dec.pc \in {"header", "find", "seek_header_send", "seek_header_reset", "init", "init_seek",
                       "seek_start_send", "seek_start_reset", "start"}
Taking  == CanHear /\ Decodes
Fed     == pre.pc = "send" \/ decode_queue # <<>> \/ Readies \/ Taking

\* The decoder has reset the stream for its seek to the header.
Arriving == dec.pc \in {"init", "init_seek", "start"} \/ Taking

\* A track that nobody stopped is in no stop, runs or is paused during its session,
\* and each stream that has finished was given all of the file.
TrackWhole(p) ==
  /\ app.pc \notin {"stop_decode", "stop_wait", "stop_idle"}
  /\ InSession => state \in {"RUNNING", "PAUSED"}
  /\ Fed => /\ "RUN" \in preprocess_stream.flags
            /\ preprocess_stream.flags \subseteq {"RUN", "FINISHED", "RESET"}
  /\ Arriving /\ "FINISHED" \in preprocess_stream.flags /\ "RESET" \notin preprocess_stream.flags
       /\ preprocess_stream.data # <<>>
       => preprocess_stream.data[Len(preprocess_stream.data)] = Unit(p, FileUnits - 1)
  /\ Taking => decode_stream.flags = {"RUN"}
  /\ Taking /\ Begun /\ "FINISHED" \in preprocess_stream.flags /\ preprocess_stream.data = <<>>
       => Decoded + Held = FileUnits
  /\ CanHear /\ Begun /\ (Ends \/ Done) => Decoded = FileUnits
  /\ pb.pc \in {"frame", "paused", "unpaused", "device", "written"} /\ Len(pb.buf) < FrameUnits
       => Arrived = FileUnits
  /\ pb.pc = "drained" \/ (pb.pc = "idle" /\ pb.info = "IDLE") => FirstHeard + Len(heard) = FileUnits

WholeInv(p) == InFile /\ (Tracked(p) /\ ~cut => TrackWhole(p))

LEMMA NextInFile == ASSUME Shape, InFile, [Next]_vars PROVE InFile'
<1> USE DEF Shape, InFile
<1>1. CASE PlaySet
  <2>1. start_time' \in 0 .. FileUnits - 1 /\ FileUnits \in Nat
    BY <1>1, PlayerAssumption DEF PlaySet
  <2> QED
    BY <1>1, <2>1 DEF PlaySet, workers, queues
<1>2. CASE PlaySend
  BY <1>2, PlayerAssumption DEF PlaySend, workers, fields, PlayMsg
<1>3. CASE Application /\ ~PlaySet /\ ~PlaySend
  BY <1>3 DEF Application, PlayCall, PlayWait, PlayCheck, InfoResume, StopCall, StopPreprocess,
     StopIdlePlayer, StopDecode, StopWait, StopReturn, DeviceStopCall, DeviceStopSend,
     DeviceStopWait, Pause, Resume, queues, fields, workers
<1>4. CASE Preprocess
  <2> USE DEF PreShape, PreGoto
  <2>0. UNCHANGED start_time /\ dec'.start = dec.start
    <3>1. CASE PreStart
      BY <1>4, <3>1, PreprocessLeaves DEF PreStart, DecShape
    <3> QED
      BY <1>4, <3>1, PreprocessLeaves DEF Preprocess, PreReceive, PreInit, PreInitFail, PreSend,
         PreResume, PrePoll, PreRead, PreEnd, PreTimeout, PreWrite
  <2>1. CASE PreReceive
    BY <2>0, <2>1 DEF PreReceive
  <2>2. CASE PreInit
    BY <2>0, <2>2 DEF PreInit, queues
  <2>3. CASE PreRead
    <3>1. pre.next \in Nat /\ FileUnits \in Nat /\ pre.next < FileUnits
      BY <2>3, PlayerAssumption DEF PreRead
    <3>2. pre'.next = pre.next + 1 /\ pre'.cmd = pre.cmd /\ UNCHANGED preprocess_queue
      BY <2>3 DEF PreRead, queues
    <3>3. pre'.next <= FileUnits
      BY <3>1, <3>2
    <3> QED
      BY <2>0, <3>2, <3>3
  <2>4. CASE PrePoll
    BY <2>0, <2>4 DEF PrePoll
  <2>5. CASE PreTimeout
    BY <2>0, <2>5 DEF PreTimeout, queues
  <2>6. CASE PreInitFail \/ PreStart \/ PreSend \/ PreResume \/ PreEnd \/ PreWrite
    BY <2>0, <2>6 DEF PreInitFail, PreStart, PreSend, PreResume, PreEnd, PreWrite, queues
  <2> QED
    BY <1>4, <2>1, <2>2, <2>3, <2>4, <2>5, <2>6 DEF Preprocess
<1>5. CASE Decode
  <2>0. UNCHANGED <<start_time, pre>>
    BY <1>5, DecodeLeaves
  <2>1. CASE DecSeekSend
    <3>1. preprocess_queue' \in {<<Seek(0)>>, <<Seek(dec.start)>>} /\ dec'.start = dec.start
      BY <2>1 DEF DecSeekSend, DecGoto, DecShape
    <3>2. Head(preprocess_queue').pos \in {0, dec.start}
      BY <3>1 DEF Seek
    <3> QED
      BY <2>0, <3>1, <3>2, PlayerAssumption
  <2>2. CASE ~DecSeekSend
    <3>1. UNCHANGED preprocess_queue
      BY <1>5, <2>2 DEF Decode, DecReceive, DecHeader, DecFind, DecSeekReset, DecInit, DecInitSeek,
         DecFailStop, DecFail, DecStart, DecInput, DecOutput, DecOutputSend, DecOutputMark, DecWrite,
         DecErrorStop, DecEndStop, DecEndFinish, DecEnd, queues
    <3>2. dec'.start \in {dec.start, start_time}
      BY <1>5, DecStartIs
    <3> QED
      BY <2>0, <3>1, <3>2
  <2> QED
    BY <2>1, <2>2
<1>6. CASE Play
  BY <1>6, PlayLeaves
<1>7. CASE UNCHANGED vars
  BY <1>7 DEF vars
<1> QED
  BY <1>1, <1>2, <1>3, <1>4, <1>5, <1>6, <1>7 DEF Next

\* There is a position that the decoder reads next.
LEMMA ArrivingFeeds ==
  ASSUME NEW p \in Nat, Shape, Tracked(p), Track(p), Arriving
  PROVE  \E i \in Nat : Feed(p, i) /\ (Taking => i = Decoded + Held)
<1>1. FirstHeard \in Nat /\ Decoded \in Nat /\ Held \in {0, 1}
  BY Numbers
<1>2. CASE Taking
  <2>1. PICK i \in Nat : i = Decoded + Held
    BY <1>1
  <2> QED
    BY <1>2, <2>1 DEF Taking, Track, Playing, Live
<1>3. CASE ~Taking /\ dec.pc = "init"
  BY <1>3 DEF Track, Preparing
<1>4. CASE ~Taking /\ dec.pc = "init_seek"
  BY <1>4 DEF Track, Preparing, Feed
<1>5. CASE ~Taking /\ dec.pc = "start"
  BY <1>1, <1>5 DEF Track, Preparing
<1> QED
  BY <1>2, <1>3, <1>4, <1>5 DEF Arriving

\* What the application does while nobody stops the track.
LEMMA ApplicationWhole ==
  ASSUME NEW p \in Nat, Shape, Shape', Tracked(p), Track(p), TrackWhole(p), Application, ~PlaySet,
         ~cut, ~cut'
  PROVE  TrackWhole(p)'
<1> USE DEF Shape, Track
<1>1. UNCHANGED <<decode_queue, pre, dec, pb, heard, start_time, playback_start>>
  BY ApplicationLeaves DEF workers, Application, PlayCall, PlaySend, PlayWait, PlayCheck, InfoResume,
     StopCall, StopPreprocess, StopIdlePlayer, StopDecode, StopWait, StopReturn, DeviceStopCall,
     DeviceStopSend, DeviceStopWait, Pause, Resume, fields
<1>2. ~StopPreprocess /\ ~StopDecode /\ ~StopWait /\ ~StopReturn /\ ~InfoResume
  BY DEF TrackWhole, StopPreprocess, StopDecode, StopWait, StopReturn, InfoResume, Places
<1>3. UNCHANGED <<preprocess_stream, decode_stream>>
  BY <1>2 DEF Application, PlayCall, PlaySend, PlayWait, PlayCheck, StopCall, StopIdlePlayer,
     DeviceStopCall, DeviceStopSend, DeviceStopWait, Pause, Resume, streams
<1>4. app'.pc \notin {"stop_decode", "stop_wait", "stop_idle"}
  <2> USE DEF AppShape, AppGoto
  <2>1. CASE PlayCall \/ PlaySend \/ PlayWait \/ PlayCheck \/ StopCall \/ StopIdlePlayer
    BY <2>1 DEF PlayCall, PlaySend, PlayWait, PlayCheck, StopCall, StopIdlePlayer, AfterStop
  <2>2. CASE DeviceStopCall(TRUE) \/ DeviceStopCall(FALSE) \/ DeviceStopSend \/ DeviceStopWait
    BY <2>2 DEF DeviceStopCall, DeviceStopSend, DeviceStopWait
  <2>3. CASE Pause \/ Resume
    BY <2>3 DEF Pause, Resume, caller, TrackWhole
  <2> QED
    BY <1>2, <2>1, <2>2, <2>3 DEF Application
<1>5. state' # state => state \in {"RUNNING", "PAUSED"} /\ state' \in {"RUNNING", "PAUSED"}
  BY <1>2 DEF Application, PlayCall, PlaySend, PlayWait, PlayCheck, StopCall, StopIdlePlayer,
     DeviceStopCall, DeviceStopSend, DeviceStopWait, Pause, Resume, fields
<1>6. play_queue' = <<"play">> => play_queue = <<"play">>
  <2>1. CASE DeviceStopSend
    BY <2>1 DEF DeviceStopSend
  <2> QED
    BY <1>2, <2>1 DEF Application, PlayCall, PlaySet, PlaySend, PlayWait, PlayCheck, StopCall,
       StopIdlePlayer, DeviceStopCall, DeviceStopWait, Pause, Resume, queues
<1>7. CanHear' => CanHear
  BY <1>1, <1>5, <1>6, CanHearKept
<1>8. /\ Decodes' = Decodes /\ Ends' = Ends /\ Done' = Done /\ Held' = Held /\ Begun' = Begun
      /\ Readies' = Readies /\ InSession' = InSession /\ FirstHeard' = FirstHeard
  BY <1>1 DEF Decodes, Ends, Done, Held, Begun, Readies, InSession, FirstHeard
<1>9. Arrived' = Arrived /\ Decoded' = Decoded
  BY <1>1, <1>3, <1>8 DEF Arrived, Decoded, InFrame
<1>10. (Taking' => Taking) /\ (Fed' => Fed) /\ (Arriving' => Arriving)
  BY <1>1, <1>7, <1>8 DEF Taking, Fed, Arriving
<1> QED
  BY <1>1, <1>3, <1>4, <1>5, <1>7, <1>8, <1>9, <1>10 DEF TrackWhole


\* The preprocess thread finishes the stream behind the last unit of the file.
LEMMA FinishedBehindLast ==
  ASSUME NEW p \in Nat, Shape, InFile, PreEnd, NEW i \in Nat, Flowing(p, i),
         preprocess_stream.flags = {"RUN"}
  PROVE  /\ i + Len(preprocess_stream.data) = FileUnits
         /\ preprocess_stream.data # <<>>
              => preprocess_stream.data[Len(preprocess_stream.data)] = Unit(p, FileUnits - 1)
<1> DEFINE s == preprocess_stream
           n == Len(s.data)
<1>1. n \in Nat /\ s.data \in Seq(Units) /\ pre.next \in Nat /\ FileUnits \in Nat
  BY LenProperties, PlayerAssumption DEF Shape, StreamShape, IsStream, PreShape
<1>2. pre.pc = "read" /\ pre.next >= FileUnits /\ pre.next <= FileUnits
  BY DEF PreEnd, InFile
<1>3. pre.next = i + n
  BY <1>2 DEF Flowing, Follows
<1>4. i + n = FileUnits
  BY <1>1, <1>2, <1>3
<1>5. ASSUME s.data # <<>> PROVE s.data[n] = Unit(p, FileUnits - 1)
  <2>1. n \in 1 .. n
    BY <1>1, <1>5, EmptySeq
  <2>2. s.data[n] = Unit(p, i + n - 1)
    BY <2>1 DEF Flowing, Follows, InOrder
  <2> QED
    BY <1>4, <2>2
<1> QED
  BY <1>4, <1>5

LEMMA PreprocessWhole ==
  ASSUME NEW p \in Nat, Shape, Shape', InFile, Tracked(p), Track(p), TrackStops, TrackWhole(p),
         Preprocess, ~cut, ~cut'
  PROVE  TrackWhole(p)'
<1> DEFINE s == preprocess_stream
<1> USE DEF Shape, Track
<1>1. UNCHANGED <<play_queue, decode_stream, playback_start, start_time, app, pb, heard>>
  BY PreprocessLeaves DEF caller
<1>2. dec'.pc = dec.pc /\ dec'.buf = dec.buf
  <2>1. CASE PreStart
    BY <2>1 DEF PreStart, DecShape
  <2> QED
    BY <2>1 DEF Preprocess, PreReceive, PreInit, PreInitFail, PreSend, PreResume, PrePoll, PreRead,
       PreEnd, PreTimeout, PreWrite
<1>3. state' \in {"RUNNING", "PAUSED"} => state \in {"RUNNING", "PAUSED"}
  BY DEF Preprocess, PreReceive, PreInit, PreInitFail, PreStart, PreSend, PreResume, PrePoll,
     PreRead, PreEnd, PreTimeout, PreWrite, fields
<1>4. InSession' => state' \in {"RUNNING", "PAUSED"}
  BY <1>1, SessionState DEF InSession, TrackWhole
<1>5. CanHear' => CanHear
  BY <1>1, <1>2, <1>3, CanHearKept
<1>6. /\ Decodes' = Decodes /\ Ends' = Ends /\ Done' = Done /\ Held' = Held /\ Begun' = Begun
      /\ Readies' = Readies /\ FirstHeard' = FirstHeard
      /\ Arrived' = Arrived /\ Decoded' = Decoded
  BY <1>1, <1>2 DEF Decodes, Ends, Done, Held, Begun, Readies, FirstHeard, Arrived, Decoded, InFrame
<1>7. (Taking' => Taking) /\ (Arriving' => Arriving) /\ (Arriving => Fed)
  BY <1>2, <1>5, <1>6 DEF Taking, Arriving, Fed, Readies
\* the stream, which only the end of the file finishes
<1>8. CASE PreStart
  <2>1. s'.flags = {"RUN"} /\ s'.data = <<>> /\ UNCHANGED decode_queue
    BY <1>8, StartedIs DEF PreStart, queues
  <2>2. dec.pc = "wait"
    BY <1>8 DEF PreStart, OnTheWay, PreHolds, Fresh
  <2>3. ~Arriving /\ ~Taking
    BY <2>2 DEF Arriving, Taking, Decodes
  <2> QED
    BY <1>1, <1>4, <1>5, <1>6, <1>7, <2>1, <2>3 DEF TrackWhole
<1>9. CASE PreEnd
  <2>1. /\ s'.flags = s.flags \cup {"FINISHED"} /\ s'.data = s.data
        /\ pre'.pc = "wait" /\ UNCHANGED decode_queue
    BY <1>9, EndedIs DEF PreEnd, StreamShape, PreGoto, PreShape, queues
  <2>2. Fed' => Fed
    BY <1>6, <1>7, <2>1 DEF Fed
  <2>3. ASSUME Arriving, "FINISHED" \notin s.flags, "RESET" \notin s.flags
        PROVE  /\ s.data # <<>> => s.data[Len(s.data)] = Unit(p, FileUnits - 1)
               /\ Taking /\ s.data = <<>> => Decoded + Held = FileUnits
    <3>1. s.flags = {"RUN"}
      BY <1>7, <2>3 DEF TrackWhole
    <3>2. PICK i \in Nat : Feed(p, i) /\ (Taking => i = Decoded + Held)
      BY <2>3, ArrivingFeeds
    <3>3. Flowing(p, i)
      BY <2>3, <3>2 DEF Feed
    <3>4. Len(<<>>) = 0 /\ i + 0 = i
      OBVIOUS
    <3> QED
      BY <1>9, <3>1, <3>2, <3>3, <3>4, FinishedBehindLast
  <2>4. Begun => "RESET" \notin s.flags
    BY DEF TrackStops
  <2>5. Taking => Arriving
    BY DEF Arriving
  <2> QED
    BY <1>1, <1>4, <1>5, <1>6, <1>7, <2>1, <2>2, <2>3, <2>4, <2>5 DEF TrackWhole
<1>10. CASE ~PreStart /\ ~PreEnd
  <2>1. Fed' => Fed
    <3>1. (pre.pc = "send" \/ decode_queue # <<>>)' => pre.pc = "send" \/ decode_queue # <<>>
      BY <1>10 DEF Preprocess, PreReceive, PreInit, PreInitFail, PreSend, PreResume, PrePoll, PreRead,
         PreTimeout, PreWrite, PreGoto, PreShape, queues
    <3> QED
      BY <1>6, <1>7, <3>1 DEF Fed
  <2>2. CASE PreResume
    <3>1. s'.flags = s.flags \ {"RESET"} /\ s'.data = s.data
      BY <2>2, ResetIs DEF PreResume, StreamShape
    <3>2. Arriving /\ "RESET" \in s.flags => s.data = <<>>
      BY ArrivingFeeds DEF Feed, Flowing
    <3>3. Begun => "RESET" \notin s.flags
      BY DEF TrackStops
    <3> QED
      BY <1>1, <1>4, <1>5, <1>6, <1>7, <2>1, <3>1, <3>2, <3>3 DEF TrackWhole
  <2>3. CASE PreWrite /\ s' # s
    <3>1. /\ s' = AfterWrite(s, pre.buf) /\ s.flags = {"RUN"}
      BY <2>3 DEF PreWrite, WriteStores
    <3>2. s'.flags = {"RUN"}
      BY <3>1, WrittenIs DEF StreamShape, PreShape
    <3> QED
      BY <1>1, <1>4, <1>5, <1>6, <1>7, <2>1, <3>1, <3>2 DEF TrackWhole
  <2>4. CASE ~PreResume /\ ~(PreWrite /\ s' # s)
    <3>1. UNCHANGED s
      <4>1. CASE PreTimeout
        BY <4>1 DEF PreTimeout
      <4> QED
        BY <1>10, <2>4, <4>1 DEF Preprocess, PreReceive, PreInit, PreInitFail, PreSend, PrePoll, PreRead,
           streams
    <3> QED
      BY <1>1, <1>4, <1>5, <1>6, <1>7, <2>1, <3>1 DEF TrackWhole
  <2> QED
    BY <2>2, <2>3, <2>4
<1> QED
  BY <1>8, <1>9, <1>10


\* The decoder makes nothing audible that was not.
LEMMA DecodeHears ==
  ASSUME NEW p \in Nat, Shape, Tracked(p), Track(p), Decode
  PROVE  CanHear' => CanHear
<1>1. UNCHANGED pb
  BY DecodeLeaves
<1>2. state' \in {"RUNNING", "PAUSED"} => state \in {"RUNNING", "PAUSED"}
  BY DEF Decode, DecReceive, DecHeader, DecFind, DecSeekSend, DecSeekReset, DecInit, DecInitSeek,
     DecFailStop, DecFail, DecStart, DecInput, DecOutput, DecOutputSend, DecOutputMark, DecWrite,
     DecErrorStop, DecEndStop, DecEndFinish, DecEnd, fields
<1>3. CASE DecOutputSend
  BY <1>1, <1>3 DEF DecOutputSend, Track, Places, CanHear, Waiting
<1>4. CASE DecOutputMark
  BY <1>1, <1>2, <1>4 DEF DecOutputMark, CanHear, Waiting, queues
<1>5. CASE ~DecOutputSend /\ ~DecOutputMark
  <2>1. UNCHANGED <<play_queue, playback_start>> /\ dec.pc # "output_mark"
    BY <1>5 DEF Decode, DecReceive, DecHeader, DecFind, DecSeekSend, DecSeekReset, DecInit,
       DecInitSeek, DecFailStop, DecFail, DecStart, DecInput, DecOutput, DecWrite, DecErrorStop,
       DecEndStop, DecEndFinish, DecEnd, queues, fields
  <2> QED
    BY <1>1, <1>2, <2>1 DEF CanHear, Waiting
<1> QED
  BY <1>3, <1>4, <1>5

\* the last unit stays the last one while the first is taken
LEMMA LastStays ==
  ASSUME StreamShape, NEW unit, NEW end, Input(unit, end), preprocess_stream'.data # <<>>
  PROVE  preprocess_stream'.data[Len(preprocess_stream'.data)]
           = preprocess_stream.data[Len(preprocess_stream.data)]
<1> DEFINE s == preprocess_stream
<1>1. CASE UNCHANGED s
  BY <1>1
<1>2. CASE s' # s
  <2>1. /\ IsStream(s') /\ Len(s.data) >= 1
        /\ Len(s'.data) = Len(s.data) - 1
        /\ \A k \in 1 .. Len(s'.data) : s'.data[k] = s.data[k + 1]
    BY <1>2, InputIs
  <2>2. Len(s'.data) \in Nat /\ Len(s'.data) # 0 /\ Len(s.data) \in Nat
    BY <2>1, EmptySeq, LenProperties DEF IsStream, StreamShape
  <2>3. Len(s'.data) \in 1 .. Len(s'.data) /\ Len(s'.data) + 1 = Len(s.data)
    BY <2>1, <2>2
  <2> QED
    BY <2>1, <2>3
<1> QED
  BY <1>1, <1>2

\* a decoder that gets a unit goes on with it, and one that does not ends
LEMMA InputGoes ==
  ASSUME StreamShape, DecShape, NEW unit, NEW end, Input(unit, end)
  PROVE  /\ dec'.pc \in {unit, end}
         /\ preprocess_stream'.flags = preprocess_stream.flags
         /\ preprocess_stream'.data # <<>> => preprocess_stream.data # <<>>
<1>1. CASE dec' = [dec EXCEPT !.pc = end] /\ UNCHANGED preprocess_stream
  BY <1>1 DEF DecShape
<1>2. CASE ~(dec' = [dec EXCEPT !.pc = end] /\ UNCHANGED preprocess_stream)
  <2>1. /\ dec' = [dec EXCEPT !.pc = unit, !.buf = preprocess_stream.data[1]]
        /\ Len(preprocess_stream.data) >= 1
        /\ preprocess_stream'.flags = preprocess_stream.flags
    BY <1>2, InputIs
  <2>2. preprocess_stream.data # <<>>
    BY <2>1
  <2> QED
    BY <2>1, <2>2 DEF DecShape
<1> QED
  BY <1>1, <1>2

\* Before the decoder decodes nothing is decided yet but what its stream holds.
LEMMA PreparingWhole ==
  ASSUME NEW p \in Nat, Shape, Tracked(p), Track(p), TrackWhole(p), Decode, Prepares
  PROVE  TrackWhole(p)'
<1> DEFINE s == preprocess_stream
<1> USE DEF Shape, Track, DecGoto, DecShape
<1>1. UNCHANGED <<start_time, app, pre, pb, heard>>
  BY DecodeLeaves DEF caller, history
<1>2. playback_start = 0
  <2>1. CASE dec.pc = "wait"
    BY <2>1, DecodeOnTheWay
  <2>2. CASE dec.pc # "wait"
    BY <2>2 DEF Prepares, Places, Decodes, Ends, Done, FieldShape
  <2> QED
    BY <2>1, <2>2
<1>3. UNCHANGED playback_start /\ pb.pc \in {"wait", "mute"}
  <2>1. UNCHANGED playback_start
    BY DEF Prepares, Decode, DecReceive, DecHeader, DecFind, DecSeekSend, DecSeekReset, DecInit,
       DecInitSeek, DecFailStop, DecFail, DecStart, DecInput, DecOutput, DecOutputSend, DecOutputMark,
       DecWrite, DecErrorStop, DecEndStop, DecEndFinish, DecEnd, fields
  <2> QED
    BY <1>2, <2>1 DEF Prepares, Places, Waiting
<1>4. app'.pc \notin {"stop_decode", "stop_wait", "stop_idle"}
  BY <1>1 DEF TrackWhole
<1>5. ASSUME dec'.pc \in {"wait", "header", "find", "seek_header_send", "seek_header_reset", "init",
                          "init_seek", "seek_start_send", "seek_start_reset", "fail_stop", "fail",
                          "start"},
             Fed' => /\ "RUN" \in s'.flags
                     /\ s'.flags \subseteq {"RUN", "FINISHED", "RESET"},
             dec'.pc \in {"init", "init_seek", "start"} /\ "FINISHED" \in s'.flags
               /\ "RESET" \notin s'.flags /\ s'.data # <<>>
               => s'.data[Len(s'.data)] = Unit(p, FileUnits - 1)
      PROVE  TrackWhole(p)'
  <2>1. ~Taking' /\ ~InSession' /\ ~Begun' /\ ~(Ends \/ Done)'
    BY <1>1, <1>2, <1>3, <1>5 DEF Taking, Decodes, InSession, Begun, Ends, Done
  <2>2. Arriving' => dec'.pc \in {"init", "init_seek", "start"}
    BY <2>1 DEF Arriving
  <2> QED
    BY <1>1, <1>3, <1>4, <1>5, <2>1, <2>2 DEF TrackWhole
<1>6. CASE DecReceive
  <2>1. UNCHANGED s /\ decode_queue # <<>> /\ dec'.pc \in {"wait", "header"}
    BY <1>6 DEF DecReceive, streams
  <2> QED
    BY <1>5, <2>1 DEF TrackWhole, Fed
<1>7. CASE DecHeader
  <2>1. dec.pc = "header" /\ Input("find", "fail_stop")
    BY <1>7 DEF DecHeader
  <2>2. dec'.pc \in {"find", "fail_stop"} /\ s'.flags = s.flags
    BY <2>1, InputGoes
  <2> QED
    BY <1>5, <2>1, <2>2 DEF TrackWhole, Fed, Readies
<1>8. CASE DecInit
  <2>1. dec.pc = "init"
    BY <1>8 DEF DecInit
  <2>2. Fed /\ Arriving
    BY <2>1 DEF Fed, Readies, Arriving
  <2>3. CASE Decoder = "wav"
    <3>1. Input("init_seek", "fail_stop")
      BY <1>8, <2>3 DEF DecInit
    <3>2. dec'.pc \in {"init_seek", "fail_stop"} /\ s'.flags = s.flags
      BY <3>1, InputGoes
    <3>3. s'.data # <<>> => s.data # <<>>
      BY <3>1, InputGoes
    <3>4. s'.data # <<>> => s'.data[Len(s'.data)] = s.data[Len(s.data)]
      BY <3>1, LastStays
    <3> QED
      BY <1>5, <2>2, <3>2, <3>3, <3>4 DEF TrackWhole
  <2>4. CASE Decoder # "wav"
    <3>1. dec'.pc = "init_seek" /\ UNCHANGED s
      BY <1>8, <2>4 DEF DecInit
    <3> QED
      BY <1>5, <2>2, <3>1 DEF TrackWhole
  <2> QED
    BY <2>3, <2>4
<1>9. CASE DecFind \/ DecSeekSend
  <2>1. UNCHANGED s /\ dec.pc \in {"find", "seek_header_send", "seek_start_send"}
    BY <1>9 DEF DecFind, DecSeekSend, streams
  <2>2. dec'.pc \in {"seek_header_send", "fail_stop", "seek_header_reset", "seek_start_reset"}
    BY <1>9 DEF DecFind, DecSeekSend
  <2>3. Fed
    BY <2>1 DEF Fed, Readies
  <2> QED
    BY <1>5, <2>1, <2>2, <2>3 DEF TrackWhole
<1>10. CASE DecInitSeek
  <2>1. UNCHANGED s /\ dec.pc = "init_seek"
    BY <1>10 DEF DecInitSeek, streams
  <2>2. dec'.pc \in {"fail_stop", "start", "seek_start_send"}
    <3>1. Decoder \in {"wav", "pcm"}
      BY PlayerAssumption
    <3>2. CASE Decoder = "wav" /\ dec.buf.pos # 0
      BY <1>10, <3>2 DEF DecInitSeek
    <3>3. CASE ~(Decoder = "wav" /\ dec.buf.pos # 0)
      BY <1>10, <3>1, <3>3 DEF DecInitSeek
    <3> QED
      BY <3>2, <3>3
  <2> QED
    BY <1>5, <2>1, <2>2 DEF TrackWhole, Fed, Readies, Arriving
<1>11. CASE DecSeekReset
  <2>1. dec.pc \in {"seek_header_reset", "seek_start_reset"} /\ dec'.pc \in {"init", "start"}
    BY <1>11 DEF DecSeekReset, CopyStart
  <2>2. s'.data = <<>> /\ s'.flags = (s.flags \ {"FINISHED"}) \cup {"RESET"}
    BY <1>11 DEF DecSeekReset, Reset
  <2>3. Fed
    BY <2>1 DEF Fed, Readies
  <2> QED
    BY <1>5, <2>1, <2>2, <2>3 DEF TrackWhole
<1>12. CASE DecFailStop \/ DecFail
  <2>1. dec.pc # "wait" /\ dec'.pc \in {"fail", "wait"} /\ UNCHANGED decode_queue
    BY <1>12 DEF DecFailStop, DecFail, queues
  <2>2. ~Fed'
    BY <1>1, <2>1 DEF Fed, Readies, Taking, Decodes, OnTheWay, PreHolds, Fresh
  <2> QED
    BY <1>5, <2>1, <2>2
<1> QED
  BY <1>6, <1>7, <1>8, <1>9, <1>10, <1>11, <1>12 DEF Prepares, Decode, DecStart, DecInput, DecOutput,
     DecOutputSend, DecOutputMark, DecWrite, DecErrorStop, DecEndStop, DecEndFinish, DecEnd

\* While the decoder decodes, it misses nothing of a file that is complete.
LEMMA DecodingWhole ==
  ASSUME NEW p \in Nat, Shape, Tracked(p), Track(p), TrackStops, TrackWhole(p), Decode, ~Prepares
  PROVE  TrackWhole(p)'
<1> DEFINE s == preprocess_stream
<1> USE DEF Shape, Track, DecGoto, DecShape
<1>1. UNCHANGED <<start_time, app, pre, pb, heard>>
  BY DecodeLeaves DEF caller, history
<1>2. UNCHANGED <<preprocess_queue, decode_queue>>
  BY DEF Prepares, Decode, DecReceive, DecHeader, DecFind, DecSeekSend, DecSeekReset, DecInit,
     DecInitSeek, DecFailStop, DecFail, DecStart, DecInput, DecOutput, DecOutputSend, DecOutputMark,
     DecWrite, DecErrorStop, DecEndStop, DecEndFinish, DecEnd, queues
<1>3. FirstHeard' = FirstHeard /\ Arrived' = Arrived
  BY <1>1 DEF FirstHeard, Arrived, InFrame
<1>4. CanHear' => CanHear
  BY DecodeHears
<1>5. InSession' => state' \in {"RUNNING", "PAUSED"}
  <2>1. InSession' <=> InSession
    BY <1>1 DEF InSession
  <2> QED
    BY <2>1, SessionState DEF TrackWhole
<1>6. pre.pc # "send" /\ decode_queue = <<>>
  BY DEF OnTheWay, PreHolds, Fresh, Prepares
<1>7. ASSUME dec'.pc \in {"input", "output", "output_send", "output_mark", "write", "error_stop",
                          "error_stop_pre", "end_stop", "end_finish", "end", "wait"},
             Taking' =>
               /\ "RUN" \in s'.flags /\ s'.flags \subseteq {"RUN", "FINISHED", "RESET"}
               /\ "FINISHED" \in s'.flags /\ "RESET" \notin s'.flags /\ s'.data # <<>>
                    => s'.data[Len(s'.data)] = Unit(p, FileUnits - 1)
               /\ decode_stream'.flags = {"RUN"}
               /\ Begun' /\ "FINISHED" \in s'.flags /\ s'.data = <<>>
                    => Decoded' + Held' = FileUnits,
             CanHear' /\ Begun' /\ (Ends \/ Done)' => Decoded' = FileUnits
      PROVE  TrackWhole(p)'
  <2>1. (Fed' => Taking') /\ (Arriving' => Taking')
    BY <1>1, <1>2, <1>6, <1>7 DEF Fed, Readies, Arriving
  <2>2. app'.pc \notin {"stop_decode", "stop_wait", "stop_idle"}
    BY <1>1 DEF TrackWhole
  <2>3. /\ pb'.pc \in {"frame", "paused", "unpaused", "device", "written"}
             /\ Len(pb'.buf) < FrameUnits => Arrived' = FileUnits
        /\ pb'.pc = "drained" \/ (pb'.pc = "idle" /\ pb'.info = "IDLE")
             => FirstHeard' + Len(heard') = FileUnits
    BY <1>1, <1>3 DEF TrackWhole
  <2> QED
    BY <1>5, <1>7, <2>1, <2>2, <2>3 DEF TrackWhole
<1>8. CASE DecStart
  <2>1. /\ dec.pc = "start" /\ dec'.pc = "input" /\ UNCHANGED <<s, playback_start>>
        /\ decode_stream'.flags = {"RUN"}
    BY <1>8, StartedIs DEF DecStart, fields
  <2>2. playback_start = 0
    BY <2>1 DEF Places, Decodes, Ends, Done, FieldShape
  <2>3. Fed /\ Arriving /\ ~Begun' /\ ~(Ends \/ Done)'
    BY <2>1, <2>2 DEF Fed, Readies, Arriving, Begun, Ends, Done
  <2> QED
    BY <1>7, <2>1, <2>3 DEF TrackWhole
<1>9. CASE DecInput
  <2>1. /\ dec.pc = "input" /\ Input("output", "end_stop")
        /\ UNCHANGED <<decode_stream, playback_start, state>>
    BY <1>9 DEF DecInput, fields
  <2>2. dec'.pc \in {"output", "end_stop"} /\ s'.flags = s.flags
    BY <2>1, InputGoes
  <2>3. Decodes /\ Held = 0 /\ Decoded' = Decoded /\ (CanHear => Taking)
    BY <1>3, <2>1 DEF Decodes, Held, Decoded, Taking
  <2>4. Taking => Fed /\ Arriving
    BY DEF Fed, Arriving
  <2>5. CASE dec'.pc = "end_stop"
    <3>1. ~Decodes' /\ (Begun' => Begun)
      BY <2>1, <2>5 DEF Decodes, Begun
    <3>2. ASSUME Taking, Begun PROVE Decoded = FileUnits
      <4>1. "STOPPED" \notin s.flags
        BY <2>4, <3>2 DEF TrackWhole
      <4>2. s.data = <<>>
        BY <2>1, <2>5, <4>1 DEF Input, Has
      <4>3. "FINISHED" \in s.flags
        <5>1. ~(Len(s.data) >= 1)
          BY <4>2
        <5> QED
          BY <2>1, <4>1, <5>1 DEF Input, ReadReturns, Has
      <4>4. Decoded + Held = FileUnits
        BY <3>2, <4>2, <4>3 DEF TrackWhole
      <4> QED
        BY <2>3, <4>4, Numbers
    <3> QED
      BY <1>4, <1>7, <2>3, <2>5, <3>1, <3>2 DEF Taking
  <2>6. CASE dec'.pc = "output"
    <3>1. /\ Len(s.data) >= 1 /\ IsStream(s')
          /\ Len(s'.data) = Len(s.data) - 1
          /\ \A k \in 1 .. Len(s'.data) : s'.data[k] = s.data[k + 1]
      <4>1. ~(dec' = [dec EXCEPT !.pc = "end_stop"])
        BY <2>6
      <4> QED
        BY <2>1, <4>1, InputIs
    <3>2. (Taking' => Taking) /\ Held' = 1 /\ ~(Ends \/ Done)'
      BY <1>4, <2>3, <2>6 DEF Taking, Held, Ends, Done
    <3>3. s.data # <<>> /\ (s'.data # <<>> => s'.data[Len(s'.data)] = s.data[Len(s.data)])
      <4>1. s.data # <<>>
        BY <3>1
      <4> QED
        BY <2>1, <4>1, LastStays
    <3>4. ASSUME Taking, "FINISHED" \in s.flags, s'.data = <<>> PROVE Decoded + 1 = FileUnits
      <4>1. PICK i \in Nat : i = Decoded
        BY Numbers
      <4>2. i = Decoded + Held
        BY <2>3, <4>1
      <4>3. Feed(p, i)
        BY <2>3, <3>4, <4>2 DEF Playing, Live, Taking
      <4>4. s.data[1] = Unit(p, i)
        <5>1. PICK j \in Nat : j = i + 1
          OBVIOUS
        <5>2. UNCHANGED <<pre, preprocess_queue>> /\ s'.flags = s.flags
          BY <1>1, <1>2, <2>2
        <5> QED
          BY <3>1, <4>3, <5>1, <5>2, TakingFeeds, SMTT(30)
      <4>5. "RESET" \notin s.flags
        BY <3>3, <4>3 DEF Feed, Flowing
      <4>6. s.data[Len(s.data)] = Unit(p, FileUnits - 1)
        BY <2>4, <3>3, <3>4, <4>5 DEF TrackWhole
      <4>7. Len(s.data) = 1
        <5>1. Len(s.data) \in Nat /\ Len(s'.data) = 0
          BY <3>4, LenProperties DEF StreamShape, IsStream
        <5>2. Len(s.data) - 1 = 0
          BY <3>1, <5>1
        <5>3. PICK n \in Nat : n = Len(s.data)
          BY <5>1
        <5>4. n - 1 = 0
          BY <5>2, <5>3
        <5>5. n = 1
          BY <5>4
        <5> QED
          BY <5>3, <5>5
      <4>8. i = FileUnits - 1
        BY <4>4, <4>6, <4>7 DEF Unit
      <4> QED
        BY <4>1, <4>8, PlayerAssumption
    <3> QED
      BY <1>7, <2>1, <2>2, <2>3, <2>4, <2>6, <3>2, <3>3, <3>4 DEF TrackWhole
  <2> QED
    BY <2>2, <2>5, <2>6
<1>10. CASE DecWrite
  <2>1. dec.pc = "write" /\ UNCHANGED <<s, playback_start, state>>
    BY <1>10 DEF DecWrite, fields
  <2>2. Decodes /\ Held = 1 /\ Begun /\ (Taking <=> CanHear)
    BY <2>1 DEF Decodes, Held, Begun, Taking
  <2>3. CASE Taking
    <3>1. decode_stream.flags = {"RUN"} /\ Fed /\ Arriving
      BY <2>3 DEF TrackWhole, Fed, Arriving
    <3>2. /\ dec'.pc = "input"
          /\ decode_stream' = AfterWrite(decode_stream, dec.buf)
      BY <1>10, <3>1 DEF DecWrite, WriteIgnored, WriteStopped, Has
    <3>3. /\ decode_stream'.data = Append(decode_stream.data, dec.buf)
          /\ decode_stream'.flags = {"RUN"}
      BY <3>1, <3>2, WrittenIs DEF StreamShape
    <3>4. Len(decode_stream'.data) = Len(decode_stream.data) + 1
      BY <3>3, Numbers, AppendProperties
    <3>5. Held' = 0 /\ ~(Ends \/ Done)'
      BY <3>2 DEF Held, Ends, Done
    <3>6. Decoded' + Held' = Decoded + Held
      BY <1>3, <2>2, <3>4, <3>5, Numbers DEF Decoded
    <3> QED
      BY <1>7, <2>1, <2>2, <2>3, <3>1, <3>2, <3>3, <3>5, <3>6 DEF TrackWhole
  <2>4. CASE ~Taking
    <3>1. dec'.pc \in {"input", "error_stop", "end_stop"}
      BY <1>10 DEF DecWrite
    <3> QED
      BY <1>4, <1>7, <2>2, <2>4, <3>1 DEF Taking
  <2> QED
    BY <2>3, <2>4
<1>11. CASE DecOutput \/ DecOutputSend \/ DecOutputMark
  <2>1. /\ dec.pc \in {"output", "output_send", "output_mark"}
        /\ dec'.pc \in {"output_send", "output_mark", "write"}
        /\ UNCHANGED <<s, decode_stream>>
    BY <1>11 DEF DecOutput, DecOutputSend, DecOutputMark, streams
  <2>2. /\ Decodes /\ Begun /\ Held' = Held /\ Decoded' = Decoded
        /\ ~(Ends \/ Done)'
    BY <1>3, <2>1 DEF Decodes, Begun, Held, Decoded, Ends, Done
  <2>3. Taking' => Taking /\ Fed /\ Arriving
    BY <1>4, <2>2 DEF Taking, Fed, Arriving
  <2> QED
    BY <1>7, <2>1, <2>2, <2>3 DEF TrackWhole
<1>12. CASE DecErrorStop \/ DecEndStop \/ DecEndFinish \/ DecEnd
  <2>1. /\ dec.pc \in {"error_stop", "error_stop_pre", "end_stop", "end_finish", "end"}
        /\ dec'.pc \in {"error_stop_pre", "end_finish", "end", "wait"}
        /\ UNCHANGED playback_start
    BY <1>12 DEF DecErrorStop, DecEndStop, DecEndFinish, DecEnd, fields
  <2>2. decode_stream'.data = decode_stream.data
    BY <1>12, EndedIs DEF DecErrorStop, DecEndStop, DecEndFinish, DecEnd, streams, StreamShape
  <2>3. Ends /\ Decoded' = Decoded /\ ~Decodes' /\ (Begun' => Begun)
    BY <1>3, <2>1, <2>2 DEF Ends, Decoded, Decodes, Begun
  <2>4. ~Taking'
    BY <2>3 DEF Taking
  <2>5. CanHear' /\ Begun' /\ (Ends \/ Done)' => Decoded' = FileUnits
    BY <1>4, <2>3 DEF TrackWhole
  <2> QED
    BY <1>7, <2>1, <2>4, <2>5
<1> QED
  BY <1>8, <1>9, <1>10, <1>11, <1>12 DEF Prepares, Decode, DecReceive, DecHeader, DecFind, DecSeekSend,
     DecSeekReset, DecInit, DecInitSeek, DecFailStop, DecFail

\* A short read is the rest of the stream.
LEMMA ReadShort ==
  ASSUME NEW s, IsStream(s), NEW n \in Nat, Len(ReadUnits(s, n)) < n
  PROVE  Len(ReadUnits(s, n)) = Len(s.data) /\ ~(Len(s.data) >= n)
<1> DEFINE c == ReadCount(s, n)
<1>1. s.data \in Seq(Units) /\ Len(s.data) \in Nat
  BY LenProperties DEF IsStream
<1>2. CASE Len(s.data) < n
  <2>1. c = Len(s.data) /\ c \in 0 .. Len(s.data)
    BY <1>1, <1>2 DEF ReadCount
  <2>2. ReadUnits(s, n) = SubSeq(s.data, 1, c)
    BY DEF ReadUnits
  <2> HIDE DEF c
  <2>3. \A k \in 1 .. c : s.data[k] \in Units
    BY <1>1, <2>1, ElementOfSeq
  <2>4. Len(SubSeq(s.data, 1, c)) = c
    BY <1>1, <2>1, <2>3, SubSeqProperties
  <2> QED
    BY <1>1, <1>2, <2>1, <2>2, <2>4
<1>3. CASE ~(Len(s.data) < n)
  <2>1. c = n /\ c \in 0 .. Len(s.data)
    BY <1>1, <1>3 DEF ReadCount
  <2>2. ReadUnits(s, n) = SubSeq(s.data, 1, c)
    BY DEF ReadUnits
  <2> HIDE DEF c
  <2>3. \A k \in 1 .. c : s.data[k] \in Units
    BY <1>1, <2>1, ElementOfSeq
  <2>4. Len(SubSeq(s.data, 1, c)) = c
    BY <1>1, <2>1, <2>3, SubSeqProperties
  <2> QED
    BY <2>1, <2>2, <2>4
<1> QED
  BY <1>2, <1>3

\* The playback thread makes nothing audible that was not, and a session goes
\* on in the state it has, until its end.
LEMMA PlayHears ==
  ASSUME NEW p \in Nat, Shape, Tracked(p), Track(p), Play
  PROVE  /\ CanHear' => CanHear
         /\ state' # state => PbFail \/ PbBegin \/ PbIdle
<1> USE DEF Shape, Track, PbGoto, PbShape
<1>1. Waiting' = Waiting
  BY PlayLeaves DEF Waiting
<1>2. ~PbNoDevice
  BY DEF PbNoDevice, Tracked
<1>3. state' # state => PbFail \/ PbBegin \/ PbIdle
  BY <1>2 DEF Play, PbReceive, PbOpen, PbFailStop, PbFailStopDecode, PbRead, PbDrained, PbFrame,
     PbUnpause, PbAwake, PbDevice, PbNext, PbMuteMessage, PbClose, fields
<1>4. CASE PbReceive \/ PbMuteMessage \/ PbClose
  <2>1. pb.pc \in {"wait", "mute"}
    BY <1>4, Listens
  <2>2. \/ play_queue = <<"play">>
        \/ /\ pb'.pc = "wait"
           /\ play_queue' = <<"play">> => play_queue = <<"play">>
    BY <1>4, Listens
  <2>3. CASE play_queue = <<"play">>
    BY <1>3, <2>1, <2>3 DEF CanHear
  <2>4. CASE pb'.pc = "wait" /\ (play_queue' = <<"play">> => play_queue = <<"play">>)
    BY <1>1, <1>3, <2>1, <2>4 DEF CanHear
  <2> QED
    BY <2>2, <2>3, <2>4
<1>5. CASE PbFail \/ PbIdle \/ PbFailStop \/ PbFailStopDecode \/ PbDrained
  <2>1. /\ pb.pc \notin {"wait", "mute", "begin", "open"}
        /\ pb'.pc \in {"wait", "mute", "fail", "fail_stop_decode", "idle"} /\ UNCHANGED play_queue
    BY <1>5 DEF PbFail, PbIdle, PbFailStop, PbFailStopDecode, PbDrained, queues
  <2>2. play_queue # <<"play">> /\ ~Waiting
    BY <2>1 DEF Places
  <2> QED
    BY <1>1, <1>3, <2>1, <2>2 DEF CanHear
<1>6. CASE PbOpen \/ PbBegin
  BY <1>3, <1>6 DEF PbOpen, PbBegin, CanHear
<1>7. CASE PbRead \/ PbFrame \/ PbUnpause \/ PbAwake \/ PbDevice \/ PbNext
  <2>1. /\ pb.pc \in {"read", "frame", "paused", "unpaused", "device", "written"}
        /\ UNCHANGED state
    BY <1>7 DEF PbRead, PbFrame, PbUnpause, PbAwake, PbDevice, PbNext, fields
  <2>2. pb'.pc \in {"read", "frame", "paused", "unpaused", "device", "written", "idle", "drained"}
    <3>1. CASE PbFrame
      BY <3>1 DEF PbFrame
    <3>2. CASE PbRead
      BY <3>2 DEF PbRead
    <3> QED
      BY <1>7, <3>1, <3>2 DEF PbUnpause, PbAwake, PbDevice, PbNext
  <2> QED
    BY <1>3, <2>1, <2>2 DEF CanHear
<1> QED
  BY <1>2, <1>3, <1>4, <1>5, <1>6, <1>7 DEF Play

\* A session that nobody stops hears all that its stream was given.
LEMMA PlayWhole ==
  ASSUME NEW p \in Nat, Shape, Tracked(p), Track(p), TrackStops, TrackWhole(p), Play
  PROVE  TrackWhole(p)'
<1> DEFINE s == preprocess_stream
<1> USE DEF Shape, Track, PbGoto, PbShape
<1>1. UNCHANGED <<preprocess_queue, decode_queue, playback_start, start_time, app, pre, dec>>
  BY PlayLeaves DEF caller
<1>2. /\ FirstHeard' = FirstHeard /\ Held' = Held /\ Decodes' = Decodes /\ Ends' = Ends
      /\ Done' = Done /\ Begun' = Begun /\ Readies' = Readies
  BY <1>1 DEF FirstHeard, Held, Decodes, Ends, Done, Begun, Readies
<1>3. (CanHear' => CanHear) /\ (Taking' => Taking) /\ (Arriving' => Arriving) /\ (Fed' => Fed)
  <2>1. CanHear' => CanHear
    BY PlayHears
  <2> QED
    BY <1>1, <1>2, <2>1 DEF Taking, Arriving, Fed
<1>4. (Fed' \/ Arriving' \/ Taking') => UNCHANGED s
  <2>1. CASE PbFailStop
    <3>1. pb.pc = "fail_stop" /\ pb'.pc = "fail_stop_decode"
      BY <2>1 DEF PbFailStop
    <3>2. ~CanHear' /\ ~Waiting
      BY <3>1 DEF CanHear, Places
    <3>3. ~Readies /\ pre.pc # "send" /\ decode_queue = <<>>
      BY <3>1, <3>2 DEF Readies, Waiting, FieldShape, Places, Decodes, Ends, Done, OnTheWay,
         PreHolds, Fresh
    <3> QED
      BY <1>1, <1>2, <3>2, <3>3 DEF Fed, Arriving, Taking, Readies
  <2> QED
    BY <2>1 DEF Play, PbReceive, PbNoDevice, PbOpen, PbFailStopDecode, PbFail, PbBegin, PbRead,
       PbDrained, PbFrame, PbUnpause, PbAwake, PbDevice, PbNext, PbIdle, PbMuteMessage, PbClose, streams
<1>5. CanHear' => decode_stream'.flags = decode_stream.flags
  <2>1. CASE PbRead
    <3>1. decode_stream' \in {decode_stream, AfterRead(decode_stream, FrameUnits)}
      BY <2>1 DEF PbRead
    <3> QED
      BY <3>1, ReadIs, PlayerAssumption DEF StreamShape
  <2>2. CASE PbFailStopDecode \/ PbDrained
    BY <2>2 DEF PbFailStopDecode, PbDrained, CanHear
  <2> QED
    BY <2>1, <2>2 DEF Play, PbReceive, PbNoDevice, PbOpen, PbFailStop, PbFail, PbBegin, PbFrame,
       PbUnpause, PbAwake, PbDevice, PbNext, PbIdle, PbMuteMessage, PbClose, streams
<1>6. InSession' => state' \in {"RUNNING", "PAUSED"}
  <2>1. CASE PbBegin
    BY <2>1 DEF PbBegin
  <2>2. CASE ~PbBegin
    <3>1. InSession' => InSession
      BY <2>2 DEF InSession, Play, PbReceive, PbNoDevice, PbOpen, PbFailStop, PbFailStopDecode, PbFail,
         PbRead, PbDrained, PbFrame, PbUnpause, PbAwake, PbDevice, PbNext, PbIdle, PbMuteMessage,
         PbClose
    <3>2. InSession' => ~PbFail /\ ~PbIdle
      BY DEF InSession, PbFail, PbIdle
    <3> QED
      BY <2>2, <3>1, <3>2, PlayHears DEF TrackWhole
  <2> QED
    BY <2>1, <2>2
<1>7. ASSUME CanHear' => Decoded' = Decoded,
             pb'.pc \in {"frame", "paused", "unpaused", "device", "written"}
               /\ Len(pb'.buf) < FrameUnits => Arrived' = FileUnits,
             pb'.pc = "drained" \/ (pb'.pc = "idle" /\ pb'.info = "IDLE")
               => FirstHeard' + Len(heard') = FileUnits
      PROVE  TrackWhole(p)'
  <2>1. app'.pc \notin {"stop_decode", "stop_wait", "stop_idle"}
    BY <1>1 DEF TrackWhole
  <2>2. Fed' => "RUN" \in s'.flags /\ s'.flags \subseteq {"RUN", "FINISHED", "RESET"}
    BY <1>3, <1>4 DEF TrackWhole
  <2>3. Arriving' /\ "FINISHED" \in s'.flags /\ "RESET" \notin s'.flags /\ s'.data # <<>>
          => s'.data[Len(s'.data)] = Unit(p, FileUnits - 1)
    BY <1>3, <1>4 DEF TrackWhole
  <2>4. /\ Taking' => decode_stream'.flags = {"RUN"}
        /\ Taking' /\ Begun' /\ "FINISHED" \in s'.flags /\ s'.data = <<>>
             => Decoded' + Held' = FileUnits
    <3>1. Taking' => CanHear' /\ Taking
      BY <1>3 DEF Taking
    <3> QED
      BY <1>2, <1>4, <1>5, <1>7, <3>1 DEF TrackWhole
  <2>5. CanHear' /\ Begun' /\ (Ends \/ Done)' => Decoded' = FileUnits
    BY <1>2, <1>3, <1>7 DEF TrackWhole
  <2> QED
    BY <1>6, <1>7, <2>1, <2>2, <2>3, <2>4, <2>5 DEF TrackWhole
<1>8. CASE PbReceive \/ PbMuteMessage \/ PbClose \/ PbOpen \/ PbBegin
  <2>1. /\ pb.pc \in {"wait", "mute", "open", "begin"} /\ UNCHANGED <<heard, decode_stream>>
        /\ pb'.pc \in {"wait", "open", "begin", "fail_stop", "read"}
    <3>1. CASE PbOpen \/ PbBegin
      BY <3>1 DEF PbOpen, PbBegin, history, streams
    <3> QED
      BY <1>8, <3>1, Listens
  <2>2. InFrame = 0 /\ InFrame' = 0
    BY <2>1 DEF InFrame
  <2> QED
    BY <1>2, <1>7, <2>1, <2>2 DEF Decoded, Arrived
<1>9. CASE PbFailStop \/ PbFailStopDecode \/ PbFail \/ PbIdle
  <2>1. /\ pb.pc \in {"fail_stop", "fail_stop_decode", "fail", "idle"}
        /\ pb'.pc \in {"wait", "mute", "fail", "fail_stop_decode"}
    BY <1>9 DEF PbFailStop, PbFailStopDecode, PbFail, PbIdle
  <2>2. ~CanHear'
    BY <1>3, <2>1 DEF CanHear
  <2> QED
    BY <1>7, <2>1, <2>2
<1>10. CASE PbRead
  <2>1. pb.pc = "read" /\ UNCHANGED heard /\ ReadReturns(decode_stream, FrameUnits)
    BY <1>10 DEF PbRead, history
  <2>2. InSession /\ ~Waiting /\ Begun /\ CanHear
    BY <2>1, Sessions DEF InSession, TrackWhole, CanHear
  <2>3. CASE Has(decode_stream, "STOPPED")
    <3>1. pb'.pc = "idle" /\ pb'.info = "STOP"
      BY <1>10, <2>3 DEF PbRead
    <3>2. ~CanHear'
      BY <3>1 DEF CanHear
    <3> QED
      BY <1>7, <3>1, <3>2
  <2>4. CASE ~Has(decode_stream, "STOPPED")
    <3> DEFINE got  == ReadUnits(decode_stream, FrameUnits)
               rest == AfterRead(decode_stream, FrameUnits)
    <3>1. /\ pb'.buf = got /\ decode_stream' = rest
          /\ pb'.pc = IF decode_stream.data = <<>> THEN "drained" ELSE "frame"
      BY <1>10, <2>4 DEF PbRead
    <3>2. FrameUnits \in Nat \ {0} /\ FileUnits \in Nat
      BY PlayerAssumption
    <3>3. IsStream(rest) /\ got \in Seq(Units) /\ Len(got) + Len(rest.data) = Len(decode_stream.data)
      BY <3>2, ReadIs DEF StreamShape
    <3>4. Len(got) \in Nat /\ Len(rest.data) \in Nat
      BY <3>3, LenProperties DEF IsStream
    <3>5. Len(got) < FrameUnits => Len(got) = Len(decode_stream.data)
                                   /\ ~(Len(decode_stream.data) >= FrameUnits)
      BY <3>2, ReadShort DEF StreamShape
    <3> HIDE DEF got, rest
    <3>6. Arrived = FirstHeard + Len(heard) /\ Decoded = Arrived + Len(decode_stream.data)
      BY <2>1, Numbers DEF Arrived, InFrame, Decoded
    <3>7. ASSUME ~(Len(decode_stream.data) >= FrameUnits) PROVE Decoded = FileUnits
      <4>1. "FINISHED" \in decode_stream.flags
        BY <2>1, <2>4, <3>7 DEF ReadReturns, Has
      <4>2. ~Decodes
        BY <2>2, <4>1 DEF TrackWhole, Taking
      <4>3. Ends \/ Done
        BY <2>2, <4>2 DEF Begun, Decodes, Places
      <4> QED
        BY <2>2, <4>3 DEF TrackWhole
    <3>8. CASE decode_stream.data = <<>>
      <4>1. pb'.pc = "drained"
        BY <3>1, <3>8
      <4>2. Len(decode_stream.data) = 0
        BY <3>8
      <4>3. ~(Len(decode_stream.data) >= FrameUnits)
        BY <3>2, <4>2
      <4>4. FirstHeard + Len(heard) = FileUnits
        BY <3>6, <3>7, <4>2, <4>3, Numbers
      <4>5. ~CanHear'
        BY <4>1 DEF CanHear
      <4> QED
        BY <1>2, <1>7, <2>1, <4>1, <4>4, <4>5
    <3>9. CASE decode_stream.data # <<>>
      <4>1. pb'.pc = "frame"
        BY <3>1, <3>9
      <4>2. Arrived' = Arrived + Len(got)
        BY <1>2, <2>1, <3>1, <3>4, <3>6, <4>1, Numbers DEF Arrived, InFrame
      <4>3. Decoded' = Decoded
        BY <3>1, <3>3, <3>4, <3>6, <4>2, Numbers DEF Decoded
      <4>4. Len(got) < FrameUnits => Arrived' = FileUnits
        BY <3>5, <3>6, <3>7, <4>2
      <4> QED
        BY <1>7, <3>1, <4>1, <4>3, <4>4
    <3> QED
      BY <3>8, <3>9
  <2> QED
    BY <2>3, <2>4
<1>11. CASE PbDrained
  <2>1. pb.pc = "drained" /\ pb'.pc = "idle" /\ UNCHANGED heard
    BY <1>11 DEF PbDrained, history
  <2>2. ~CanHear'
    BY <2>1 DEF CanHear
  <2> QED
    BY <1>2, <1>7, <2>1, <2>2 DEF TrackWhole
<1>12. CASE PbFrame \/ PbUnpause \/ PbAwake
  <2>1. /\ pb.pc \in {"frame", "paused", "unpaused"} /\ UNCHANGED <<heard, decode_stream, state>>
    BY <1>12 DEF PbFrame, PbUnpause, PbAwake, history, streams, fields
  <2>2. state \in {"RUNNING", "PAUSED"}
    BY <2>1 DEF InSession, TrackWhole
  <2>3. pb'.pc \in {"device", "paused", "unpaused"} /\ pb'.buf = pb.buf
    <3>1. CASE PbFrame /\ state = "RUNNING"
      BY <3>1 DEF PbFrame
    <3>2. CASE PbFrame /\ state = "PAUSED"
      BY <3>2 DEF PbFrame
    <3>3. CASE PbUnpause \/ PbAwake
      BY <2>2, <3>3 DEF PbUnpause, PbAwake
    <3> QED
      BY <1>12, <2>2, <3>1, <3>2, <3>3
  <2>4. InFrame' = InFrame
    BY <2>1, <2>3 DEF InFrame
  <2>5. Arrived' = Arrived /\ Decoded' = Decoded
    BY <1>2, <2>1, <2>4 DEF Arrived, Decoded
  <2> QED
    BY <1>7, <2>1, <2>3, <2>5 DEF TrackWhole
<1>13. CASE PbDevice
  <2>1. /\ pb.pc = "device" /\ pb'.pc = "written" /\ pb'.buf = pb.buf /\ heard' = heard \o pb.buf
        /\ UNCHANGED decode_stream
    BY <1>13 DEF PbDevice, streams
  <2>2. Len(heard \o pb.buf) = Len(heard) + Len(pb.buf)
    BY Numbers, ConcatProperties
  <2>3. Arrived' = Arrived
    BY <1>2, <2>1, <2>2, Numbers DEF Arrived, InFrame
  <2>4. Decoded' = Decoded
    BY <2>1, <2>3 DEF Decoded
  <2> QED
    BY <1>7, <2>1, <2>3, <2>4 DEF TrackWhole
<1>14. CASE PbNext
  <2>1. /\ pb.pc = "written" /\ UNCHANGED <<heard, decode_stream>>
        /\ pb'.pc = IF Len(pb.buf) < FrameUnits THEN "idle" ELSE "read"
    BY <1>14 DEF PbNext, history, streams
  <2>2. InFrame = 0 /\ InFrame' = 0
    BY <2>1 DEF InFrame
  <2>3. Arrived' = Arrived /\ Decoded' = Decoded /\ Arrived = FirstHeard + Len(heard)
    BY <1>2, <2>1, <2>2, Numbers DEF Arrived, Decoded
  <2>4. Len(pb.buf) < FrameUnits => FirstHeard + Len(heard) = FileUnits
    BY <2>1, <2>3 DEF TrackWhole
  <2> QED
    BY <1>2, <1>7, <2>1, <2>3, <2>4
<1>15. ~PbNoDevice
  BY DEF PbNoDevice, Tracked
<1> QED
  BY <1>8, <1>9, <1>10, <1>11, <1>12, <1>13, <1>14, <1>15 DEF Play

LEMMA NextWholeInv ==
  ASSUME NEW p \in Nat, Shape, Shape', TrackInv(p), StopInv(p), WholeInv(p), [Next]_vars,
         [BeginsAtRest(p)]_vars
  PROVE  WholeInv(p)'
<1>1. InFile'
  BY NextInFile DEF WholeInv
<1>2. CASE UNCHANGED vars
  <2>1. Tracked(p)' = Tracked(p) /\ UNCHANGED cut
    BY <1>2 DEF vars, Tracked, Plain
  <2>2. /\ InSession' = InSession /\ Begun' = Begun /\ Readies' = Readies /\ CanHear' = CanHear
        /\ Decodes' = Decodes /\ Ends' = Ends /\ Done' = Done /\ Held' = Held
        /\ FirstHeard' = FirstHeard
    BY <1>2 DEF vars, InSession, Begun, Readies, CanHear, Waiting, Decodes, Ends, Done, Held, FirstHeard
  <2>3. Arrived' = Arrived /\ Decoded' = Decoded
    BY <1>2, <2>2 DEF vars, Arrived, Decoded, InFrame
  <2>4. Taking' = Taking /\ Arriving' = Arriving /\ Fed' = Fed
    BY <1>2, <2>2 DEF vars, Taking, Arriving, Fed
  <2>5. TrackWhole(p) => TrackWhole(p)'
    BY <1>2, <2>2, <2>3, <2>4 DEF vars, TrackWhole
  <2> QED
    BY <1>1, <2>1, <2>5 DEF WholeInv
<1>3. CASE Next /\ PlaySet
  <2>1. /\ playback_start' = 0 /\ app'.pc = "play_send"
        /\ UNCHANGED <<decode_queue, pre, dec, pb>>
    BY <1>3 DEF PlaySet, workers, queues, AppGoto, Shape, AppShape
  <2>2. CASE plays' = p
    <3>1. AtRest
      <4>1. UNCHANGED vars => ~PlaySet
        BY DEF vars, PlaySet, AppGoto, Shape, AppShape
      <4> QED
        BY <1>3, <2>2, <4>1 DEF BeginsAtRest
    <3>2. pre'.pc = "wait" /\ dec'.pc = "wait" /\ pb'.pc \in {"wait", "mute"} /\ decode_queue' = <<>>
      BY <2>1, <3>1 DEF AtRest
    <3>3. ~InSession' /\ ~Begun' /\ ~Fed' /\ ~Arriving' /\ ~Taking'
      BY <2>1, <3>2 DEF InSession, Begun, Fed, Arriving, Taking, Readies, Decodes
    <3> QED
      BY <1>1, <2>1, <3>2, <3>3 DEF WholeInv, TrackWhole
  <2>3. CASE plays' # p
    BY <1>1, <2>3 DEF WholeInv, Tracked
  <2> QED
    BY <2>2, <2>3
<1>4. CASE Next /\ ~PlaySet
  <2>1. UNCHANGED <<plays, playback, start_time>>
    BY <1>4, SameTrack
  <2>2. ~cut' => ~cut
    <3>1. CASE Application
      BY <1>4, <3>1 DEF Application, PlayCall, PlaySend, PlayWait, PlayCheck, InfoResume, StopCall,
         StopPreprocess, StopIdlePlayer, StopDecode, StopWait, StopReturn, DeviceStopCall,
         DeviceStopSend, DeviceStopWait, Pause, Resume, history
    <3>2. CASE Preprocess
      BY <3>2 DEF Preprocess, PreReceive, PreInit, PreInitFail, PreStart, PreSend, PreResume,
         PrePoll, PreRead, PreEnd, PreTimeout, PreWrite, history
    <3>3. CASE Play
      BY <3>3 DEF Play, PbReceive, PbNoDevice, PbOpen, PbFailStop, PbFailStopDecode, PbFail, PbBegin,
         PbRead, PbDrained, PbFrame, PbUnpause, PbAwake, PbDevice, PbNext, PbIdle, PbMuteMessage,
         PbClose, history
    <3> QED
      BY <1>4, <3>1, <3>2, <3>3, DecodeLeaves DEF Next, history
  <2>3. SUFFICES ASSUME Tracked(p), ~cut, ~cut' PROVE TrackWhole(p)'
    BY <1>1, <2>1, <2>2 DEF WholeInv, Tracked, Plain
  <2>4. Track(p) /\ TrackStops /\ TrackWhole(p) /\ InFile
    BY <2>3 DEF TrackInv, StopInv, WholeInv
  <2>5. CASE Application
    BY <1>4, <2>3, <2>4, <2>5, ApplicationWhole
  <2>6. CASE Preprocess
    BY <2>3, <2>4, <2>6, PreprocessWhole
  <2>7. CASE Decode
    BY <2>3, <2>4, <2>7, PreparingWhole, DecodingWhole
  <2>8. CASE Play
    BY <2>3, <2>4, <2>8, PlayWhole
  <2> QED
    BY <1>4, <2>5, <2>6, <2>7, <2>8 DEF Next
<1> QED
  BY <1>2, <1>3, <1>4

LEMMA InitWholeInv == ASSUME NEW p \in Nat PROVE Init => WholeInv(p)
<1>1. Init => InFile
  BY PlayerAssumption DEF Init, InFile, PlayMsg
<1> QED
  BY <1>1 DEF Init, WholeInv, Tracked

LEMMA EndsWhole ==
  ASSUME NEW p \in Nat, Shape, TrackInv(p), WholeInv(p), plays = p, Plain,
         pb.pc = "idle", pb.info = "IDLE", ~cut
  PROVE  Len(heard) = FileUnits - FirstHeard
<1>1. Tracked(p)
  BY DEF TrackInv, OnlyInfo, Tracked, Shape, FieldShape
<1>2. FirstHeard + Len(heard) = FileUnits
  BY <1>1 DEF WholeInv, TrackWhole
<1> QED
  BY <1>2, Numbers

\* A track that nobody stopped, none of whose reads timed out and whose session came
\* to its end was heard to the end of the file, if it began when the workers were at
\* rest; even with a seek that was overtaken.
THEOREM TrackIsWhole ==
  ASSUME NEW p \in Nat
  PROVE  Spec /\ [][BeginsAtRest(p)]_vars
           => [][plays = p /\ Plain /\ PbIdle /\ pb.info = "IDLE" /\ ~cut
                   => Len(heard) = FileUnits - FirstHeard]_vars
<1>1. Init => TrackInv(p) /\ StopInv(p) /\ WholeInv(p)
  BY InitTrack, InitStopInv, InitWholeInv
<1>2. /\ Shape /\ Shape' /\ TrackInv(p) /\ StopInv(p) /\ WholeInv(p)
      /\ [Next]_vars /\ [BeginsAtRest(p)]_vars
      => TrackInv(p)' /\ StopInv(p)' /\ WholeInv(p)'
  BY NextTrack, NextStopInv, NextWholeInv
<1>3. Shape /\ TrackInv(p) /\ WholeInv(p)
        => [plays = p /\ Plain /\ PbIdle /\ pb.info = "IDLE" /\ ~cut
              => Len(heard) = FileUnits - FirstHeard]_vars
  BY EndsWhole DEF PbIdle
<1> QED
  BY <1>1, <1>2, <1>3, PlayerShape, PTL DEF Spec

\* The first track always is, while there is no second play, unless it is one of
\* play_pcm with a start position.
THEOREM FirstTrackIsWhole == Spec => ([]FirstPlay => WholeTrack)
<1>1. Init => TrackInv(1) /\ StopInv(1) /\ WholeInv(1)
  BY InitTrack, InitStopInv, InitWholeInv
<1>2. /\ Shape /\ Shape' /\ NotYet /\ TrackInv(1) /\ StopInv(1) /\ WholeInv(1) /\ [Next]_vars
      => TrackInv(1)' /\ StopInv(1)' /\ WholeInv(1)'
  BY NextTrack, NextStopInv, NextWholeInv, FirstBeginsAtRest
<1>3. Shape /\ NotYet /\ TrackInv(1) /\ WholeInv(1) /\ FirstPlay
        => [PbIdle /\ pb.info = "IDLE" /\ ~cut /\ ~overtaken
              => Len(heard) = FileUnits - FirstHeard]_vars
  <2> SUFFICES ASSUME Shape, NotYet, TrackInv(1), WholeInv(1), FirstPlay, PbIdle,
                      pb.info = "IDLE", ~cut
               PROVE  Len(heard) = FileUnits - FirstHeard
    OBVIOUS
  <2>1. plays = 1 /\ Plain /\ pb.pc = "idle"
    BY DEF Shape, FieldShape, NotYet, NothingYet, FirstPlay, PbIdle
  <2> QED
    BY <2>1, EndsWhole
<1> QED
  BY <1>1, <1>2, <1>3, PlayerShape, PlayerNotYet, PTL DEF Spec, WholeTrack

================================================================================
