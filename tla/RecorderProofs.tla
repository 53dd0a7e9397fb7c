---------------------------- MODULE RecorderProofs ----------------------------
(* Theorems about the recorder, for any frames, headers, streams and durations. *)
EXTENDS Recorder, SequenceTheorems, TLAPS

\* The fields the argument looks at exist, and what recorder_record sends is no STOP.
Shape == /\ {"pc", "type"} \subseteq DOMAIN app
         /\ "pc" \in DOMAIN cap /\ "pc" \in DOMAIN enc /\ "pc" \in DOMAIN wr
         /\ app.pc = "record_send" => app.type # "stop"

RecorderInv == Shape /\ OneRecording

LEMMA InitRecorderInv == Init => RecorderInv
  BY DEF Init, RecorderInv, Shape, OneRecording, AppHolds, RecordQueued, CapHolds, EncodeQueued,
         EncHolds, WriteQueued, WrHolds

LEMMA NextRecorderInv == RecorderInv /\ [Next]_vars => RecorderInv'
<1> SUFFICES ASSUME RecorderInv, [Next]_vars PROVE RecorderInv'
  OBVIOUS
<1> USE RecorderAssumption
<1> USE DEF RecorderInv, Shape, OneRecording, AppHolds, RecordQueued, CapHolds, EncodeQueued,
            EncHolds, WriteQueued, WrHolds, AppGoto, CapGoto, EncGoto, WrGoto, queues, streams,
            fields, caller, history
<1>1. CASE Application
  <2>1. CASE RecordCall
    BY <2>1 DEF RecordCall
  <2>2. CASE RecordSet
    BY <2>2 DEF RecordSet
  <2>3. CASE RecordFail
    BY <2>3 DEF RecordFail
  <2>4. CASE RecordSend
    BY <2>4 DEF RecordSend
  <2>5. CASE StopCall
    BY <2>5 DEF StopCall
  <2>6. CASE StopFinish
    BY <2>6 DEF StopFinish
  <2>7. CASE StopIdleRecorder
    BY <2>7 DEF StopIdleRecorder
  <2>8. CASE StopSend
    BY <2>8 DEF StopSend
  <2>9. CASE StopWait
    BY <2>9 DEF StopWait
  <2> QED
    BY <1>1, <2>1, <2>2, <2>3, <2>4, <2>5, <2>6, <2>7, <2>8, <2>9 DEF Application
<1>2. CASE Capture
  <2>1. CASE CapReceive
    <3>1. CASE Head(record_queue) # "stop"
      <4>1. RecordQueued
        BY <2>1, <3>1 DEF CapReceive
      <4>2. cap' = [cap EXCEPT !.pc = "open", !.type = Head(record_queue)]
        BY <2>1, <3>1 DEF CapReceive
      <4>3. cap'.pc = "open" /\ "pc" \in DOMAIN cap'
        BY <4>2
      <4> QED
        BY <2>1, <4>1, <4>3 DEF CapReceive
    <3>2. CASE Head(record_queue) = "stop"
      <4>1. cap' = cap \/ CapGoto("exited")
        BY <2>1, <3>2 DEF CapReceive
      <4>2. ~CapHolds' /\ "pc" \in DOMAIN cap'
        BY <2>1, <4>1 DEF CapReceive
      <4> QED
        BY <2>1, <4>2 DEF CapReceive
    <3> QED
      BY <3>1, <3>2
  <2>2. CASE CapOpenFail
    BY <2>2 DEF CapOpenFail
  <2>3. CASE CapStart
    BY <2>3 DEF CapStart
  <2>4. CASE CapSend
    BY <2>4 DEF CapSend
  <2>5. CASE CapRead
    BY <2>5 DEF CapRead
  <2>6. CASE CapReadFail
    BY <2>6 DEF CapReadFail
  <2>7. CASE CapWrite
    BY <2>7 DEF CapWrite
  <2>8. CASE CapFinish
    BY <2>8 DEF CapFinish
  <2> QED
    BY <1>2, <2>1, <2>2, <2>3, <2>4, <2>5, <2>6, <2>7, <2>8 DEF Capture
<1>3. CASE Encode
  <2>1. CASE EncReceive
    BY <2>1 DEF EncReceive
  <2>2. CASE EncInitFail
    BY <2>2 DEF EncInitFail
  <2>3. CASE EncFail
    BY <2>3 DEF EncFail
  <2>4. CASE EncStart
    BY <2>4 DEF EncStart
  <2>5. CASE EncSend
    BY <2>5 DEF EncSend
  <2>6. CASE EncHeader
    BY <2>6 DEF EncHeader
  <2>7. CASE EncInput
    BY <2>7 DEF EncInput
  <2>8. CASE EncOutput
    BY <2>8 DEF EncOutput
  <2>9. CASE EncStop
    BY <2>9 DEF EncStop
  <2>10. CASE EncFinish
    BY <2>10 DEF EncFinish
  <2> QED
    BY <1>3, <2>1, <2>2, <2>3, <2>4, <2>5, <2>6, <2>7, <2>8, <2>9, <2>10 DEF Encode
<1>4. CASE Write
  <2>1. CASE WrReceive
    BY <2>1 DEF WrReceive
  <2>2. CASE WrInit
    BY <2>2 DEF WrInit
  <2>3. CASE WrInitFail
    BY <2>3 DEF WrInitFail
  <2>4. CASE WrStopRecord
    BY <2>4 DEF WrStopRecord
  <2>5. CASE WrStopEncode
    BY <2>5 DEF WrStopEncode
  <2>6. CASE WrRead
    BY <2>6 DEF WrRead
  <2>7. CASE WrFrame
    BY <2>7 DEF WrFrame
  <2>8. CASE WrFrameFail
    BY <2>8 DEF WrFrameFail
  <2>9. CASE WrRest
    BY <2>9 DEF WrRest
  <2>10. CASE WrHeader
    BY <2>10 DEF WrHeader
  <2>11. CASE WrIdle
    BY <2>11 DEF WrIdle
  <2>12. CASE WrDestroy
    BY <2>12 DEF WrDestroy
  <2> QED
    BY <1>4, <2>1, <2>2, <2>3, <2>4, <2>5, <2>6, <2>7, <2>8, <2>9, <2>10, <2>11, <2>12 DEF Write
<1>5. CASE UNCHANGED vars
  BY <1>5 DEF vars
<1> QED
  BY <1>1, <1>2, <1>3, <1>4, <1>5 DEF Next

\* At most one recording is on its way through the recorder, and none once it is IDLE.
THEOREM AtMostOneRecording == Spec => []OneRecording
<1>1. RecorderInv => OneRecording
  BY DEF RecorderInv
<1> QED
  BY <1>1, InitRecorderInv, NextRecorderInv, PTL DEF Spec

\* An application that sees the recorder IDLE finds no write of its file under way.
THEOREM IdleMeansWritten == Spec => []IdleIsWritten
<1>1. OneRecording => IdleIsWritten
  BY DEF OneRecording, IdleIsWritten, WrHolds, WriteQueued
<1> QED
  BY <1>1, AtMostOneRecording, PTL
--------------------------------------------------------------------------------
(* The streams start only when their last run has ended: what AudioStream takes *)
(* for granted of whoever starts a stream.                                      *)

Ended(s) == ~Has(s, "RUN") \/ s.flags \cap {"STOPPED", "FINISHED"} # {}

\* Nobody resets the streams of the recorder, and their flags are there.
Plain(s) == "flags" \in DOMAIN s /\ ~Has(s, "RESET")

\* A worker that is not in a recording has ended the stream it feeds, or another
\* thread did; an encoder that gives up on its output found it stopped.
StreamsEnded ==
  /\ {"pc", "type"} \subseteq DOMAIN cap /\ {"pc", "res"} \subseteq DOMAIN enc
  /\ Plain(record_stream) /\ Plain(encode_stream)
  /\ cap.pc \in {"wait", "open"} => Ended(record_stream)
  /\ enc.pc \in {"wait", "init", "fail"} => Ended(encode_stream)
  /\ enc.pc = "stop" /\ enc.res = "OUTPUT_ERROR" => Has(encode_stream, "STOPPED")

\* A finish and a stop end a stream and leave no stream unended.
LEMMA Ending ==
  ASSUME NEW s, Plain(s)
  PROVE  /\ Plain(Finished(s)) /\ Ended(Finished(s))
         /\ Plain(Stopped(s)) /\ Ended(Stopped(s)) /\ Has(Stopped(s), "STOPPED")
         /\ Has(s, "STOPPED") => Ended(s) /\ Has(Finished(s), "STOPPED")
  BY DEF Plain, Ended, Finished, Stopped, Has

\* A read and a write leave the flags alone.
LEMMA MovingKeepsFlags ==
  ASSUME NEW s, NEW n, NEW unit, Plain(s)
  PROVE  /\ Plain(AfterRead(s, n)) /\ Plain(AfterWrite(s, unit))
         /\ Ended(s) => Ended(AfterRead(s, n)) /\ Ended(AfterWrite(s, unit))
         /\ Has(s, "STOPPED") => /\ Has(AfterRead(s, n), "STOPPED")
                                 /\ Has(AfterWrite(s, unit), "STOPPED")
  BY DEF Plain, AfterRead, AfterWrite, Has, Ended

\* A stream that takes nothing has ended.
LEMMA RefusingIsEnded ==
  ASSUME NEW s, Plain(s)
  PROVE  /\ WriteIgnored(s) \/ WriteStopped(s) => Ended(s)
         /\ WriteStopped(s) => Has(s, "STOPPED")
  BY DEF Plain, Ended, WriteIgnored, WriteStopped, Has

LEMMA StartIsPlain == Plain(Started)
  BY DEF Plain, Started, Has

LEMMA InitStreamsEnded == Init => StreamsEnded
  BY DEF Init, StreamsEnded, Plain, Ended, NewStream, Has

LEMMA NextStreamsEnded == StreamsEnded /\ [Next]_vars => StreamsEnded'
<1> SUFFICES ASSUME StreamsEnded, [Next]_vars PROVE StreamsEnded'
  OBVIOUS
<1> USE DEF StreamsEnded, AppGoto, CapGoto, EncGoto, WrGoto, queues, streams, fields, caller,
            history
<1>1. CASE Application
  <2>1. CASE RecordCall
    BY <2>1 DEF RecordCall
  <2>2. CASE RecordSet
    BY <2>2 DEF RecordSet
  <2>3. CASE RecordFail
    BY <2>3 DEF RecordFail
  <2>4. CASE RecordSend
    BY <2>4 DEF RecordSend
  <2>5. CASE StopCall
    BY <2>5 DEF StopCall
  <2>6. CASE StopFinish
    BY <2>6, Ending DEF StopFinish
  <2>7. CASE StopIdleRecorder
    BY <2>7 DEF StopIdleRecorder
  <2>8. CASE StopSend
    BY <2>8 DEF StopSend
  <2>9. CASE StopWait
    BY <2>9 DEF StopWait
  <2> QED
    BY <1>1, <2>1, <2>2, <2>3, <2>4, <2>5, <2>6, <2>7, <2>8, <2>9 DEF Application
<1>2. CASE Capture
  <2>1. CASE CapReceive
    BY <2>1 DEF CapReceive
  <2>2. CASE CapOpenFail
    BY <2>2 DEF CapOpenFail
  <2>3. CASE CapStart
    BY <2>3, StartIsPlain DEF CapStart
  <2>4. CASE CapSend
    BY <2>4 DEF CapSend
  <2>5. CASE CapRead
    BY <2>5 DEF CapRead
  <2>6. CASE CapReadFail
    BY <2>6, Ending DEF CapReadFail
  <2>7. CASE CapWrite
    <3>1. \/ record_stream' = AfterWrite(record_stream, Data(recs, cap.next)) /\ cap'.pc # "wait"
             /\ cap'.pc # "open"
          \/ Ended(record_stream) /\ UNCHANGED record_stream
      BY <2>7, RefusingIsEnded DEF CapWrite
    <3>2. {"pc", "type"} \subseteq DOMAIN cap'
      BY <2>7 DEF CapWrite
    <3>3. UNCHANGED <<enc, encode_stream>>
      BY <2>7 DEF CapWrite
    <3> QED
      BY <3>1, <3>2, <3>3, MovingKeepsFlags
  <2>8. CASE CapFinish
    BY <2>8, Ending DEF CapFinish
  <2> QED
    BY <1>2, <2>1, <2>2, <2>3, <2>4, <2>5, <2>6, <2>7, <2>8 DEF Capture
<1>3. CASE Encode
  <2>1. CASE EncReceive
    BY <2>1 DEF EncReceive
  <2>2. CASE EncInitFail
    BY <2>2, Ending DEF EncInitFail
  <2>3. CASE EncFail
    BY <2>3 DEF EncFail
  <2>4. CASE EncStart
    BY <2>4, StartIsPlain DEF EncStart
  <2>5. CASE EncSend
    BY <2>5 DEF EncSend
  <2>6. CASE EncHeader
    BY <2>6, MovingKeepsFlags DEF EncHeader
  <2>7. CASE EncInput
    <3>1. record_stream' \in {record_stream, AfterRead(record_stream, 1)}
      BY <2>7 DEF EncInput
    <3>2. UNCHANGED <<cap, encode_stream>>
      BY <2>7 DEF EncInput
    <3>3. /\ {"pc", "res"} \subseteq DOMAIN enc'
          /\ enc'.pc \in {"header", "stop", "finish", "output"}
          /\ enc'.pc = "stop" => enc'.res = "SUCCESS"
      BY <2>7 DEF EncInput
    <3> QED
      BY <3>1, <3>2, <3>3, MovingKeepsFlags
  <2>8. CASE EncOutput
    <3>1. \/ /\ encode_stream' = AfterWrite(encode_stream, enc.buf[1])
             /\ enc' = [enc EXCEPT !.pc = "input", !.buf = <<>>, !.total = enc.total + 1]
          \/ /\ UNCHANGED encode_stream
             /\ enc' = [enc EXCEPT !.pc = "input", !.buf = <<>>]
          \/ /\ UNCHANGED encode_stream
             /\ Has(encode_stream, "STOPPED")
             /\ enc' = [enc EXCEPT !.pc = "stop", !.buf = <<>>, !.res = "OUTPUT_ERROR"]
      BY <2>8, RefusingIsEnded DEF EncOutput
    <3>2. UNCHANGED <<cap, record_stream>>
      BY <2>8 DEF EncOutput
    <3>3. /\ {"pc", "res"} \subseteq DOMAIN enc'
          /\ enc'.pc \in {"input", "stop"}
          /\ enc'.pc = "stop" => Has(encode_stream, "STOPPED") /\ UNCHANGED encode_stream
      BY <3>1
    <3>4. Plain(encode_stream')
      BY <3>1, MovingKeepsFlags
    <3> QED
      BY <3>2, <3>3, <3>4
  <2>9. CASE EncStop
    BY <2>9, Ending DEF EncStop
  <2>10. CASE EncFinish
    BY <2>10, Ending DEF EncFinish
  <2> QED
    BY <1>3, <2>1, <2>2, <2>3, <2>4, <2>5, <2>6, <2>7, <2>8, <2>9, <2>10 DEF Encode
<1>4. CASE Write
  <2>1. CASE WrReceive
    BY <2>1 DEF WrReceive
  <2>2. CASE WrInit
    BY <2>2 DEF WrInit
  <2>3. CASE WrInitFail
    BY <2>3 DEF WrInitFail
  <2>4. CASE WrStopRecord
    BY <2>4, Ending DEF WrStopRecord
  <2>5. CASE WrStopEncode
    BY <2>5, Ending DEF WrStopEncode
  <2>6. CASE WrRead
    BY <2>6, MovingKeepsFlags DEF WrRead
  <2>7. CASE WrFrame
    BY <2>7 DEF WrFrame
  <2>8. CASE WrFrameFail
    BY <2>8 DEF WrFrameFail
  <2>9. CASE WrRest
    BY <2>9 DEF WrRest
  <2>10. CASE WrHeader
    BY <2>10 DEF WrHeader
  <2>11. CASE WrIdle
    BY <2>11 DEF WrIdle
  <2>12. CASE WrDestroy
    BY <2>12 DEF WrDestroy
  <2> QED
    BY <1>4, <2>1, <2>2, <2>3, <2>4, <2>5, <2>6, <2>7, <2>8, <2>9, <2>10, <2>11, <2>12 DEF Write
<1>5. CASE UNCHANGED vars
  BY <1>5 DEF vars
<1> QED
  BY <1>1, <1>2, <1>3, <1>4, <1>5 DEF Next

\* Every start finds the last run of its stream ended, whatever failed before, so
\* that it forgets the flag of no thread that still waits in the old one.
THEOREM StreamsStartEnded ==
  Spec => [][/\ CapStart => Ended(record_stream)
             /\ EncStart => Ended(encode_stream)]_vars
<1>1. StreamsEnded => /\ CapStart => Ended(record_stream)
                      /\ EncStart => Ended(encode_stream)
  BY DEF StreamsEnded, CapStart, EncStart
<1> QED
  BY <1>1, InitStreamsEnded, NextStreamsEnded, PTL DEF Spec

--------------------------------------------------------------------------------
(* The file of a recording holds what was captured, in order.                   *)

(* Shapes: the fields the argument looks at exist and hold what they must. *)

Units == {"data", "header", "zero"} \X Nat \X Nat

IsStream(s) == {"data", "flags"} \subseteq DOMAIN s /\ s.data \in Seq(Units)

CapShape == {"pc", "type", "next", "left", "sent"} \subseteq DOMAIN cap /\ cap.next \in Nat
EncShape == /\ {"pc", "type", "buf", "done", "total", "res"} \subseteq DOMAIN enc
            /\ enc.done \in 0 .. HeaderUnits - 1 /\ enc.total \in Nat
            /\ enc.buf \in Seq(Units) /\ (enc.pc = "output" => Len(enc.buf) = 1)
WrShape  == /\ {"pc", "last", "buf", "header", "info"} \subseteq DOMAIN wr
            /\ wr.last \in Seq(Units) /\ wr.buf \in Seq(Units)
            /\ wr.pc \in {"read", "frame", "rest"} => file \in Seq(Units)

FileShape == /\ IsStream(record_stream) /\ IsStream(encode_stream)
             /\ header_size \in {0, HeaderUnits} /\ recs \in Nat /\ stored \in Nat
             /\ CapShape /\ EncShape /\ WrShape

--------------------------------------------------------------------------------
(* What the operations of a stream do to its data and its flags. *)

LEMMA StartedIs == IsStream(Started) /\ Started.data = <<>> /\ Started.flags = {"RUN"}
  BY EmptySeq DEF IsStream, Started

LEMMA EndedIs ==
  ASSUME NEW s, IsStream(s)
  PROVE  /\ IsStream(Stopped(s)) /\ Stopped(s).data = s.data
         /\ Stopped(s).flags = s.flags \cup {"STOPPED"}
         /\ IsStream(Finished(s)) /\ Finished(s).data = s.data
         /\ Finished(s).flags = s.flags \cup {"FINISHED"}
  BY DEF IsStream, Stopped, Finished

LEMMA WrittenIs ==
  ASSUME NEW s, IsStream(s), NEW u \in Units
  PROVE  /\ IsStream(AfterWrite(s, u)) /\ AfterWrite(s, u).data = Append(s.data, u)
         /\ AfterWrite(s, u).flags = s.flags
<1>1. Append(s.data, u) \in Seq(Units)
  BY AppendProperties DEF IsStream
<1> QED
  BY <1>1 DEF IsStream, AfterWrite

\* The piece of a sequence between two of its places.
LEMMA Cut ==
  ASSUME NEW S, NEW s \in Seq(S), NEW m \in Nat \ {0}, NEW n \in Nat, n <= Len(s)
  PROVE  /\ SubSeq(s, m, n) \in Seq(S)
         /\ Len(SubSeq(s, m, n)) = IF m <= n THEN n - m + 1 ELSE 0
         /\ \A k \in 1 .. Len(SubSeq(s, m, n)) : SubSeq(s, m, n)[k] = s[m + k - 1]
<1>1. Len(s) \in Nat
  BY LenProperties
<1>2. \A k \in m .. n : s[k] \in S
  <2> TAKE k \in m .. n
  <2>1. k \in 1 .. Len(s)
    BY <1>1
  <2> QED
    BY <2>1, ElementOfSeq
<1>3. m \in Int /\ n \in Int
  OBVIOUS
<1>4. /\ SubSeq(s, m, n) \in Seq(S)
      /\ Len(SubSeq(s, m, n)) = IF m <= n THEN n - m + 1 ELSE 0
      /\ \A k \in 1 .. n - m + 1 : SubSeq(s, m, n)[k] = s[m + k - 1]
  BY <1>2, <1>3, SubSeqProperties
<1> QED
  BY <1>4

\* A sequence cut in two behind its first n places.
LEMMA CutAt ==
  ASSUME NEW S, NEW s \in Seq(S), NEW n \in Nat, n <= Len(s)
  PROVE  /\ SubSeq(s, 1, n) \in Seq(S) /\ Len(SubSeq(s, 1, n)) = n
         /\ \A k \in 1 .. n : SubSeq(s, 1, n)[k] = s[k]
         /\ SubSeq(s, n + 1, Len(s)) \in Seq(S) /\ Len(SubSeq(s, n + 1, Len(s))) = Len(s) - n
         /\ \A k \in 1 .. Len(s) - n : SubSeq(s, n + 1, Len(s))[k] = s[n + k]
<1> DEFINE front == SubSeq(s, 1, n)
           back  == SubSeq(s, n + 1, Len(s))
<1>1. Len(s) \in Nat
  BY LenProperties
<1>2. /\ front \in Seq(S) /\ Len(front) = IF 1 <= n THEN n - 1 + 1 ELSE 0
      /\ \A k \in 1 .. Len(front) : front[k] = s[1 + k - 1]
  BY SMTT(30), Cut
<1>3. /\ back \in Seq(S)
      /\ Len(back) = IF n + 1 <= Len(s) THEN Len(s) - (n + 1) + 1 ELSE 0
      /\ \A k \in 1 .. Len(back) : back[k] = s[(n + 1) + k - 1]
  BY SMTT(30), <1>1, Cut
<1> HIDE DEF front, back
<1>4. Len(front) = n
  <2>1. CASE 1 <= n
    BY <1>2, <2>1
  <2>2. CASE ~(1 <= n)
    BY <1>2, <2>2
  <2> QED
    BY <2>1, <2>2
<1>5. Len(back) = Len(s) - n
  <2>1. CASE n + 1 <= Len(s)
    <3>1. Len(back) = Len(s) - (n + 1) + 1
      BY <1>3, <2>1
    <3> QED
      BY <1>1, <3>1
  <2>2. CASE ~(n + 1 <= Len(s))
    <3>1. Len(back) = 0
      BY <1>3, <2>2
    <3> QED
      BY <1>1, <2>2, <3>1
  <2> QED
    BY <2>1, <2>2
<1>6. \A k \in 1 .. n : 1 + k - 1 = k
  OBVIOUS
<1>7. \A k \in 1 .. Len(s) - n : (n + 1) + k - 1 = n + k
  BY <1>1
<1>8. \A k \in 1 .. n : front[k] = s[k]
  BY <1>2, <1>4, <1>6
<1>9. \A k \in 1 .. Len(s) - n : back[k] = s[n + k]
  BY <1>3, <1>5, <1>7
<1> QED
  BY <1>2, <1>3, <1>4, <1>5, <1>8, <1>9 DEF front, back

\* A read gives a beginning of the data and leaves the rest.
LEMMA ReadIs ==
  ASSUME NEW s, IsStream(s), NEW n \in Nat
  PROVE  /\ IsStream(AfterRead(s, n)) /\ AfterRead(s, n).flags = s.flags
         /\ ReadUnits(s, n) \in Seq(Units)
         /\ Len(ReadUnits(s, n)) = IF Len(s.data) < n THEN Len(s.data) ELSE n
         /\ Len(ReadUnits(s, n)) + Len(AfterRead(s, n).data) = Len(s.data)
         /\ \A k \in 1 .. Len(ReadUnits(s, n)) : ReadUnits(s, n)[k] = s.data[k]
         /\ \A k \in 1 .. Len(AfterRead(s, n).data) :
              AfterRead(s, n).data[k] = s.data[Len(ReadUnits(s, n)) + k]
<1> DEFINE c    == ReadCount(s, n)
           rest == SubSeq(s.data, c + 1, Len(s.data))
<1>1. s.data \in Seq(Units) /\ Len(s.data) \in Nat
  BY LenProperties DEF IsStream
<1>2. c \in Nat /\ c <= Len(s.data) /\ c = IF Len(s.data) < n THEN Len(s.data) ELSE n
  BY <1>1 DEF ReadCount
<1>3. AfterRead(s, n) = [s EXCEPT !.data = rest] /\ ReadUnits(s, n) = SubSeq(s.data, 1, c)
  BY DEF AfterRead, ReadUnits
<1> HIDE DEF c
<1>4. /\ SubSeq(s.data, 1, c) \in Seq(Units) /\ Len(SubSeq(s.data, 1, c)) = c
      /\ \A k \in 1 .. c : SubSeq(s.data, 1, c)[k] = s.data[k]
      /\ rest \in Seq(Units) /\ Len(rest) = Len(s.data) - c
      /\ \A k \in 1 .. Len(s.data) - c : rest[k] = s.data[c + k]
  <2> DEFINE d == s.data
  <2>1. d \in Seq(Units) /\ c <= Len(d) /\ c \in Nat
    BY <1>1, <1>2
  <2> HIDE DEF d
  <2>2. /\ SubSeq(d, 1, c) \in Seq(Units) /\ Len(SubSeq(d, 1, c)) = c
        /\ \A k \in 1 .. c : SubSeq(d, 1, c)[k] = d[k]
        /\ SubSeq(d, c + 1, Len(d)) \in Seq(Units) /\ Len(SubSeq(d, c + 1, Len(d))) = Len(d) - c
        /\ \A k \in 1 .. Len(d) - c : SubSeq(d, c + 1, Len(d))[k] = d[c + k]
    BY ONLY <2>1, CutAt
  <2> QED
    BY ONLY <2>2 DEF d
<1>5. AfterRead(s, n).data = rest /\ AfterRead(s, n).flags = s.flags /\ IsStream(AfterRead(s, n))
  BY <1>3, <1>4 DEF IsStream
<1> HIDE DEF rest
<1>6. Len(ReadUnits(s, n)) = c /\ Len(ReadUnits(s, n)) + Len(AfterRead(s, n).data) = Len(s.data)
  BY <1>1, <1>2, <1>3, <1>4, <1>5
<1> QED
  BY <1>2, <1>3, <1>4, <1>5, <1>6

LEMMA DataIsUnit == ASSUME NEW r \in Nat, NEW i \in Nat PROVE Data(r, i) \in Units
  BY DEF Data, Units

\* A wav header has HeaderUnits units, which tell its size.
LEMMA HeaderIs ==
  ASSUME NEW n \in Nat
  PROVE  /\ WavHeader(n) \in Seq(Units) /\ Len(WavHeader(n)) = HeaderUnits
         /\ \A i \in 1 .. HeaderUnits : /\ WavHeader(n)[i] = <<"header", i, n * BlockAlign>>
                                        /\ WavHeader(n)[i] \in Units
<1>1. HeaderUnits \in Nat /\ BlockAlign \in Nat
  BY RecorderAssumption
<1>2. n * BlockAlign \in Nat
  BY <1>1
<1> DEFINE e(i) == <<"header", i, n * BlockAlign>>
<1>3. \A i \in 1 .. HeaderUnits : e(i) \in Units
  BY <1>1, <1>2 DEF Units
<1> HIDE DEF e
<1>4. [i \in 1 .. HeaderUnits |-> e(i)] \in Seq(Units)
  BY ONLY <1>1, <1>3, IsASeq
<1>5. WavHeader(n) = [i \in 1 .. HeaderUnits |-> e(i)]
  BY DEF WavHeader, e
<1>6. Len(WavHeader(n)) = HeaderUnits
  BY <1>1, <1>4, <1>5, LenProperties
<1>7. \A i \in 1 .. HeaderUnits : WavHeader(n)[i] = e(i)
  BY <1>5
<1> QED
  BY <1>3, <1>4, <1>5, <1>6, <1>7 DEF e

LEMMA ZeroIs == ASSUME NEW n \in {0, HeaderUnits} PROVE SubSeq(ZeroHeader, 1, n) \in Seq(Units)
<1>1. HeaderUnits \in Nat
  BY RecorderAssumption
<1> DEFINE e(i) == <<"zero", i, 0>>
<1>2. \A i \in 1 .. HeaderUnits : e(i) \in Units
  BY <1>1 DEF Units
<1> HIDE DEF e
<1>3. ZeroHeader = [i \in 1 .. HeaderUnits |-> e(i)]
  BY DEF ZeroHeader, e
<1>4. ZeroHeader \in Seq(Units)
  BY ONLY <1>1, <1>2, <1>3, IsASeq
<1>5. \A i \in 1 .. n : ZeroHeader[i] \in Units
  BY <1>1, <1>2, <1>3
<1> QED
  BY <1>1, <1>5, SubSeqProperties

--------------------------------------------------------------------------------
(* What the threads leave alone, and the shapes. *)

LEMMA ApplicationLeaves ==
  Application => UNCHANGED <<encode_queue, write_queue, encode_stream, header_size, cap, enc, wr, file>>
  BY DEF Application, RecordCall, RecordSet, RecordFail, RecordSend, StopCall, StopFinish,
         StopIdleRecorder, StopSend, StopWait, queues, streams, fields

LEMMA CaptureLeaves ==
  Capture => UNCHANGED <<write_queue, encode_stream, header_size, duration, app, recs, enc, wr, file,
                         stopping, torn>>
  BY DEF Capture, CapReceive, CapOpenFail, CapStart, CapSend, CapRead, CapReadFail, CapWrite,
         CapFinish, queues, streams, fields, caller, history

LEMMA EncodeLeaves ==
  Encode => UNCHANGED <<record_queue, duration, app, recs, cap, wr, file, stored, stopping, torn>>
  BY DEF Encode, EncReceive, EncInitFail, EncFail, EncStart, EncSend, EncHeader, EncInput, EncOutput,
         EncStop, EncFinish, queues, streams, fields, caller, history

LEMMA WriteLeaves ==
  Write => UNCHANGED <<record_queue, encode_queue, app, recs, duration, cap, enc, stored, stopping>>
  BY DEF Write, WrReceive, WrInit, WrInitFail, WrStopRecord, WrStopEncode, WrRead, WrFrame,
         WrFrameFail, WrRest, WrHeader, WrIdle, WrDestroy, queues, streams, fields, caller, history

LEMMA InitFileShape == Init => FileShape
<1>1. <<>> \in Seq(Units)
  BY EmptySeq
<1>2. 0 \in 0 .. HeaderUnits - 1
  BY RecorderAssumption
<1> QED
  BY <1>1, <1>2 DEF Init, FileShape, CapShape, EncShape, WrShape, IsStream, NewStream

\* The steps with alternatives, one by one.
LEMMA CapWriteDoes ==
  ASSUME FileShape, CapWrite
  PROVE  \/ /\ WriteStores(record_stream, RecordCap)
            /\ record_stream' = AfterWrite(record_stream, Data(recs, cap.next))
            /\ stored' = stored + 1
            /\ \E where \in {"write", "finish", "read"} :
                 cap' = [cap EXCEPT !.pc = where, !.next = cap.next + 1, !.left = cap.left - 1]
         \/ /\ WriteIgnored(record_stream) \/ WriteStopped(record_stream)
            /\ cap' = [cap EXCEPT !.pc = "wait"]
            /\ UNCHANGED <<record_stream, stored>>
<1>1. CASE WriteIgnored(record_stream) \/ WriteStopped(record_stream)
  BY <1>1 DEF CapWrite, CapGoto, WriteIgnored, WriteStopped, WriteStores
<1>2. CASE ~(WriteIgnored(record_stream) \/ WriteStopped(record_stream))
  <2> DEFINE where == IF cap.left > 1 THEN "write"
                      ELSE IF duration # 0 /\ cap.next >= duration * CaptureUnits
                      THEN "finish" ELSE "read"
  <2>1. cap' = [cap EXCEPT !.pc = where, !.next = cap.next + 1, !.left = cap.left - 1]
    BY <1>2 DEF CapWrite
  <2>2. where \in {"write", "finish", "read"}
    OBVIOUS
  <2> HIDE DEF where
  <2> QED
    BY <1>2, <2>1, <2>2 DEF CapWrite
<1> QED
  BY <1>1, <1>2

\* where the encoder goes behind a header
Behind == CASE enc.res = "none"    -> "input"
            [] enc.res = "SUCCESS" -> "stop"
            [] OTHER               -> "finish"

LEMMA EncHeaderDoes ==
  ASSUME EncShape, EncHeader
  PROVE  /\ \/ /\ WriteStores(encode_stream, EncodeCap)
               /\ encode_stream' = AfterWrite(encode_stream, WavHeader(enc.total)[enc.done + 1])
            \/ /\ WriteIgnored(encode_stream) \/ WriteStopped(encode_stream)
               /\ UNCHANGED encode_stream
         /\ \/ enc.done + 1 < HeaderUnits /\ enc' = [enc EXCEPT !.done = enc.done + 1]
            \/ /\ ~(enc.done + 1 < HeaderUnits)
               /\ Behind \in {"input", "stop", "finish"}
               /\ enc' = [enc EXCEPT !.done = 0, !.pc = Behind]
<1>1. \/ enc.done + 1 < HeaderUnits /\ enc' = [enc EXCEPT !.done = enc.done + 1]
      \/ ~(enc.done + 1 < HeaderUnits) /\ enc' = [enc EXCEPT !.done = 0, !.pc = Behind]
  BY DEF EncHeader, Behind
<1>2. Behind \in {"input", "stop", "finish"}
  BY DEF Behind
<1>3. \/ /\ WriteStores(encode_stream, EncodeCap)
         /\ encode_stream' = AfterWrite(encode_stream, WavHeader(enc.total)[enc.done + 1])
      \/ /\ WriteIgnored(encode_stream) \/ WriteStopped(encode_stream)
         /\ UNCHANGED encode_stream
  BY DEF EncHeader
<1> QED
  BY <1>1, <1>2, <1>3

\* where the encoder goes behind its input
End(pcm) == IF enc.type = "wav" THEN "header" ELSE pcm

LEMMA EncInputDoes ==
  ASSUME EncInput
  PROVE  \/ /\ Has(record_stream, "STOPPED")
            /\ enc' = [enc EXCEPT !.res = "INPUT_ERROR", !.pc = End("finish")]
            /\ End("finish") \in {"header", "finish"}
            /\ UNCHANGED record_stream
         \/ /\ ~Has(record_stream, "STOPPED") /\ record_stream.data = <<>>
            /\ Has(record_stream, "FINISHED")
            /\ enc' = [enc EXCEPT !.res = "SUCCESS", !.pc = End("stop")]
            /\ End("stop") \in {"header", "stop"}
            /\ record_stream' = AfterRead(record_stream, 1)
         \/ /\ ~Has(record_stream, "STOPPED") /\ record_stream.data # <<>>
            /\ enc' = [enc EXCEPT !.pc = "output", !.buf = ReadUnits(record_stream, 1)]
            /\ record_stream' = AfterRead(record_stream, 1)
<1>1. End("finish") \in {"header", "finish"} /\ End("stop") \in {"header", "stop"}
  BY DEF End
<1>2. CASE Has(record_stream, "STOPPED")
  BY <1>1, <1>2 DEF EncInput, End
<1>3. CASE ~Has(record_stream, "STOPPED") /\ record_stream.data = <<>>
  BY <1>1, <1>3 DEF EncInput, End, ReadReturns
<1>4. CASE ~Has(record_stream, "STOPPED") /\ record_stream.data # <<>>
  BY <1>4 DEF EncInput
<1> QED
  BY <1>2, <1>3, <1>4

LEMMA EncOutputDoes ==
  ASSUME EncOutput
  PROVE  \/ /\ WriteStores(encode_stream, EncodeCap)
            /\ encode_stream' = AfterWrite(encode_stream, enc.buf[1])
            /\ enc' = [enc EXCEPT !.pc = "input", !.buf = <<>>, !.total = enc.total + 1]
         \/ /\ WriteIgnored(encode_stream) /\ UNCHANGED encode_stream
            /\ enc' = [enc EXCEPT !.pc = "input", !.buf = <<>>]
         \/ /\ WriteStopped(encode_stream) /\ UNCHANGED encode_stream
            /\ enc' = [enc EXCEPT !.pc = "stop", !.buf = <<>>, !.res = "OUTPUT_ERROR"]
  BY DEF EncOutput

LEMMA CapKeepsShape == ASSUME FileShape, [Next]_vars PROVE CapShape'
<1> USE DEF FileShape, CapShape
<1>1. CASE Capture
  <2>1. CASE CapReceive
    BY <2>1 DEF CapReceive, CapGoto
  <2>2. CASE CapOpenFail \/ CapStart \/ CapRead \/ CapReadFail \/ CapFinish
    BY <2>2 DEF CapOpenFail, CapStart, CapRead, CapReadFail, CapFinish, CapGoto
  <2>3. CASE CapSend
    <3>1. \E where : cap' = [cap EXCEPT !.pc = where, !.next = 1, !.sent = TRUE]
      BY <2>3 DEF CapSend
    <3> QED
      BY <3>1
  <2>4. CASE CapWrite
    <3>1. \/ \E where : cap' = [cap EXCEPT !.pc = where, !.next = cap.next + 1, !.left = cap.left - 1]
          \/ cap' = [cap EXCEPT !.pc = "wait"]
      BY <2>4, CapWriteDoes
    <3>2. DOMAIN cap' = DOMAIN cap
      BY <3>1
    <3>3. cap'.next \in {cap.next, cap.next + 1}
      BY <3>1
    <3> QED
      BY <3>2, <3>3
  <2> QED
    BY <1>1, <2>1, <2>2, <2>3, <2>4 DEF Capture
<1> QED
  BY <1>1, ApplicationLeaves, EncodeLeaves, WriteLeaves DEF Next, vars

\* what a read of one unit gives
LEMMA OneUnit ==
  ASSUME NEW s, IsStream(s), s.data # <<>>
  PROVE  /\ ReadUnits(s, 1) \in Seq(Units) /\ Len(ReadUnits(s, 1)) = 1
         /\ ReadUnits(s, 1)[1] = s.data[1] /\ Len(s.data) >= 1
<1>1. s.data \in Seq(Units) /\ Len(s.data) \in Nat \ {0}
  BY EmptySeq DEF IsStream
<1>2. ~(Len(s.data) < 1)
  BY <1>1
<1>3. Len(ReadUnits(s, 1)) = IF Len(s.data) < 1 THEN Len(s.data) ELSE 1
  BY ReadIs
<1>4. Len(ReadUnits(s, 1)) = 1
  BY <1>2, <1>3
<1> QED
  BY <1>1, <1>4, ReadIs

LEMMA EncKeepsShape == ASSUME FileShape, [Next]_vars PROVE EncShape'
<1> USE RecorderAssumption
<1> USE DEF FileShape, EncShape
<1>1. CASE Encode
  <2>0. <<>> \in Seq(Units)
    BY EmptySeq
  <2>1. CASE EncReceive
    BY <2>1 DEF EncReceive
  <2>2. CASE EncInitFail \/ EncFail \/ EncStart \/ EncSend \/ EncStop \/ EncFinish
    BY <2>2 DEF EncInitFail, EncFail, EncStart, EncSend, EncStop, EncFinish, EncGoto
  <2>3. CASE EncHeader
    <3>1. \/ enc.done + 1 < HeaderUnits /\ enc' = [enc EXCEPT !.done = enc.done + 1]
          \/ \E where \in {"input", "stop", "finish"} : enc' = [enc EXCEPT !.done = 0, !.pc = where]
      BY <2>3, EncHeaderDoes
    <3>2. enc.pc = "header"
      BY <2>3 DEF EncHeader
    <3>3. CASE enc.done + 1 < HeaderUnits /\ enc' = [enc EXCEPT !.done = enc.done + 1]
      <4>1. /\ enc'.done = enc.done + 1 /\ enc'.total = enc.total /\ enc'.buf = enc.buf
            /\ enc'.pc = enc.pc
        BY <3>3
      <4>2. DOMAIN enc' = DOMAIN enc
        BY <3>3
      <4> QED
        BY SMTT(30), <3>2, <3>3, <4>1, <4>2
    <3>4. CASE \E where \in {"input", "stop", "finish"} : enc' = [enc EXCEPT !.done = 0, !.pc = where]
      <4>1. enc'.done = 0 /\ enc'.total = enc.total /\ enc'.buf = enc.buf /\ enc'.pc # "output"
        BY <3>4
      <4>2. DOMAIN enc' = DOMAIN enc
        BY <3>4
      <4> QED
        BY <4>1, <4>2
    <3> QED
      BY <3>1, <3>3, <3>4
  <2>4. CASE EncInput
    <3>1. \/ \E res, where : where # "output" /\ enc' = [enc EXCEPT !.res = res, !.pc = where]
          \/ /\ record_stream.data # <<>>
             /\ enc' = [enc EXCEPT !.pc = "output", !.buf = ReadUnits(record_stream, 1)]
      BY <2>4, EncInputDoes
    <3>2. CASE \E res, where : where # "output" /\ enc' = [enc EXCEPT !.res = res, !.pc = where]
      BY <3>2
    <3>3. CASE /\ record_stream.data # <<>>
               /\ enc' = [enc EXCEPT !.pc = "output", !.buf = ReadUnits(record_stream, 1)]
      BY <3>3, OneUnit
    <3> QED
      BY <3>1, <3>2, <3>3
  <2>5. CASE EncOutput
    <3>1. \/ enc' = [enc EXCEPT !.pc = "input", !.buf = <<>>, !.total = enc.total + 1]
          \/ enc' = [enc EXCEPT !.pc = "input", !.buf = <<>>]
          \/ enc' = [enc EXCEPT !.pc = "stop", !.buf = <<>>, !.res = "OUTPUT_ERROR"]
      BY <2>5, EncOutputDoes
    <3>2. DOMAIN enc' = DOMAIN enc /\ enc'.done = enc.done /\ enc'.buf = <<>> /\ enc'.pc # "output"
      BY <3>1
    <3>3. enc'.total \in {enc.total, enc.total + 1}
      BY <3>1
    <3> QED
      BY <2>0, <3>2, <3>3
  <2> QED
    BY <1>1, <2>1, <2>2, <2>3, <2>4, <2>5 DEF Encode
<1> QED
  BY <1>1, ApplicationLeaves, CaptureLeaves, WriteLeaves DEF Next, vars

LEMMA StreamsKeepShape ==
  ASSUME FileShape, [Next]_vars
  PROVE  IsStream(record_stream)' /\ IsStream(encode_stream)'
<1> USE DEF FileShape
<1>1. CASE Application
  <2>1. record_stream' \in {record_stream, Finished(record_stream)}
    BY <1>1 DEF Application, RecordCall, RecordSet, RecordFail, RecordSend, StopCall, StopFinish,
       StopIdleRecorder, StopSend, StopWait, streams
  <2> QED
    BY <1>1, <2>1, EndedIs, ApplicationLeaves
<1>2. CASE Capture
  <2>1. CASE CapWrite
    <3>1. Data(recs, cap.next) \in Units
      BY DataIsUnit DEF CapShape
    <3> QED
      BY <1>2, <2>1, <3>1, WrittenIs, CaptureLeaves DEF CapWrite
  <2>2. CASE ~CapWrite
    <3>1. record_stream' \in {record_stream, Started, Finished(record_stream), Stopped(record_stream)}
      BY <1>2, <2>2 DEF Capture, CapReceive, CapOpenFail, CapStart, CapSend, CapRead, CapReadFail,
         CapFinish, streams
    <3> QED
      BY <1>2, <3>1, EndedIs, StartedIs, CaptureLeaves
  <2> QED
    BY <2>1, <2>2
<1>3. CASE Encode
  <2>1. CASE EncHeader
    <3>1. WavHeader(enc.total)[enc.done + 1] \in Units
      BY RecorderAssumption, HeaderIs DEF EncShape
    <3> QED
      BY <2>1, <3>1, WrittenIs DEF EncHeader
  <2>2. CASE EncOutput
    <3>1. enc.buf[1] \in Units
      <4>1. 1 \in 1 .. Len(enc.buf)
        BY <2>2 DEF EncOutput, EncShape
      <4> QED
        BY <4>1, ElementOfSeq DEF EncShape
    <3> QED
      BY <2>2, <3>1, WrittenIs DEF EncOutput
  <2>3. CASE EncInput
    BY <2>3, ReadIs DEF EncInput
  <2>4. CASE ~(EncHeader \/ EncOutput \/ EncInput)
    <3>1. /\ record_stream' \in {record_stream, Stopped(record_stream)}
          /\ encode_stream' \in {encode_stream, Started, Finished(encode_stream)}
      BY <1>3, <2>4 DEF Encode, EncReceive, EncInitFail, EncFail, EncStart, EncSend, EncStop,
         EncFinish, streams
    <3> QED
      BY <3>1, EndedIs, StartedIs
  <2> QED
    BY <2>1, <2>2, <2>3, <2>4
<1>4. CASE Write
  <2>1. CASE WrRead
    BY <2>1, RecorderAssumption, ReadIs DEF WrRead
  <2>2. CASE ~WrRead
    <3>1. /\ record_stream' \in {record_stream, Stopped(record_stream)}
          /\ encode_stream' \in {encode_stream, Stopped(encode_stream)}
      BY <1>4, <2>2 DEF Write, WrReceive, WrInit, WrInitFail, WrStopRecord, WrStopEncode, WrFrame,
         WrFrameFail, WrRest, WrHeader, WrIdle, WrDestroy, streams
    <3> QED
      BY <3>1, EndedIs
  <2> QED
    BY <2>1, <2>2
<1>5. CASE UNCHANGED vars
  BY <1>5 DEF vars
<1> QED
  BY <1>1, <1>2, <1>3, <1>4, <1>5 DEF Next

LEMMA WrReadDoes ==
  ASSUME WrShape, WrRead
  PROVE  /\ Len(wr'.buf) = FrameUnits => wr'.pc = "frame"
         /\ Len(wr'.buf) # FrameUnits => wr'.pc = "rest"
         /\ wr'.pc \in {"frame", "rest"}
         /\ \/ /\ Has(encode_stream, "STOPPED") /\ UNCHANGED encode_stream
               /\ wr' = [wr EXCEPT !.buf = <<>>, !.pc = wr'.pc]
            \/ /\ ~Has(encode_stream, "STOPPED")
               /\ encode_stream' = AfterRead(encode_stream, FrameUnits)
               /\ wr' = [wr EXCEPT !.buf = ReadUnits(encode_stream, FrameUnits), !.pc = wr'.pc]
<1>1. CASE Has(encode_stream, "STOPPED")
  BY <1>1 DEF WrRead, WrShape
<1>2. CASE ~Has(encode_stream, "STOPPED")
  BY <1>2 DEF WrRead, WrShape
<1> QED
  BY <1>1, <1>2

LEMMA WrKeepsShape == ASSUME FileShape, [Next]_vars PROVE WrShape'
<1> USE DEF FileShape, WrShape
<1>0. <<>> \in Seq(Units)
  BY EmptySeq
<1>1. CASE Write
  <2>1. CASE WrReceive
    BY <1>0, <2>1, ZeroIs DEF WrReceive
  <2>2. CASE WrInit
    BY <1>0, <2>2 DEF WrInit, WrGoto
  <2>3. CASE WrInitFail \/ WrStopRecord \/ WrStopEncode \/ WrFrameFail \/ WrIdle \/ WrDestroy
    BY <2>3 DEF WrInitFail, WrStopRecord, WrStopEncode, WrFrameFail, WrIdle, WrDestroy, WrGoto
  <2>4. CASE WrRead
    <3>1. wr'.buf \in {<<>>, ReadUnits(encode_stream, FrameUnits)} /\ wr'.last = wr.last
      BY <2>4, WrReadDoes
    <3>2. ReadUnits(encode_stream, FrameUnits) \in Seq(Units)
      BY ReadIs, RecorderAssumption
    <3>3. file' = file /\ DOMAIN wr' = DOMAIN wr /\ wr.pc = "read"
      BY <2>4 DEF WrRead
    <3> QED
      BY <1>0, <3>1, <3>2, <3>3
  <2>5. CASE WrFrame
    <3>1. file \o wr.last \in Seq(Units)
      BY <2>5, ConcatProperties DEF WrFrame
    <3> QED
      BY <1>0, <2>5, <3>1 DEF WrFrame
  <2>6. CASE WrRest
    BY <2>6 DEF WrRest
  <2>7. CASE WrHeader
    BY <2>7 DEF WrHeader, WrGoto
  <2> QED
    BY <1>1, <2>1, <2>2, <2>3, <2>4, <2>5, <2>6, <2>7 DEF Write
<1> QED
  BY <1>1, ApplicationLeaves, CaptureLeaves, EncodeLeaves DEF Next, vars

LEMMA NextFileShape == FileShape /\ [Next]_vars => FileShape'
<1> SUFFICES ASSUME FileShape, [Next]_vars PROVE FileShape'
  OBVIOUS
<1> USE DEF FileShape
<1>1. header_size' \in {0, HeaderUnits}
  <2>1. header_size' \in {header_size, 0, HeaderSize(enc.type)}
    <3>1. CASE Encode
      BY <3>1 DEF Encode, EncReceive, EncInitFail, EncFail, EncStart, EncSend, EncHeader, EncInput,
         EncOutput, EncStop, EncFinish, fields
    <3>2. CASE Write
      BY <3>2 DEF Write, WrReceive, WrInit, WrInitFail, WrStopRecord, WrStopEncode, WrRead, WrFrame,
         WrFrameFail, WrRest, WrHeader, WrIdle, WrDestroy, fields
    <3> QED
      BY <3>1, <3>2, ApplicationLeaves, CaptureLeaves DEF Next, vars
  <2> QED
    BY <2>1 DEF HeaderSize
<1>2. recs' \in Nat
  <2>1. recs' \in {recs, recs + 1}
    <3>1. CASE Application
      BY <3>1 DEF Application, RecordCall, RecordSet, RecordFail, RecordSend, StopCall, StopFinish,
         StopIdleRecorder, StopSend, StopWait
    <3> QED
      BY <3>1, CaptureLeaves, EncodeLeaves, WriteLeaves DEF Next, vars
  <2> QED
    BY <2>1
<1>3. stored' \in Nat
  <2>1. stored' \in {stored, stored + 1, 0}
    <3>1. CASE Application
      BY <3>1 DEF Application, RecordCall, RecordSet, RecordFail, RecordSend, StopCall, StopFinish,
         StopIdleRecorder, StopSend, StopWait, history
    <3>2. CASE Capture
      BY <3>2 DEF Capture, CapReceive, CapOpenFail, CapStart, CapSend, CapRead, CapReadFail, CapWrite,
         CapFinish, history
    <3> QED
      BY <3>1, <3>2, EncodeLeaves, WriteLeaves DEF Next, vars
  <2> QED
    BY <2>1
<1> QED
  BY <1>1, <1>2, <1>3, StreamsKeepShape, CapKeepsShape, EncKeepsShape, WrKeepsShape

--------------------------------------------------------------------------------
(* The invariant. *)

\* The recorder is between two recordings, or has not begun to capture the next.
Awaited == AppHolds \/ RecordQueued \/ state = "IDLE"

\* The encoder has not taken the recording yet.  When it is not even done with the one
\* before, that one failed.
NotYet == AppHolds \/ RecordQueued \/ CapHolds \/ EncodeQueued \/ state = "IDLE"
Late   == enc.pc \notin {"wait", "init", "fail", "send"}

\* The encoder has taken it, and the writer is well.
Sound == enc.pc = "send" \/ WriteQueued \/ wr.pc \in {"init", "read", "frame", "rest"}

\* Where the capture is, against what record_stream took; and when that has ended.
CaptureOk ==
  /\ Awaited => Ended(record_stream)
  /\ AppHolds \/ RecordQueued \/ CapHolds => stored = 0
  /\ ~Ended(record_stream) /\ cap.pc \in {"read", "write"} => cap.next = stored + 1
  /\ enc.pc = "fail" => Ended(record_stream)
  /\ Sound /\ (enc.pc \in {"finish", "wait"} \/ (enc.pc = "header" /\ enc.res = "INPUT_ERROR"))
       => Ended(record_stream)
  /\ wr.pc \in {"stop_encode", "header", "idle"} => Ended(record_stream)

\* What the encoder has in hand at each of its places.
EncOk ==
  /\ enc.pc = "header" => enc.type = "wav" /\ enc.res \in {"none", "SUCCESS", "INPUT_ERROR"}
  /\ enc.pc \in {"init", "send", "input", "output"} => enc.res = "none"
  /\ enc.pc \in {"init", "send"} => enc.done = 0 /\ enc.total = 0
  /\ enc.pc \in {"input", "output", "stop", "finish"} => enc.done = 0
  /\ enc.pc = "header" /\ enc.res = "none" => enc.total = 0
  /\ enc.pc = "stop" => enc.res \in {"SUCCESS", "OUTPUT_ERROR"}
  /\ enc.pc = "finish" => enc.res \in {"SUCCESS", "INPUT_ERROR"}

\* The stream the encoder puts its output into, and what the writer made of it.
LateOk ==
  /\ enc.pc \notin {"wait", "init", "fail"} => Has(encode_stream, "RUN")
  /\ NotYet /\ Late => Has(encode_stream, "STOPPED")
  /\ wr.pc \in {"header", "idle"} /\ wr.info # "SUCCESS" => Has(encode_stream, "STOPPED")
  /\ wr.pc \in {"header", "idle"} /\ wr.info = "SUCCESS" => enc.pc = "wait" /\ enc.total <= stored
  /\ wr.pc \in {"init", "read", "frame", "rest"} => wr.info = "SUCCESS"
  /\ wr.pc \in {"stop_record", "stop_encode"} => wr.info # "SUCCESS"
  /\ Sound => /\ encode_stream.flags = IF enc.pc = "wait" THEN {"RUN", "FINISHED"} ELSE {"RUN"}
              /\ enc.pc # "fail" /\ (enc.pc = "stop" => enc.res = "SUCCESS")
              /\ enc.total <= stored
  /\ wr.pc = "rest" => enc.pc = "wait"

\* record_stream holds what comes behind the first i units of the recording.
Unread(i) ==
  \/ Has(record_stream, "STOPPED")
  \/ /\ i <= stored /\ Len(record_stream.data) = stored - i
     /\ \A k \in 1 .. Len(record_stream.data) : record_stream.data[k] = Data(recs, i + k)

\* The encoder still reads its input.
Reading == enc.pc \in {"send", "input"} \/ (enc.pc = "header" /\ enc.res = "none")

\* A recording is with the encoder or on its way there.
Fresh == cap.pc = "send" \/ EncodeQueued \/ enc.pc = "init"

\* What record_stream holds is what the encoder has yet to read.  An encoder that is
\* late may take a unit of the next recording, and then stops its stream.
InputOk ==
  /\ Fresh => \/ Unread(0) \/ enc.pc = "output"
              \/ enc.pc = "stop" /\ enc.res = "OUTPUT_ERROR"
  /\ Sound /\ Reading => Unread(enc.total)
  /\ Sound /\ enc.pc = "output" => /\ enc.total + 1 <= stored /\ Unread(enc.total + 1)
                                   /\ enc.buf[1] = Data(recs, enc.total + 1)

\* The units the encoder puts out: a header for no bytes, the data, a header.
Hs      == HeaderSize(enc.type)
Out(k)  == IF k <= Hs THEN <<"header", k, 0>>
           ELSE IF k <= Hs + enc.total THEN Data(recs, k - Hs)
           ELSE <<"header", k - Hs - enc.total, enc.total * BlockAlign>>
OutLen  == CASE enc.pc = "send" -> 0
             [] enc.pc = "header" /\ enc.res = "none" -> enc.done
             [] enc.pc \in {"input", "output"} -> Hs + enc.total
             [] enc.pc = "header" /\ enc.res # "none" -> Hs + enc.total + enc.done
             [] OTHER -> Hs + enc.total + Hs

\* All of them so far: in the file, in the last frame, in the frame just read and in
\* encode_stream.
Opened  == wr.pc \in {"read", "frame", "rest"}
Whole   == IF Opened THEN ((file \o wr.last) \o wr.buf) \o encode_stream.data
                     ELSE encode_stream.data
PutOut  == Len(Whole) = OutLen /\ \A k \in 1 .. Len(Whole) : Whole[k] = Out(k)

OutputOk ==
  /\ Sound \/ (wr.pc = "header" /\ wr.info = "SUCCESS") => header_size = Hs
  /\ Sound => PutOut
  /\ Opened => Len(wr.last) \in {0, FrameUnits} /\ (wr.last = <<>> => file = <<>>)
  /\ wr.pc \in {"init", "read"} => wr.buf = <<>>
  /\ wr.pc = "init" => wr.last = <<>>
  /\ wr.pc = "frame" => Len(wr.buf) = FrameUnits
  /\ wr.pc = "rest" => encode_stream.data = <<>>

\* What the last writes write, when none of them fails.
EndOk ==
  /\ wr.pc = "header" /\ wr.info = "SUCCESS" /\ ~torn =>
       /\ wr.header \in Seq(Units) /\ Len(wr.header) = Hs
       /\ \A k \in 1 .. Hs : wr.header[k] = <<"header", k, enc.total * BlockAlign>>
       /\ file \in Seq(Units) /\ Len(file) = Hs + enc.total
       /\ \A k \in Hs + 1 .. Len(file) : file[k] = Data(recs, k - Hs)
  /\ wr.pc = "idle" /\ wr.info = "SUCCESS" /\ ~torn => file = Recording(enc.total)

FileInv == /\ RecorderInv /\ StreamsEnded /\ FileShape
           /\ CaptureOk /\ EncOk /\ LateOk /\ InputOk /\ OutputOk /\ EndOk

LEMMA NextEncOk == ASSUME FileInv, [Next]_vars PROVE EncOk'
<1> USE DEF FileInv, FileShape, EncShape, EncOk
<1>1. CASE Encode
  <2>1. CASE EncReceive
    BY <2>1 DEF EncReceive
  <2>2. CASE EncInitFail \/ EncFail \/ EncStart
    BY <2>2 DEF EncInitFail, EncFail, EncStart, EncGoto
  <2>3. CASE EncSend
    <3>1. CASE enc.type = "wav"
      BY <2>3, <3>1 DEF EncSend, EncGoto
    <3>2. CASE enc.type # "wav"
      BY <2>3, <3>2 DEF EncSend, EncGoto
    <3> QED
      BY <3>1, <3>2
  <2>4. CASE EncHeader
    <3>1. CASE enc.done + 1 < HeaderUnits
      <4>1. enc' = [enc EXCEPT !.done = enc.done + 1] /\ enc.pc = "header"
        BY <2>4, <3>1 DEF EncHeader
      <4> QED
        BY <4>1
    <3>2. CASE ~(enc.done + 1 < HeaderUnits)
      <4>1. enc' = [enc EXCEPT !.done = 0, !.pc = Behind] /\ enc.pc = "header"
        BY <2>4, <3>2, EncHeaderDoes DEF EncHeader
      <4>2. /\ enc'.pc = Behind /\ enc'.done = 0 /\ enc'.res = enc.res
            /\ enc.res \in {"none", "SUCCESS", "INPUT_ERROR"}
        BY <4>1
      <4>3. CASE enc.res = "none"
        BY <4>2, <4>3 DEF Behind
      <4>4. CASE enc.res = "SUCCESS"
        BY <4>2, <4>4 DEF Behind
      <4>5. CASE enc.res = "INPUT_ERROR"
        BY <4>2, <4>5 DEF Behind
      <4> QED
        BY <4>2, <4>3, <4>4, <4>5
    <3> QED
      BY <3>1, <3>2
  <2>5. CASE EncInput
    <3>0. enc.pc = "input" /\ enc.done = 0
      BY <2>5 DEF EncInput
    <3>1. CASE enc' = [enc EXCEPT !.res = "INPUT_ERROR", !.pc = End("finish")]
      <4>1. CASE enc.type = "wav"
        BY <3>0, <3>1, <4>1 DEF End
      <4>2. CASE enc.type # "wav"
        BY <3>0, <3>1, <4>2 DEF End
      <4> QED
        BY <4>1, <4>2
    <3>2. CASE enc' = [enc EXCEPT !.res = "SUCCESS", !.pc = End("stop")]
      <4>1. CASE enc.type = "wav"
        BY <3>0, <3>2, <4>1 DEF End
      <4>2. CASE enc.type # "wav"
        BY <3>0, <3>2, <4>2 DEF End
      <4> QED
        BY <4>1, <4>2
    <3>3. CASE enc' = [enc EXCEPT !.pc = "output", !.buf = ReadUnits(record_stream, 1)]
      BY <3>0, <3>3
    <3> QED
      BY <2>5, <3>1, <3>2, <3>3, EncInputDoes
  <2>6. CASE EncOutput
    <3>0. enc.pc = "output" /\ enc.done = 0 /\ enc.res = "none"
      BY <2>6 DEF EncOutput
    <3>1. CASE enc' = [enc EXCEPT !.pc = "input", !.buf = <<>>, !.total = enc.total + 1]
      BY <3>0, <3>1
    <3>2. CASE enc' = [enc EXCEPT !.pc = "input", !.buf = <<>>]
      BY <3>0, <3>2
    <3>3. CASE enc' = [enc EXCEPT !.pc = "stop", !.buf = <<>>, !.res = "OUTPUT_ERROR"]
      BY <3>0, <3>3
    <3> QED
      BY <2>6, <3>1, <3>2, <3>3, EncOutputDoes
  <2>7. CASE EncStop
    <3>1. CASE enc.res = "OUTPUT_ERROR"
      BY <2>7, <3>1 DEF EncStop, EncGoto
    <3>2. CASE enc.res # "OUTPUT_ERROR"
      BY <2>7, <3>2 DEF EncStop, EncGoto
    <3> QED
      BY <3>1, <3>2
  <2>8. CASE EncFinish
    BY <2>8 DEF EncFinish, EncGoto
  <2> QED
    BY <1>1, <2>1, <2>2, <2>3, <2>4, <2>5, <2>6, <2>7, <2>8 DEF Encode
<1> QED
  BY <1>1, ApplicationLeaves, CaptureLeaves, WriteLeaves DEF Next, vars

\* Nobody but the capture thread starts record_stream, and what has ended stays ended.
LEMMA RecordEnds ==
  ASSUME FileInv, [Next]_vars, ~CapStart, Ended(record_stream)
  PROVE  Ended(record_stream')
<1> USE DEF FileInv, StreamsEnded
<1>1. \/ record_stream' \in {record_stream, Finished(record_stream), Stopped(record_stream)}
      \/ record_stream' = AfterRead(record_stream, 1)
      \/ record_stream' = AfterWrite(record_stream, Data(recs, cap.next))
  <2>1. CASE Application
    BY <2>1 DEF Application, RecordCall, RecordSet, RecordFail, RecordSend, StopCall, StopFinish,
       StopIdleRecorder, StopSend, StopWait, streams
  <2>2. CASE Capture
    BY <2>2 DEF Capture, CapReceive, CapOpenFail, CapSend, CapRead, CapReadFail, CapWrite,
       CapFinish, streams
  <2>3. CASE Encode
    BY <2>3 DEF Encode, EncReceive, EncInitFail, EncFail, EncStart, EncSend, EncHeader, EncInput,
       EncOutput, EncStop, EncFinish, streams
  <2>4. CASE Write
    BY <2>4 DEF Write, WrReceive, WrInit, WrInitFail, WrStopRecord, WrStopEncode, WrRead, WrFrame,
       WrFrameFail, WrRest, WrHeader, WrIdle, WrDestroy, streams
  <2> QED
    BY <2>1, <2>2, <2>3, <2>4 DEF Next, vars
<1> QED
  BY <1>1, Ending, MovingKeepsFlags

\* A recording is between a thread that has it in hand and nobody else.
LEMMA SoundAlone ==
  ASSUME OneRecording
  PROVE  /\ Sound => ~NotYet /\ enc.pc # "init"
         /\ wr.pc \notin {"wait", "destroy"} => ~NotYet /\ ~Fresh /\ enc.pc \notin {"init", "fail", "send"}
         /\ enc.pc \in {"init", "fail", "send"} => ~NotYet
  BY DEF OneRecording, Sound, NotYet, Fresh, AppHolds, RecordQueued, CapHolds, EncodeQueued, EncHolds,
         WriteQueued, WrHolds

LEMMA NextCaptureOk == ASSUME FileInv, [Next]_vars PROVE CaptureOk'
<1> USE DEF FileInv, FileShape, CapShape, EncShape, WrShape, RecorderInv, Shape, CaptureOk
<1>1. CASE Application
  <2>1. UNCHANGED <<write_queue, cap, enc, wr>> /\ (Sound' <=> Sound)
    BY <1>1, ApplicationLeaves DEF Sound, WriteQueued
  <2>2. Ended(record_stream) => Ended(record_stream')
    <3>1. ~CapStart
      BY <2>1 DEF CapStart, CapGoto
    <3> QED
      BY <1>1, <3>1, RecordEnds DEF Next
  <2>3. /\ Awaited' => Awaited
        /\ stored' = stored \/ (stored' = 0 /\ state = "IDLE")
        /\ (AppHolds \/ RecordQueued)' => AppHolds \/ RecordQueued \/ stored' = 0
        /\ ~Ended(record_stream') => ~Ended(record_stream)
    <3> USE DEF Awaited, AppHolds, RecordQueued, AppGoto, fields, queues, history, streams
    <3>1. CASE RecordCall
      BY <2>2, <3>1 DEF RecordCall
    <3>2. CASE RecordSet
      BY <2>2, <3>2 DEF RecordSet
    <3>3. CASE RecordFail
      BY <2>2, <3>3 DEF RecordFail
    <3>4. CASE RecordSend
      BY <2>2, <3>4 DEF RecordSend
    <3>5. CASE StopCall \/ StopFinish \/ StopIdleRecorder \/ StopWait
      BY <2>2, <3>5 DEF StopCall, StopFinish, StopIdleRecorder, StopWait
    <3>6. CASE StopSend
      BY <2>2, <3>6 DEF StopSend
    <3> QED
      BY <1>1, <3>1, <3>2, <3>3, <3>4, <3>5, <3>6 DEF Application
  <2>4. CapHolds' => stored' = 0
    BY <2>1, <2>3 DEF CapHolds, OneRecording
  <2> QED
    BY <2>1, <2>2, <2>3, <2>4 DEF Awaited
<1>2. CASE Capture
  <2>1. /\ UNCHANGED <<write_queue, app, enc, wr>> /\ (Sound' <=> Sound) /\ (AppHolds' <=> AppHolds)
    BY <1>2, CaptureLeaves DEF Sound, WriteQueued, AppHolds
  <2>2. CASE CapStart
    <3>1. ~Sound /\ wr.pc \in {"wait", "destroy"} /\ enc.pc # "fail" /\ ~Awaited
      BY <2>2 DEF CapStart, OneRecording, CapHolds, EncHolds, WriteQueued, WrHolds, Sound, Awaited,
         AppHolds, RecordQueued
    <3>2. stored = 0
      BY <2>2 DEF CapStart, CapHolds
    <3>3. ~Awaited' /\ stored' = stored /\ cap'.pc = "send"
      BY <2>1, <2>2, <3>1 DEF CapStart, Awaited, AppHolds, RecordQueued, CapGoto, queues, fields, history
    <3> QED
      BY <2>1, <3>1, <3>2, <3>3 DEF Awaited
  <2>3. CASE ~CapStart
    <3>1. Ended(record_stream) => Ended(record_stream')
      BY <1>2, <2>3, RecordEnds DEF Next
    <3>2. CASE CapReceive
      <4>1. \/ cap' = [cap EXCEPT !.pc = "open", !.type = Head(record_queue)] /\ RecordQueued
            \/ cap' \in {cap, [cap EXCEPT !.pc = "exited"]}
        BY <3>2 DEF CapReceive, CapGoto, RecordQueued
      <4>2. cap'.pc \notin {"read", "write"} /\ (CapHolds' => RecordQueued)
        BY <3>2, <4>1 DEF CapReceive, CapHolds
      <4>3. UNCHANGED <<state, stored, record_stream>> /\ ~RecordQueued'
        BY <3>2 DEF CapReceive, RecordQueued, fields, history, streams
      <4> QED
        BY <2>1, <4>2, <4>3 DEF Awaited
    <3>3. CASE CapOpenFail
      <4>1. Ended(record_stream)
        BY <3>3 DEF CapOpenFail, StreamsEnded
      <4>2. cap'.pc = "wait" /\ UNCHANGED <<record_queue, stored>>
        BY <3>3 DEF CapOpenFail, CapGoto, queues, history
      <4> QED
        BY <2>1, <3>1, <4>1, <4>2 DEF Awaited, CapHolds, RecordQueued
    <3>4. CASE CapSend
      <4>1. PICK where \in {"read", "exited"} : cap' = [cap EXCEPT !.pc = where, !.next = 1, !.sent = TRUE]
        BY <3>4 DEF CapSend
      <4>2. cap'.next = 1 /\ ~CapHolds'
        BY <4>1 DEF CapHolds
      <4>3. stored = 0
        BY <3>4 DEF CapSend, CapHolds
      <4>4. UNCHANGED <<record_queue, stored, state, record_stream>>
        BY <3>4 DEF CapSend, queues, history, fields, streams
      <4> QED
        BY <2>1, <4>2, <4>3, <4>4 DEF Awaited, RecordQueued
    <3>5. CASE CapRead
      <4>1. cap' = [cap EXCEPT !.pc = "write", !.left = CaptureUnits] /\ cap.pc = "read"
        BY <3>5 DEF CapRead
      <4>2. cap'.pc = "write" /\ cap'.next = cap.next
        BY <4>1
      <4>3. UNCHANGED <<record_queue, stored, state, record_stream>>
        BY <3>5 DEF CapRead, queues, history, fields, streams
      <4> QED
        BY <2>1, <4>1, <4>2, <4>3 DEF Awaited, RecordQueued, CapHolds
    <3>6. CASE CapReadFail \/ CapFinish
      <4>1. cap'.pc = "wait" /\ UNCHANGED <<record_queue, stored, state>>
        BY <3>6 DEF CapReadFail, CapFinish, CapGoto, queues, history, fields
      <4> QED
        BY <2>1, <3>1, <4>1 DEF Awaited, RecordQueued, CapHolds
    <3>7. CASE CapWrite
      <4>0. UNCHANGED <<record_queue, state>> /\ cap.pc = "write"
        BY <3>7 DEF CapWrite, queues, fields
      <4>1. CASE /\ WriteStores(record_stream, RecordCap)
                 /\ record_stream' = AfterWrite(record_stream, Data(recs, cap.next))
                 /\ stored' = stored + 1
                 /\ \E where \in {"write", "finish", "read"} :
                      cap' = [cap EXCEPT !.pc = where, !.next = cap.next + 1, !.left = cap.left - 1]
        <5>1. cap'.next = cap.next + 1 /\ ~CapHolds'
          BY <4>1 DEF CapHolds
        <5>2. ~Ended(record_stream)
          BY <4>1 DEF Ended, Has, WriteStores
        <5>3. cap.next = stored + 1
          BY <4>0, <5>2
        <5>4. ~Awaited
          BY <5>2
        <5>5. ~Awaited'
          BY <2>1, <4>0, <5>4 DEF Awaited, RecordQueued
        <5> QED
          BY <2>1, <3>1, <4>1, <5>1, <5>3, <5>5 DEF Awaited
      <4>2. CASE /\ WriteIgnored(record_stream) \/ WriteStopped(record_stream)
                 /\ cap' = [cap EXCEPT !.pc = "wait"]
                 /\ UNCHANGED <<record_stream, stored>>
        <5>1. cap'.pc = "wait"
          BY <4>2
        <5> QED
          BY <2>1, <4>0, <4>2, <5>1 DEF Awaited, RecordQueued, CapHolds
      <4> QED
        BY <3>7, <4>1, <4>2, CapWriteDoes
    <3> QED
      BY <1>2, <2>3, <3>2, <3>3, <3>4, <3>5, <3>6, <3>7 DEF Capture
  <2> QED
    BY <2>2, <2>3
<1>3. CASE Encode
  <2>1. /\ UNCHANGED <<record_queue, app, cap, wr, stored>>
        /\ (AppHolds' <=> AppHolds) /\ (CapHolds' <=> CapHolds) /\ (RecordQueued' <=> RecordQueued)
    BY <1>3, EncodeLeaves DEF AppHolds, CapHolds, RecordQueued
  <2>2. Ended(record_stream) => Ended(record_stream')
    <3>1. ~CapStart
      BY <1>3, EncodeLeaves DEF CapStart, CapGoto
    <3> QED
      BY <1>3, <3>1, RecordEnds DEF Next
  <2>3. CASE EncReceive
    <3>1. ~Sound
      BY <2>3 DEF EncReceive, Sound, OneRecording, EncodeQueued, EncHolds, WriteQueued, WrHolds
    <3>2. enc'.pc = "init" /\ UNCHANGED <<write_queue, state>>
      BY <2>3 DEF EncReceive, fields
    <3> QED
      BY <2>1, <2>2, <3>1, <3>2 DEF Awaited, Sound, WriteQueued
  <2>4. CASE EncInitFail
    <3>1. Ended(record_stream') /\ UNCHANGED <<state, stored>>
      BY <2>4, Ending DEF EncInitFail, StreamsEnded, fields, history
    <3> QED
      BY <2>1, <3>1
  <2>5. CASE EncFail
    <3>1. Ended(record_stream')
      BY <2>2, <2>5 DEF EncFail
    <3> QED
      BY <2>1, <3>1
  <2>6. CASE EncStart
    <3>1. enc'.pc = "send" /\ state' = state
      BY <2>6 DEF EncStart, EncGoto
    <3> QED
      BY <2>1, <2>2, <3>1 DEF Awaited
  <2>7. CASE EncSend
    <3>1. enc'.pc \in {"header", "input"} /\ enc'.res = "none" /\ state' = state
      BY <2>7 DEF EncSend, EncGoto, EncOk, fields
    <3> QED
      BY <2>1, <2>2, <3>1 DEF Awaited
  <2>8. CASE EncHeader
    <3>1. enc'.pc \in {"header", "input", "stop", "finish"} /\ enc'.res = enc.res
      BY <2>8, EncHeaderDoes DEF EncHeader
    <3>2. enc'.pc = "finish" => enc.res = "INPUT_ERROR"
      BY <2>8, <3>1, NextEncOk, EncHeaderDoes DEF EncOk, EncHeader, Behind
    <3>3. UNCHANGED <<state, write_queue>> /\ enc.pc = "header"
      BY <2>8 DEF EncHeader, fields, queues
    <3>4. Sound' => Sound
      BY <2>1, <3>1, <3>3 DEF Sound, WriteQueued
    <3> QED
      BY <2>1, <2>2, <3>1, <3>2, <3>3, <3>4 DEF Awaited
  <2>9. CASE EncInput
    <3>1. UNCHANGED <<state, write_queue>>
      BY <2>9 DEF EncInput, fields, queues
    <3>2. CASE /\ Has(record_stream, "STOPPED")
               /\ UNCHANGED record_stream
      <4>1. Ended(record_stream')
        BY <3>2 DEF Ended, Has
      <4> QED
        BY <2>1, <4>1
    <3>3. CASE Has(record_stream, "FINISHED")
      <4>1. Ended(record_stream')
        BY <2>2, <3>3 DEF Ended, Has
      <4> QED
        BY <2>1, <4>1
    <3>4. CASE enc' = [enc EXCEPT !.pc = "output", !.buf = ReadUnits(record_stream, 1)]
      <4>1. enc'.pc = "output"
        BY <3>4
      <4> QED
        BY <2>1, <2>2, <3>1, <4>1 DEF Awaited
    <3> QED
      BY <2>9, <3>2, <3>3, <3>4, EncInputDoes
  <2>10. CASE EncOutput
    <3>1. enc'.pc \in {"input", "stop"} /\ UNCHANGED state
      BY <2>10, EncOutputDoes DEF EncOutput, fields
    <3> QED
      BY <2>1, <2>2, <3>1 DEF Awaited
  <2>11. CASE EncStop
    <3>1. Ended(record_stream')
      BY <2>11, Ending DEF EncStop, StreamsEnded
    <3> QED
      BY <2>1, <3>1
  <2>12. CASE EncFinish
    <3>1. enc'.pc = "wait" /\ enc.pc = "finish" /\ UNCHANGED <<state, write_queue>>
      BY <2>12 DEF EncFinish, EncGoto, fields, queues
    <3> QED
      BY <2>1, <2>2, <3>1 DEF Awaited, Sound, WriteQueued
  <2> QED
    BY <1>3, <2>3, <2>4, <2>5, <2>6, <2>7, <2>8, <2>9, <2>10, <2>11, <2>12 DEF Encode
<1>4. CASE Write
  <2>1. /\ UNCHANGED <<record_queue, app, cap, enc, stored>>
        /\ (AppHolds' <=> AppHolds) /\ (CapHolds' <=> CapHolds) /\ (RecordQueued' <=> RecordQueued)
    BY <1>4, WriteLeaves DEF AppHolds, CapHolds, RecordQueued
  <2>2. Ended(record_stream) => Ended(record_stream')
    <3>1. ~CapStart
      BY <1>4, WriteLeaves DEF CapStart, CapGoto
    <3> QED
      BY <1>4, <3>1, RecordEnds DEF Next
  <2>3. CASE WrReceive
    <3>1. wr'.pc = "init" /\ Sound /\ state' = state
      BY <2>3 DEF WrReceive, Sound, WriteQueued, fields
    <3> QED
      BY <2>1, <2>2, <3>1 DEF Awaited
  <2>4. CASE WrInit \/ WrRead \/ WrFrame
    <3>1. wr'.pc \in {"read", "frame", "rest"} /\ Sound /\ state' = state
      BY <2>4, WrReadDoes DEF WrInit, WrRead, WrFrame, Sound, WrGoto, fields
    <3> QED
      BY <2>1, <2>2, <3>1 DEF Awaited
  <2>5. CASE WrInitFail \/ WrFrameFail
    <3>1. wr'.pc = "stop_record" /\ UNCHANGED <<state, write_queue>>
      BY <2>5 DEF WrInitFail, WrFrameFail, fields, queues
    <3>2. Sound' => Sound
      BY <2>1, <3>1 DEF Sound, WriteQueued
    <3> QED
      BY <2>1, <2>2, <3>1, <3>2 DEF Awaited
  <2>6. CASE WrStopRecord
    <3>1. Ended(record_stream')
      BY <2>6, Ending DEF WrStopRecord, StreamsEnded
    <3> QED
      BY <2>1, <3>1
  <2>7. CASE WrStopEncode \/ WrHeader \/ WrIdle
    <3>1. Ended(record_stream')
      BY <2>2, <2>7 DEF WrStopEncode, WrHeader, WrIdle
    <3> QED
      BY <2>1, <3>1
  <2>8. CASE WrRest
    <3>1. Ended(record_stream)
      BY <2>8 DEF WrRest, LateOk, Sound
    <3> QED
      BY <2>1, <2>2, <3>1
  <2>9. CASE WrDestroy
    <3>1. wr'.pc = "wait" /\ UNCHANGED <<state, write_queue>>
      BY <2>9 DEF WrDestroy, WrGoto, fields, queues
    <3>2. Sound' => Sound
      BY <2>1, <3>1 DEF Sound, WriteQueued
    <3> QED
      BY <2>1, <2>2, <3>1, <3>2 DEF Awaited
  <2> QED
    BY <1>4, <2>3, <2>4, <2>5, <2>6, <2>7, <2>8, <2>9 DEF Write
<1>5. CASE UNCHANGED vars
  BY <1>5 DEF vars, Awaited, Sound, AppHolds, RecordQueued, CapHolds, WriteQueued
<1> QED
  BY <1>1, <1>2, <1>3, <1>4, <1>5 DEF Next

\* Nobody but the encoder starts encode_stream, and no flag is taken away.
LEMMA EncodeFlags ==
  ASSUME FileInv, [Next]_vars, ~EncStart
  PROVE  encode_stream.flags \subseteq encode_stream'.flags
<1> USE DEF FileInv, FileShape
<1>1. CASE Encode
  <2>1. encode_stream' = encode_stream \/ encode_stream' = Finished(encode_stream)
        \/ \E u : encode_stream' = AfterWrite(encode_stream, u)
    BY <1>1 DEF Encode, EncReceive, EncInitFail, EncFail, EncSend, EncHeader, EncInput,
       EncOutput, EncStop, EncFinish, streams
  <2> QED
    BY <2>1 DEF IsStream, AfterWrite, Finished
<1>2. CASE Write
  <2>1. encode_stream' = encode_stream \/ encode_stream' = Stopped(encode_stream)
        \/ encode_stream' = AfterRead(encode_stream, FrameUnits)
    BY <1>2 DEF Write, WrReceive, WrInit, WrInitFail, WrStopRecord, WrStopEncode, WrRead, WrFrame,
       WrFrameFail, WrRest, WrHeader, WrIdle, WrDestroy, streams
  <2> QED
    BY <2>1 DEF IsStream, AfterRead, Stopped
<1> QED
  BY <1>1, <1>2, ApplicationLeaves, CaptureLeaves DEF Next, vars

LEMMA NextLateOk == ASSUME FileInv, [Next]_vars PROVE LateOk'
<1> USE DEF FileInv, FileShape, EncShape, WrShape, RecorderInv, LateOk
<1>0. ~EncStart => encode_stream.flags \subseteq encode_stream'.flags
  BY EncodeFlags
<1>1. CASE Application
  <2>1. UNCHANGED <<encode_queue, write_queue, encode_stream, cap, enc, wr>>
    BY <1>1, ApplicationLeaves
  <2>2. (Sound' <=> Sound) /\ (Late' <=> Late) /\ (CapHolds' <=> CapHolds)
        /\ (EncodeQueued' <=> EncodeQueued)
    BY <2>1 DEF Sound, Late, WriteQueued, CapHolds, EncodeQueued
  <2>3. /\ (AppHolds \/ RecordQueued \/ state = "IDLE")' => AppHolds \/ RecordQueued \/ state = "IDLE"
        /\ stored' = stored \/ state = "IDLE"
    BY <1>1 DEF AppHolds, RecordQueued, Shape, Application, RecordCall, RecordSet, RecordFail,
       RecordSend, StopCall, StopFinish, StopIdleRecorder, StopSend, StopWait, AppGoto, fields, queues,
       history
  <2>4. state = "IDLE" => ~Sound /\ wr.pc \in {"wait", "destroy"}
    BY DEF OneRecording, EncHolds, Sound, WriteQueued, WrHolds
  <2> QED
    BY <2>1, <2>2, <2>3, <2>4 DEF NotYet
<1>2. CASE Capture
  <2>1. UNCHANGED <<write_queue, encode_stream, app, enc, wr>> /\ (AppHolds' <=> AppHolds)
    BY <1>2, CaptureLeaves DEF AppHolds
  <2>2. (Sound' <=> Sound) /\ (Late' <=> Late)
    BY <2>1 DEF Sound, Late, WriteQueued
  <2>3. NotYet' => NotYet
    <3>1. CASE CapReceive
      <4>1. \/ cap' = [cap EXCEPT !.pc = "open", !.type = Head(record_queue)] /\ RecordQueued
            \/ cap' \in {cap, [cap EXCEPT !.pc = "exited"]}
        BY <3>1 DEF CapReceive, CapGoto, RecordQueued
      <4>2. CapHolds' => RecordQueued
        BY <3>1, <4>1 DEF CapReceive, CapHolds, CapShape
      <4>3. UNCHANGED <<state, encode_queue>> /\ ~RecordQueued'
        BY <3>1 DEF CapReceive, RecordQueued, fields
      <4> QED
        BY <2>1, <4>2, <4>3 DEF NotYet, EncodeQueued
    <3>2. CASE CapOpenFail \/ CapStart \/ CapSend
      BY <3>2 DEF CapOpenFail, CapStart, CapSend, NotYet, CapHolds
    <3>3. CASE CapRead \/ CapReadFail \/ CapFinish
      <4>1. ~CapHolds'
        BY <3>3 DEF CapRead, CapReadFail, CapFinish, CapHolds, CapGoto, CapShape
      <4>2. UNCHANGED <<record_queue, encode_queue, state>>
        BY <3>3 DEF CapRead, CapReadFail, CapFinish, queues, fields
      <4> QED
        BY <2>1, <4>1, <4>2 DEF NotYet, EncodeQueued, RecordQueued
    <3>4. CASE CapWrite
      <4>1. ~CapHolds'
        BY <3>4, CapWriteDoes DEF CapHolds, CapShape
      <4>2. UNCHANGED <<record_queue, encode_queue, state>>
        BY <3>4 DEF CapWrite, queues, fields
      <4> QED
        BY <2>1, <4>1, <4>2 DEF NotYet, EncodeQueued, RecordQueued
    <3> QED
      BY <1>2, <3>1, <3>2, <3>3, <3>4 DEF Capture
  <2>4. stored' \in {stored, stored + 1}
    BY <1>2 DEF Capture, CapReceive, CapOpenFail, CapStart, CapSend, CapRead, CapReadFail, CapWrite,
       CapFinish, history
  <2> QED
    BY <2>1, <2>2, <2>3, <2>4
<1>3. CASE Encode
  <2>1. /\ UNCHANGED <<record_queue, app, cap, wr, stored>>
        /\ (AppHolds' <=> AppHolds) /\ (CapHolds' <=> CapHolds) /\ (RecordQueued' <=> RecordQueued)
    BY <1>3, EncodeLeaves DEF AppHolds, CapHolds, RecordQueued
  <2>2. CASE EncReceive
    <3>1. NotYet /\ ~Sound /\ ~WrHolds
      BY <2>2 DEF EncReceive, NotYet, EncodeQueued, Sound, OneRecording, EncHolds, WriteQueued, WrHolds
    <3>2. enc'.pc = "init" /\ UNCHANGED <<write_queue, encode_stream>>
      BY <2>2 DEF EncReceive, streams
    <3> QED
      BY <2>1, <3>1, <3>2 DEF Late, Sound, WriteQueued, WrHolds
  <2>3. CASE EncInitFail \/ EncFail
    <3>1. ~Sound /\ ~WrHolds
      BY <2>3 DEF EncInitFail, EncFail, Sound, OneRecording, EncHolds, WriteQueued, WrHolds
    <3>2. enc'.pc \in {"fail", "wait"} /\ UNCHANGED <<write_queue, encode_stream>>
      BY <2>3 DEF EncInitFail, EncFail, EncGoto, queues, streams
    <3> QED
      BY <2>1, <3>1, <3>2 DEF Late, Sound, WriteQueued, WrHolds
  <2>4. CASE EncStart
    <3>1. ~WrHolds /\ enc.total = 0
      BY <2>4 DEF EncStart, OneRecording, EncHolds, WrHolds, EncOk
    <3>2. enc' = [enc EXCEPT !.pc = "send"] /\ encode_stream' = Started
      BY <2>4 DEF EncStart, EncGoto
    <3>3. enc'.pc = "send" /\ enc'.total = 0
      BY <3>1, <3>2
    <3> QED
      BY <2>1, <3>1, <3>2, <3>3, StartedIs DEF Late, WrHolds, Has
  <2>5. CASE EncSend
    <3>1. ~WrHolds /\ Sound /\ ~NotYet
      BY <2>5, SoundAlone DEF EncSend, OneRecording, EncHolds, WrHolds, Sound
    <3>2. UNCHANGED <<state, encode_queue, encode_stream>>
      BY <2>5 DEF EncSend, fields, streams
    <3>3. enc'.pc \in {"header", "input"} /\ enc'.total = enc.total /\ enc.pc = "send"
      BY <2>5 DEF EncSend, EncGoto
    <3>4. ~NotYet'
      BY <2>1, <3>1, <3>2 DEF NotYet, EncodeQueued
    <3> QED
      BY <2>1, <3>1, <3>2, <3>3, <3>4 DEF WrHolds
  <2>6. CASE EncHeader \/ EncInput \/ EncOutput \/ EncStop
    <3>0. enc.pc \in {"header", "input", "output", "stop"}
      BY <2>6 DEF EncHeader, EncInput, EncOutput, EncStop
    <3>1. UNCHANGED <<state, encode_queue, write_queue>>
      BY <2>6 DEF EncHeader, EncInput, EncOutput, EncStop, fields, queues
    <3>2. NotYet' <=> NotYet
      BY <2>1, <3>1 DEF NotYet, EncodeQueued
    <3>3. Sound => /\ enc'.pc \in {"header", "input", "output", "stop", "finish"}
                   /\ (enc'.pc = "stop" => enc'.res = "SUCCESS")
                   /\ encode_stream'.flags = {"RUN"} /\ enc'.total <= stored
      <4> SUFFICES ASSUME Sound
                   PROVE  /\ enc'.pc \in {"header", "input", "output", "stop", "finish"}
                          /\ (enc'.pc = "stop" => enc'.res = "SUCCESS")
                          /\ encode_stream'.flags = {"RUN"} /\ enc'.total <= stored
        OBVIOUS
      <4>0. encode_stream.flags = {"RUN"} /\ ~Has(encode_stream, "STOPPED")
        BY <3>0 DEF Has
      <4>1. ~WriteIgnored(encode_stream) /\ ~WriteStopped(encode_stream)
        BY <4>0 DEF WriteIgnored, WriteStopped, Has
      <4>2. CASE EncHeader
        <5>1. enc'.pc \in {"header", "input", "stop", "finish"} /\ enc'.res = enc.res
              /\ enc'.total = enc.total
          BY <2>6, <4>2, EncHeaderDoes DEF EncHeader
        <5>2. enc'.pc = "stop" => enc'.res = "SUCCESS"
          BY <4>2, <5>1, NextEncOk DEF EncOk, EncHeader
        <5>3. encode_stream'.flags = {"RUN"}
          BY <4>0, <4>1, <4>2, EncHeaderDoes DEF AfterWrite, IsStream
        <5> QED
          BY <5>1, <5>2, <5>3
      <4>3. CASE EncInput
        <5>1. encode_stream' = encode_stream
          BY <4>3 DEF EncInput
        <5>2. /\ enc'.pc \in {"header", "output", "stop", "finish"} /\ enc'.total = enc.total
              /\ (enc'.pc = "stop" => enc'.res = "SUCCESS")
          BY <4>3, EncInputDoes
        <5> QED
          BY <4>0, <5>1, <5>2
      <4>4. CASE EncOutput
        <5>1. /\ encode_stream' = AfterWrite(encode_stream, enc.buf[1])
              /\ enc' = [enc EXCEPT !.pc = "input", !.buf = <<>>, !.total = enc.total + 1]
          BY <4>1, <4>4, EncOutputDoes
        <5>2. enc'.pc = "input" /\ enc'.total = enc.total + 1
          BY <5>1
        <5>3. encode_stream'.flags = {"RUN"}
          BY <4>0, <5>1 DEF AfterWrite, IsStream
        <5>4. enc.total + 1 <= stored
          BY <4>4 DEF EncOutput, InputOk
        <5> QED
          BY <5>2, <5>3, <5>4
      <4>5. CASE EncStop
        <5>1. enc.res = "SUCCESS"
          BY <4>5 DEF EncStop
        <5>2. enc'.pc = "finish" /\ enc'.total = enc.total /\ encode_stream' = encode_stream
          BY <4>5, <5>1 DEF EncStop, EncGoto
        <5> QED
          BY <4>0, <5>2
      <4> QED
        BY <2>6, <4>2, <4>3, <4>4, <4>5
    <3>4. (Sound' => Sound) /\ wr.pc # "rest" /\ ~(wr.pc \in {"header", "idle"} /\ wr.info = "SUCCESS")
      <4>1. enc'.pc # "send"
        <5>1. CASE EncHeader
          BY <5>1, EncHeaderDoes DEF EncHeader
        <5>2. CASE EncInput
          BY <5>2, EncInputDoes
        <5>3. CASE EncOutput
          BY <5>3, EncOutputDoes
        <5>4. CASE EncStop
          BY <5>4 DEF EncStop, EncGoto
        <5> QED
          BY <2>6, <5>1, <5>2, <5>3, <5>4
      <4> QED
        BY <2>1, <3>0, <3>1, <4>1 DEF Sound, WriteQueued
    <3>5. encode_stream.flags \subseteq encode_stream'.flags
      <4>1. ~EncStart
        BY <3>0 DEF EncStart
      <4> QED
        BY <1>0, <4>1
    <3> QED
      BY <2>1, <3>0, <3>2, <3>3, <3>4, <3>5 DEF Late, Has
  <2>7. CASE EncFinish
    <3>1. enc'.pc = "wait" /\ enc.pc = "finish" /\ UNCHANGED <<state, encode_queue, write_queue>>
          /\ enc'.total = enc.total /\ encode_stream' = Finished(encode_stream)
      BY <2>7 DEF EncFinish, EncGoto, fields, queues
    <3>2. encode_stream'.flags = encode_stream.flags \cup {"FINISHED"}
      BY <3>1, EndedIs
    <3> QED
      BY <2>1, <3>1, <3>2 DEF Late, Sound, WriteQueued, Has
  <2> QED
    BY <1>3, <2>2, <2>3, <2>4, <2>5, <2>6, <2>7 DEF Encode
<1>4. CASE Write
  <2>1. /\ UNCHANGED <<record_queue, encode_queue, app, cap, enc, stored>>
        /\ (AppHolds' <=> AppHolds) /\ (CapHolds' <=> CapHolds) /\ (RecordQueued' <=> RecordQueued)
        /\ (EncodeQueued' <=> EncodeQueued)
    BY <1>4, WriteLeaves DEF AppHolds, CapHolds, RecordQueued, EncodeQueued
  <2>0. encode_stream.flags \subseteq encode_stream'.flags
    <3>1. ~EncStart
      BY <2>1 DEF EncStart, EncGoto
    <3> QED
      BY <1>0, <3>1
  <2>2. CASE WrReceive
    <3>1. wr' = [pc |-> "init", last |-> <<>>, buf |-> <<>>, info |-> "SUCCESS",
                 header |-> SubSeq(ZeroHeader, 1, header_size)]
      BY <2>2 DEF WrReceive
    <3>2. wr'.pc = "init" /\ wr'.info = "SUCCESS"
      BY <3>1
    <3>3. Sound /\ UNCHANGED <<state, encode_stream>>
      BY <2>2 DEF WrReceive, Sound, WriteQueued, fields, streams
    <3> QED
      BY <2>1, <3>2, <3>3 DEF NotYet, Late
  <2>3. CASE WrInit \/ WrFrame
    <3>1. wr'.pc = "read" /\ wr'.info = "SUCCESS" /\ Sound /\ UNCHANGED <<state, encode_stream>>
      BY <2>3 DEF WrInit, WrFrame, Sound, WrGoto, fields, streams
    <3> QED
      BY <2>1, <3>1 DEF NotYet, Late
  <2>4. CASE WrRead
    <3>0. Sound /\ wr.info = "SUCCESS" /\ UNCHANGED state /\ ReadReturns(encode_stream, FrameUnits)
      BY <2>4 DEF WrRead, Sound, fields
    <3>1. ~Has(encode_stream, "STOPPED")
      BY <3>0 DEF Has
    <3>2. /\ encode_stream' = AfterRead(encode_stream, FrameUnits)
          /\ wr' = [wr EXCEPT !.buf = ReadUnits(encode_stream, FrameUnits), !.pc = wr'.pc]
          /\ wr'.pc \in {"frame", "rest"} /\ (Len(wr'.buf) = FrameUnits => wr'.pc = "frame")
      BY <2>4, <3>1, WrReadDoes
    <3>3. wr'.info = "SUCCESS" /\ encode_stream'.flags = encode_stream.flags
      BY <3>0, <3>2 DEF AfterRead, IsStream
    <3>4. wr'.pc = "rest" => enc.pc = "wait"
      <4> SUFFICES ASSUME wr'.pc = "rest" PROVE enc.pc = "wait"
        OBVIOUS
      <4>1. FrameUnits \in Nat /\ Len(encode_stream.data) \in Nat
        BY RecorderAssumption, LenProperties DEF IsStream
      <4>2. wr'.buf = ReadUnits(encode_stream, FrameUnits)
        BY <3>2
      <4>3. Len(ReadUnits(encode_stream, FrameUnits)) # FrameUnits
        BY <3>2, <4>2
      <4>4. ~(Len(encode_stream.data) >= FrameUnits)
        BY <4>1, <4>3, ReadIs
      <4>5. Has(encode_stream, "FINISHED")
        BY <3>0, <3>1, <4>4 DEF ReadReturns
      <4> QED
        BY <3>0, <4>5 DEF Has
    <3> QED
      BY <2>1, <3>0, <3>2, <3>3, <3>4 DEF NotYet, Late, Has
  <2>5. CASE WrInitFail \/ WrFrameFail \/ WrDestroy
    <3>1. /\ wr'.pc \in {"stop_record", "wait"} /\ UNCHANGED <<state, write_queue, encode_stream>>
          /\ wr'.pc = "stop_record" => wr'.info # "SUCCESS"
      BY <2>5 DEF WrInitFail, WrFrameFail, WrDestroy, WrGoto, fields, queues, streams
    <3>2. Sound' => Sound
      BY <2>1, <3>1 DEF Sound, WriteQueued
    <3> QED
      BY <2>1, <3>1, <3>2 DEF NotYet, Late
  <2>6. CASE WrStopRecord
    <3>1. wr'.pc = "stop_encode" /\ wr'.info = wr.info /\ wr.pc = "stop_record"
          /\ UNCHANGED <<state, write_queue, encode_stream>>
      BY <2>6 DEF WrStopRecord, WrGoto, fields, queues
    <3>2. Sound' => Sound
      BY <2>1, <3>1 DEF Sound, WriteQueued
    <3> QED
      BY <2>1, <3>1, <3>2 DEF NotYet, Late
  <2>7. CASE WrStopEncode
    <3>1. wr'.pc \in {"header", "idle"} /\ wr.pc = "stop_encode"
          /\ UNCHANGED <<state, write_queue>> /\ wr'.info = wr.info
      BY <2>7 DEF WrStopEncode, WrGoto, fields, queues
    <3>2. Has(encode_stream', "STOPPED")
      BY <2>7, EndedIs DEF WrStopEncode, Has
    <3>3. ~Sound
      BY <3>1 DEF Sound, WriteQueued, OneRecording, WrHolds, EncHolds
    <3>4. wr.info # "SUCCESS"
      BY <3>1
    <3> QED
      BY <2>0, <2>1, <3>1, <3>2, <3>3, <3>4 DEF NotYet, Late, Sound, WriteQueued, Has
  <2>8. CASE WrRest
    <3>1. wr'.pc = "header" /\ wr'.info = "SUCCESS" /\ wr.pc = "rest" /\ enc.pc = "wait"
          /\ UNCHANGED <<state, write_queue, encode_stream>>
      BY <2>8 DEF WrRest, fields, queues, streams
    <3>2. enc.total <= stored
      BY <3>1 DEF Sound
    <3>3. Sound' => Sound
      BY <2>1, <3>1 DEF Sound, WriteQueued
    <3> QED
      BY <2>1, <3>1, <3>2, <3>3 DEF NotYet, Late
  <2>9. CASE WrHeader
    <3>1. wr'.pc = "idle" /\ wr'.info = wr.info /\ wr.pc = "header"
          /\ UNCHANGED <<state, write_queue, encode_stream>>
      BY <2>9 DEF WrHeader, WrGoto, queues, streams
    <3>2. Sound' => Sound
      BY <2>1, <3>1 DEF Sound, WriteQueued
    <3> QED
      BY <2>1, <3>1, <3>2 DEF NotYet, Late
  <2>10. CASE WrIdle
    <3>1. wr'.pc \in {"wait", "destroy"} /\ wr.pc = "idle" /\ UNCHANGED <<write_queue, encode_stream>>
      BY <2>10 DEF WrIdle, WrGoto, queues, streams
    <3>2. Sound' => Sound
      BY <2>1, <3>1 DEF Sound, WriteQueued
    <3>3. Late => Has(encode_stream, "STOPPED")
      BY <3>1 DEF Late
    <3> QED
      BY <2>1, <3>1, <3>2, <3>3 DEF NotYet, Late
  <2> QED
    BY <1>4, <2>2, <2>3, <2>4, <2>5, <2>6, <2>7, <2>8, <2>9, <2>10 DEF Write
<1>5. CASE UNCHANGED vars
  BY <1>5 DEF vars, NotYet, Late, Sound, AppHolds, RecordQueued, CapHolds, EncodeQueued, WriteQueued
<1> QED
  BY <1>1, <1>2, <1>3, <1>4, <1>5 DEF Next

\* What the encoder has yet to read, and what a step makes of it.
LEMMA UnreadStays ==
  ASSUME NEW i \in Nat, Unread(i), record_stream'.data = record_stream.data,
         record_stream.flags \subseteq record_stream'.flags, stored' = stored, recs' = recs
  PROVE  Unread(i)'
  BY DEF Unread, Has

LEMMA UnreadGrows ==
  ASSUME FileInv, CapWrite, NEW i \in Nat, Unread(i)
  PROVE  Unread(i)'
<1> USE DEF FileInv, FileShape, CapShape
<1>0. recs' = recs
  BY CaptureLeaves DEF Capture
<1>1. CASE UNCHANGED <<record_stream, stored>>
  BY <1>0, <1>1, UnreadStays
<1>2. CASE /\ WriteStores(record_stream, RecordCap)
           /\ record_stream' = AfterWrite(record_stream, Data(recs, cap.next))
           /\ stored' = stored + 1
  <2> DEFINE d == record_stream.data
  <2>1. cap.next = stored + 1 /\ ~Has(record_stream, "STOPPED")
    <3>1. ~Ended(record_stream) /\ ~Has(record_stream, "STOPPED")
      BY <1>2 DEF Ended, Has, WriteStores
    <3> QED
      BY <3>1 DEF CaptureOk, CapWrite
  <2>2. /\ i <= stored /\ Len(d) = stored - i
        /\ \A k \in 1 .. Len(d) : d[k] = Data(recs, i + k)
    BY <2>1 DEF Unread
  <2>3. record_stream'.data = Append(d, Data(recs, stored + 1))
    BY <1>2, <2>1, DataIsUnit, WrittenIs
  <2>4. d \in Seq(Units) /\ Data(recs, stored + 1) \in Units
    BY DataIsUnit DEF IsStream
  <2>5. /\ Len(record_stream'.data) = Len(d) + 1
        /\ record_stream'.data[Len(d) + 1] = Data(recs, stored + 1)
        /\ \A k \in 1 .. Len(d) : record_stream'.data[k] = d[k]
    BY <2>3, <2>4, AppendProperties
  <2> HIDE DEF d
  <2>6. Len(d) + 1 = stored' - i /\ i <= stored' /\ i + (Len(d) + 1) = stored + 1 /\ Len(d) \in Nat
    BY <1>2, <2>2
  <2>7. \A k \in 1 .. Len(d) + 1 : record_stream'.data[k] = Data(recs', i + k)
    <3> TAKE k \in 1 .. Len(d) + 1
    <3>1. k \in 1 .. Len(d) \/ k = Len(d) + 1
      BY <2>6
    <3> QED
      BY <1>0, <2>2, <2>5, <2>6, <3>1
  <2> QED
    BY <2>5, <2>6, <2>7 DEF Unread
<1> QED
  BY <1>1, <1>2, CapWriteDoes

LEMMA UnreadShrinks ==
  ASSUME FileInv, NEW i \in Nat, Unread(i), ~Has(record_stream, "STOPPED"), record_stream.data # <<>>,
         record_stream' = AfterRead(record_stream, 1), stored' = stored, recs' = recs
  PROVE  /\ Unread(i + 1)' /\ i + 1 <= stored
         /\ ReadUnits(record_stream, 1)[1] = Data(recs, i + 1)
<1> USE DEF FileInv, FileShape
<1> DEFINE d == record_stream.data
           e == AfterRead(record_stream, 1).data
<1>1. /\ i <= stored /\ Len(d) = stored - i
      /\ \A k \in 1 .. Len(d) : d[k] = Data(recs, i + k)
  BY DEF Unread
<1>2. /\ Len(ReadUnits(record_stream, 1)) = 1 /\ ReadUnits(record_stream, 1)[1] = d[1] /\ Len(d) >= 1
  BY OneUnit
<1>3. /\ 1 + Len(e) = Len(d)
      /\ \A k \in 1 .. Len(e) : e[k] = d[1 + k]
  <2>1. /\ Len(ReadUnits(record_stream, 1)) + Len(e) = Len(d)
        /\ \A k \in 1 .. Len(e) : e[k] = d[Len(ReadUnits(record_stream, 1)) + k]
    BY ReadIs
  <2> HIDE DEF d, e
  <2> QED
    BY <1>2, <2>1
<1>4. Len(d) \in Nat /\ Len(e) \in Nat
  BY ReadIs, LenProperties DEF IsStream
<1> HIDE DEF d, e
<1>5. i + 1 <= stored /\ Len(e) = stored - (i + 1) /\ 1 \in 1 .. Len(d)
  BY <1>1, <1>2, <1>3, <1>4
<1>6. \A k \in 1 .. Len(e) : e[k] = Data(recs, (i + 1) + k)
  <2> TAKE k \in 1 .. Len(e)
  <2>1. 1 + k \in 1 .. Len(d) /\ i + (1 + k) = (i + 1) + k
    BY <1>3, <1>4
  <2> QED
    BY <1>1, <1>3, <2>1
<1>7. record_stream'.data = e
  BY DEF e
<1> QED
  BY <1>1, <1>2, <1>5, <1>6, <1>7 DEF Unread

LEMMA NextInputOk == ASSUME FileInv, [Next]_vars PROVE InputOk'
<1> USE DEF FileInv, FileShape, CapShape, EncShape, WrShape, RecorderInv, InputOk
<1>1. CASE Application
  <2>1. UNCHANGED <<encode_queue, write_queue, encode_stream, cap, enc, wr>>
    BY <1>1, ApplicationLeaves
  <2>2. (Sound' <=> Sound) /\ (Fresh' <=> Fresh) /\ (Reading' <=> Reading)
    BY <2>1 DEF Sound, Fresh, Reading, WriteQueued, EncodeQueued
  <2>3. CASE RecordCall
    <3>1. ~Sound /\ ~Fresh
      BY <2>3 DEF RecordCall, Sound, Fresh, WriteQueued, EncodeQueued, OneRecording, EncHolds, CapHolds,
         WrHolds
    <3> QED
      BY <2>2, <3>1
  <2>4. CASE ~RecordCall
    <3>1. UNCHANGED <<recs, stored>> /\ record_stream' \in {record_stream, Finished(record_stream)}
      BY <1>1, <2>4 DEF Application, RecordSet, RecordFail, RecordSend, StopCall, StopFinish,
         StopIdleRecorder, StopSend, StopWait, history, streams
    <3>2. record_stream'.data = record_stream.data /\ record_stream.flags \subseteq record_stream'.flags
      BY <3>1, EndedIs
    <3>3. \A i \in Nat : Unread(i) => Unread(i)'
      BY <3>1, <3>2, UnreadStays
    <3> QED
      BY <2>1, <2>2, <3>1, <3>3
  <2> QED
    BY <2>3, <2>4
<1>2. CASE Capture
  <2>1. UNCHANGED <<write_queue, encode_stream, app, recs, enc, wr>>
    BY <1>2, CaptureLeaves
  <2>2. (Sound' <=> Sound) /\ (Reading' <=> Reading)
    BY <2>1 DEF Sound, Reading, WriteQueued
  <2>3. CASE CapStart
    <3>1. ~Sound
      BY <2>3 DEF CapStart, Sound, OneRecording, CapHolds, EncHolds, WriteQueued, WrHolds
    <3>2. record_stream' = Started /\ stored' = stored /\ stored = 0
      BY <2>3 DEF CapStart, history, CaptureOk, CapHolds
    <3>3. Unread(0)'
      <4>1. Len(record_stream'.data) = 0 /\ stored' = 0
        BY <3>2, StartedIs
      <4> QED
        BY <4>1 DEF Unread
    <3> QED
      BY <2>1, <2>2, <3>1, <3>3
  <2>4. CASE CapWrite
    <3>1. \A i \in Nat : Unread(i) => Unread(i)'
      BY <2>4, UnreadGrows
    <3>2. stored' \in {stored, stored + 1} /\ encode_queue' = encode_queue
      BY <2>4, CapWriteDoes DEF CapWrite, queues
    <3>3. Fresh' => Fresh
      <4>1. cap'.pc # "send"
        BY <2>4, CapWriteDoes
      <4> QED
        BY <2>1, <3>2, <4>1 DEF Fresh, EncodeQueued
    <3> QED
      BY <2>1, <2>2, <3>1, <3>2, <3>3
  <2>5. CASE ~CapStart /\ ~CapWrite
    <3>1. /\ record_stream' \in {record_stream, Finished(record_stream), Stopped(record_stream)}
          /\ stored' = stored
      BY <1>2, <2>5 DEF Capture, CapReceive, CapOpenFail, CapSend, CapRead, CapReadFail, CapFinish,
         streams, history
    <3>2. record_stream'.data = record_stream.data /\ record_stream.flags \subseteq record_stream'.flags
      BY <3>1, EndedIs
    <3>3. \A i \in Nat : Unread(i) => Unread(i)'
      BY <2>1, <3>1, <3>2, UnreadStays
    <3>4. Fresh' => Fresh
      <4>1. CASE CapSend
        BY <4>1 DEF CapSend, Fresh
      <4>2. CASE CapReceive \/ CapOpenFail \/ CapRead \/ CapReadFail \/ CapFinish
        <5>1. cap'.pc # "send" /\ encode_queue' = encode_queue
          BY <4>2 DEF CapReceive, CapOpenFail, CapRead, CapReadFail, CapFinish, CapGoto, queues
        <5> QED
          BY <2>1, <5>1 DEF Fresh, EncodeQueued
      <4> QED
        BY <1>2, <2>5, <4>1, <4>2 DEF Capture
    <3> QED
      BY <2>1, <2>2, <3>1, <3>3, <3>4
  <2> QED
    BY <2>3, <2>4, <2>5
<1>3. CASE Encode
  <2>1. UNCHANGED <<record_queue, app, recs, cap, wr, stored>>
    BY <1>3, EncodeLeaves
  <2>2. CASE EncReceive
    <3>1. Fresh /\ ~Sound /\ enc.pc = "wait"
      BY <2>2 DEF EncReceive, Fresh, EncodeQueued, Sound, OneRecording, EncHolds, WriteQueued, WrHolds
    <3>2. enc'.pc = "init" /\ UNCHANGED <<write_queue, record_stream>>
      BY <2>2 DEF EncReceive, streams
    <3>3. Unread(0)'
      BY <2>1, <3>1, <3>2, UnreadStays
    <3> QED
      BY <2>1, <3>1, <3>2, <3>3 DEF Sound, WriteQueued
  <2>3. CASE EncInitFail
    <3>1. ~Sound /\ Fresh /\ enc.pc = "init"
      BY <2>3 DEF EncInitFail, Sound, Fresh, OneRecording, EncHolds, WriteQueued, WrHolds
    <3>2. enc'.pc = "fail" /\ UNCHANGED write_queue /\ record_stream' = Stopped(record_stream)
      BY <2>3 DEF EncInitFail, EncGoto, queues
    <3>3. Unread(0)'
      BY <2>1, <3>1, <3>2, EndedIs, UnreadStays
    <3> QED
      BY <2>1, <3>1, <3>2, <3>3 DEF Sound, WriteQueued
  <2>4. CASE EncFail
    <3>1. ~Sound /\ enc'.pc = "wait" /\ UNCHANGED <<queues, record_stream>>
      BY <2>4 DEF EncFail, EncGoto, Sound, OneRecording, EncHolds, WriteQueued, WrHolds, streams
    <3>2. (Fresh' => Fresh) /\ ~Sound' /\ enc.pc = "fail"
      BY <2>1, <2>4, <3>1 DEF EncFail, Fresh, EncodeQueued, Sound, WriteQueued, queues
    <3>3. Unread(0) => Unread(0)'
      BY <2>1, <3>1, UnreadStays
    <3> QED
      BY <3>2, <3>3
  <2>5. CASE EncStart
    <3>1. Fresh /\ enc.total = 0 /\ enc.pc = "init"
      BY <2>5 DEF EncStart, EncOk, Fresh
    <3>2. enc'.pc = "send" /\ enc'.total = enc.total /\ UNCHANGED record_stream
      BY <2>5 DEF EncStart, EncGoto
    <3>3. Unread(0)'
      BY <2>1, <3>1, <3>2, UnreadStays
    <3> QED
      BY <3>1, <3>2, <3>3
  <2>6. CASE EncSend
    <3>1. Sound /\ Reading /\ enc.pc = "send"
      BY <2>6 DEF EncSend, Sound, Reading
    <3>2. enc'.pc \in {"header", "input"} /\ enc'.total = enc.total
          /\ UNCHANGED <<encode_queue, record_stream>>
      BY <2>6 DEF EncSend, EncGoto, streams
    <3>3. Unread(enc.total) => Unread(enc.total)'
      BY <2>1, <3>2, UnreadStays
    <3>4. Unread(0) => Unread(0)'
      BY <2>1, <3>2, UnreadStays
    <3>5. Fresh' => Fresh
      BY <2>1, <3>2 DEF Fresh, EncodeQueued
    <3>6. Unread(enc.total)'
      BY <3>1, <3>3
    <3> QED
      BY <2>1, <3>1, <3>2, <3>4, <3>5, <3>6 DEF Reading, Unread
  <2>7. CASE EncHeader
    <3>0. enc.pc = "header" /\ UNCHANGED <<encode_queue, write_queue, record_stream>>
      BY <2>7 DEF EncHeader, queues
    <3>1. /\ enc'.pc \in {"header", "input", "stop", "finish"} /\ enc'.total = enc.total
          /\ enc'.res = enc.res /\ (enc'.pc = "input" => enc.res = "none")
      <4>1. Behind = "input" => enc.res = "none"
        BY DEF Behind
      <4> QED
        BY <2>7, <3>0, <4>1, EncHeaderDoes
    <3>2. \A i \in Nat : Unread(i) => Unread(i)'
      BY <2>1, <3>0, UnreadStays
    <3>3. (Sound' => Sound) /\ (Fresh' => Fresh) /\ (Reading' => Reading)
      BY <2>1, <3>0, <3>1 DEF Sound, Fresh, Reading, WriteQueued, EncodeQueued
    <3> QED
      BY <2>1, <3>0, <3>1, <3>2, <3>3
  <2>8. CASE EncInput
    <3>0. enc.pc = "input" /\ Reading /\ UNCHANGED <<encode_queue, write_queue>>
      BY <2>8 DEF EncInput, Reading, queues
    <3>1. CASE /\ Has(record_stream, "STOPPED")
               /\ enc' = [enc EXCEPT !.res = "INPUT_ERROR", !.pc = End("finish")]
               /\ End("finish") \in {"header", "finish"}
               /\ UNCHANGED record_stream
      <4>1. enc'.pc \in {"header", "finish"} /\ enc'.res = "INPUT_ERROR"
        BY <3>1
      <4> QED
        BY <3>1, <4>1 DEF Reading, Unread
    <3>2. CASE /\ record_stream.data = <<>>
               /\ enc' = [enc EXCEPT !.res = "SUCCESS", !.pc = End("stop")]
               /\ End("stop") \in {"header", "stop"}
               /\ record_stream' = AfterRead(record_stream, 1)
      <4>1. enc'.pc \in {"header", "stop"} /\ enc'.res = "SUCCESS"
        BY <3>2
      <4>2. Unread(0) => Unread(0)'
        <5>1. Len(record_stream.data) = 0
          BY <3>2
        <5>2. /\ Len(ReadUnits(record_stream, 1)) + Len(record_stream'.data) = 0
              /\ Len(ReadUnits(record_stream, 1)) \in Nat /\ Len(record_stream'.data) \in Nat
              /\ record_stream'.flags = record_stream.flags
          <6>1. IsStream(record_stream')
            BY <3>2, ReadIs
          <6>2. record_stream'.flags = record_stream.flags
                /\ Len(ReadUnits(record_stream, 1)) + Len(record_stream'.data)
                     = Len(record_stream.data)
                /\ ReadUnits(record_stream, 1) \in Seq(Units)
            BY <3>2, ReadIs
          <6> QED
            BY <5>1, <6>1, <6>2, LenProperties DEF IsStream
        <5>3. Len(record_stream'.data) = 0
          BY <5>2
        <5> QED
          BY <2>1, <5>1, <5>2, <5>3 DEF Unread, Has
      <4>3. Fresh' => Fresh
        BY <2>1, <3>0, <4>1 DEF Fresh, EncodeQueued
      <4> QED
        BY <3>0, <4>1, <4>2, <4>3 DEF Reading
    <3>3. CASE /\ ~Has(record_stream, "STOPPED") /\ record_stream.data # <<>>
               /\ enc' = [enc EXCEPT !.pc = "output", !.buf = ReadUnits(record_stream, 1)]
               /\ record_stream' = AfterRead(record_stream, 1)
      <4>1. enc'.pc = "output" /\ enc'.total = enc.total /\ enc'.buf = ReadUnits(record_stream, 1)
        BY <3>3
      <4>2. Sound' => Sound
        BY <2>1, <3>0, <4>1 DEF Sound, WriteQueued
      <4>3. ASSUME Sound
            PROVE  /\ Unread(enc.total + 1)' /\ enc.total + 1 <= stored
                   /\ ReadUnits(record_stream, 1)[1] = Data(recs, enc.total + 1)
        <5>1. PICK i \in Nat : i = enc.total
          OBVIOUS
        <5>2. Unread(i)
          BY <3>0, <4>3, <5>1
        <5>3. /\ Unread(i + 1)' /\ i + 1 <= stored
              /\ ReadUnits(record_stream, 1)[1] = Data(recs, i + 1)
          BY <2>1, <3>3, <5>2, UnreadShrinks
        <5> QED
          BY <4>1, <5>1, <5>3 DEF Unread
      <4> QED
        BY <2>1, <4>1, <4>2, <4>3 DEF Reading
    <3> QED
      BY <2>8, <3>1, <3>2, <3>3, EncInputDoes
  <2>9. CASE EncOutput
    <3>0. enc.pc = "output" /\ UNCHANGED <<encode_queue, write_queue, record_stream>>
      BY <2>9 DEF EncOutput, queues
    <3>1. \A i \in Nat : Unread(i) => Unread(i)'
      BY <2>1, <3>0, UnreadStays
    <3>2. enc'.pc \in {"input", "stop"}
      BY <2>9, EncOutputDoes
    <3>3. (Sound' => Sound) /\ (Fresh' => Fresh)
      BY <2>1, <3>0, <3>2 DEF Sound, Fresh, WriteQueued, EncodeQueued
    <3>4. ASSUME Fresh PROVE enc'.pc = "stop" /\ enc'.res = "OUTPUT_ERROR"
      <4>1. Has(encode_stream, "STOPPED") /\ Has(encode_stream, "RUN") /\ ~Has(encode_stream, "RESET")
        BY <3>0, <3>4 DEF Fresh, LateOk, NotYet, Late, CapHolds, StreamsEnded, Plain
      <4>2. ~WriteStores(encode_stream, EncodeCap) /\ ~WriteIgnored(encode_stream)
        BY <4>1 DEF WriteStores, WriteIgnored, Has
      <4>3. enc' = [enc EXCEPT !.pc = "stop", !.buf = <<>>, !.res = "OUTPUT_ERROR"]
        BY <2>9, <4>2, EncOutputDoes
      <4> QED
        BY <4>3
    <3>5. ASSUME Sound PROVE enc'.pc = "input" /\ enc'.total = enc.total + 1
      <4>1. encode_stream.flags = {"RUN"}
        BY <3>0, <3>5 DEF LateOk
      <4>2. ~WriteIgnored(encode_stream) /\ ~WriteStopped(encode_stream)
        BY <4>1 DEF WriteIgnored, WriteStopped, Has
      <4>3. enc' = [enc EXCEPT !.pc = "input", !.buf = <<>>, !.total = enc.total + 1]
        BY <2>9, <4>2, EncOutputDoes
      <4> QED
        BY <4>3
    <3>6. ASSUME Sound PROVE Unread(enc.total)'
      <4>1. PICK i \in Nat : i = enc.total + 1
        OBVIOUS
      <4>2. Unread(i)'
        BY <3>0, <3>1, <3>6, <4>1
      <4> QED
        BY <3>5, <3>6, <4>1, <4>2 DEF Unread
    <3> QED
      BY <3>2, <3>3, <3>4, <3>5, <3>6
  <2>10. CASE EncStop
    <3>1. enc'.pc \in {"wait", "finish"} /\ Has(record_stream', "STOPPED")
      BY <2>10, EndedIs DEF EncStop, EncGoto, Has
    <3> QED
      BY <3>1 DEF Reading, Unread
  <2>11. CASE EncFinish
    <3>1. enc.pc = "finish" /\ enc'.pc = "wait" /\ UNCHANGED <<encode_queue, record_stream>>
      BY <2>11 DEF EncFinish, EncGoto, queues
    <3>2. Unread(0) => Unread(0)'
      BY <2>1, <3>1, UnreadStays
    <3>3. Fresh' => Fresh
      BY <2>1, <3>1 DEF Fresh, EncodeQueued
    <3> QED
      BY <3>1, <3>2, <3>3 DEF Reading
  <2> QED
    BY <1>3, <2>2, <2>3, <2>4, <2>5, <2>6, <2>7, <2>8, <2>9, <2>10, <2>11 DEF Encode
<1>4. CASE Write
  <2>1. UNCHANGED <<record_queue, encode_queue, recs, app, cap, enc, stored>>
    BY <1>4, WriteLeaves
  <2>2. record_stream' \in {record_stream, Stopped(record_stream)}
    BY <1>4 DEF Write, WrReceive, WrInit, WrInitFail, WrStopRecord, WrStopEncode, WrRead, WrFrame,
       WrFrameFail, WrRest, WrHeader, WrIdle, WrDestroy, streams
  <2>3. record_stream'.data = record_stream.data /\ record_stream.flags \subseteq record_stream'.flags
    BY <2>2, EndedIs
  <2>4. \A i \in Nat : Unread(i) => Unread(i)'
    BY <2>1, <2>3, UnreadStays
  <2>5. (Fresh' <=> Fresh) /\ (Reading' <=> Reading)
    BY <2>1 DEF Fresh, Reading, EncodeQueued
  <2>6. Sound' => Sound
    <3>1. CASE WrReceive
      BY <3>1 DEF WrReceive, Sound, WriteQueued
    <3>2. CASE WrInit \/ WrRead \/ WrFrame
      BY <3>2 DEF WrInit, WrRead, WrFrame, Sound
    <3>3. CASE WrInitFail \/ WrStopRecord \/ WrStopEncode \/ WrFrameFail \/ WrRest \/ WrHeader
               \/ WrIdle \/ WrDestroy
      <4>1. write_queue' = write_queue /\ wr'.pc \notin {"init", "read", "frame", "rest"}
        BY <3>3 DEF WrInitFail, WrStopRecord, WrStopEncode, WrFrameFail, WrRest, WrHeader, WrIdle,
           WrDestroy, WrGoto, queues
      <4> QED
        BY <2>1, <4>1 DEF Sound, WriteQueued
    <3> QED
      BY <1>4, <3>1, <3>2, <3>3 DEF Write
  <2> QED
    BY <2>1, <2>4, <2>5, <2>6
<1>5. CASE UNCHANGED vars
  BY <1>5 DEF vars, Fresh, Sound, Reading, Unread, EncodeQueued, WriteQueued
<1> QED
  BY <1>1, <1>2, <1>3, <1>4, <1>5 DEF Next

--------------------------------------------------------------------------------
(* What the encoder has put out so far, wherever it is. *)

\* What a read takes and what it leaves make what was there.
LEMMA ReadJoins ==
  ASSUME NEW s, IsStream(s), NEW n \in Nat
  PROVE  ReadUnits(s, n) \o AfterRead(s, n).data = s.data
<1> DEFINE a == ReadUnits(s, n)
           b == AfterRead(s, n).data
           d == s.data
<1>1. /\ a \in Seq(Units) /\ b \in Seq(Units) /\ d \in Seq(Units)
      /\ Len(a) + Len(b) = Len(d)
      /\ \A k \in 1 .. Len(a) : a[k] = d[k]
      /\ \A k \in 1 .. Len(b) : b[k] = d[Len(a) + k]
  BY ReadIs DEF IsStream
<1> HIDE DEF a, b, d
<1>2. Len(a) \in Nat /\ Len(b) \in Nat /\ Len(d) \in Nat
  BY <1>1, LenProperties
<1>3. /\ a \o b \in Seq(Units) /\ Len(a \o b) = Len(d)
      /\ \A k \in 1 .. Len(a) + Len(b) : (a \o b)[k] = IF k <= Len(a) THEN a[k] ELSE b[k - Len(a)]
  BY <1>1, ConcatProperties
<1>4. \A k \in 1 .. Len(a \o b) : (a \o b)[k] = d[k]
  <2> TAKE k \in 1 .. Len(a \o b)
  <2>1. CASE k <= Len(a)
    BY <1>1, <1>2, <1>3, <2>1
  <2>2. CASE ~(k <= Len(a))
    <3>1. (a \o b)[k] = b[k - Len(a)]
      BY <1>1, <1>3, <2>2
    <3>2. k - Len(a) \in 1 .. Len(b) /\ Len(a) + (k - Len(a)) = k
      BY <1>1, <1>2, <1>3, <2>2
    <3> QED
      BY <1>1, <3>1, <3>2
  <2> QED
    BY <2>1, <2>2
<1>5. a \o b = d
  BY <1>1, <1>3, <1>4, SeqEqual
<1> QED
  BY <1>5 DEF a, b, d

LEMMA WriteJoins ==
  ASSUME NEW S, NEW w \in Seq(S), NEW d \in Seq(S), NEW u \in S
  PROVE  w \o Append(d, u) = Append(w \o d, u)
<1>1. <<u>> \in Seq(S)
  OBVIOUS
<1>2. w \o d \in Seq(S)
  BY ConcatProperties
<1>3. Append(d, u) = d \o <<u>> /\ Append(w \o d, u) = (w \o d) \o <<u>>
  BY <1>2, AppendIsConcat
<1> QED
  BY <1>1, <1>3, ConcatAssociative

LEMMA WholeIsSeq == ASSUME FileShape PROVE Whole \in Seq(Units)
<1> USE DEF FileShape, WrShape, IsStream
<1>1. CASE Opened
  <2>1. file \o wr.last \in Seq(Units)
    BY <1>1, ConcatProperties DEF Opened
  <2>2. (file \o wr.last) \o wr.buf \in Seq(Units)
    BY <2>1, ConcatProperties
  <2>3. ((file \o wr.last) \o wr.buf) \o encode_stream.data \in Seq(Units)
    BY <2>2, ConcatProperties
  <2> QED
    BY <1>1, <2>3 DEF Whole
<1>2. CASE ~Opened
  BY <1>2 DEF Whole
<1> QED
  BY <1>1, <1>2

LEMMA SamePutOut ==
  ASSUME PutOut, Whole' = Whole, OutLen' = OutLen, enc'.type = enc.type, enc'.total = enc.total,
         recs' = recs
  PROVE  PutOut'
<1>1. \A k : Out(k)' = Out(k)
  BY DEF Out, Hs
<1> QED
  BY <1>1 DEF PutOut

LEMMA MorePutOut ==
  ASSUME FileShape, PutOut, NEW u \in Units, Whole' = Append(Whole, u), OutLen' = OutLen + 1,
         \A k \in 1 .. OutLen : Out(k)' = Out(k),
         \A k : k = OutLen + 1 => u = Out(k)'
  PROVE  PutOut'
<1>1. Whole \in Seq(Units)
  BY WholeIsSeq
<1>2. Len(Whole) \in Nat /\ Len(Whole) = OutLen
  BY <1>1, LenProperties DEF PutOut
<1>3. /\ Len(Whole') = OutLen + 1 /\ Whole'[OutLen + 1] = u
      /\ \A k \in 1 .. OutLen : Whole'[k] = Whole[k]
  BY <1>1, <1>2, AppendProperties
<1>4. \A k \in 1 .. OutLen + 1 : Whole'[k] = Out(k)'
  <2> TAKE k \in 1 .. OutLen + 1
  <2>1. k \in 1 .. OutLen \/ k = OutLen + 1
    BY <1>2
  <2>2. CASE k \in 1 .. OutLen
    BY <1>2, <1>3, <2>2 DEF PutOut
  <2>3. CASE k = OutLen + 1
    BY <1>3, <2>3
  <2> QED
    BY <2>1, <2>2, <2>3
<1> QED
  BY <1>3, <1>4 DEF PutOut

\* A unit that goes into encode_stream goes behind all the others.
LEMMA WholeGrows ==
  ASSUME FileShape, NEW u \in Units, encode_stream' = AfterWrite(encode_stream, u),
         wr' = wr, file' = file
  PROVE  Whole' = Append(Whole, u)
<1> USE DEF FileShape, WrShape
<1>1. encode_stream'.data = Append(encode_stream.data, u) /\ encode_stream.data \in Seq(Units)
  BY WrittenIs DEF IsStream
<1>2. CASE Opened
  <2> DEFINE w == (file \o wr.last) \o wr.buf
  <2>1. file \o wr.last \in Seq(Units)
    BY <1>2, ConcatProperties DEF Opened
  <2>2. w \in Seq(Units)
    BY <2>1, ConcatProperties
  <2>3. Whole = w \o encode_stream.data /\ Whole' = w \o encode_stream'.data
    BY <1>2 DEF Whole, Opened
  <2> HIDE DEF w
  <2>4. w \o Append(encode_stream.data, u) = Append(w \o encode_stream.data, u)
    BY ONLY <1>1, <2>2, WriteJoins
  <2> QED
    BY <1>1, <2>3, <2>4
<1>3. CASE ~Opened
  BY <1>1, <1>3 DEF Whole, Opened
<1> QED
  BY <1>2, <1>3

OutLens ==
  /\ enc.pc = "send" => OutLen = 0
  /\ enc.pc = "header" /\ enc.res = "none" => OutLen = enc.done
  /\ enc.pc \in {"input", "output"} => OutLen = Hs + enc.total
  /\ enc.pc = "header" /\ enc.res # "none" => OutLen = Hs + enc.total + enc.done
  /\ enc.pc \in {"stop", "finish", "wait"} => OutLen = Hs + enc.total + Hs

LEMMA OutLenIs == OutLens
<1> USE DEF OutLens
<1>1. CASE enc.pc = "send"
  BY <1>1 DEF OutLen
<1>2. CASE enc.pc = "header"
  BY <1>2 DEF OutLen
<1>3. CASE enc.pc \in {"input", "output"}
  BY <1>3 DEF OutLen
<1>4. CASE enc.pc \in {"stop", "finish", "wait"}
  BY <1>4 DEF OutLen
<1> QED
  BY <1>1, <1>2, <1>3, <1>4

LEMMA HeaderPutsOut ==
  ASSUME FileInv, EncHeader, Sound
  PROVE  PutOut'
<1> USE DEF FileInv, FileShape, EncShape
<1>0. /\ enc.pc = "header" /\ enc.type = "wav" /\ Hs = HeaderUnits /\ PutOut
      /\ UNCHANGED <<recs, wr, file>> /\ HeaderUnits \in Nat \ {0} /\ BlockAlign \in Nat
      /\ OutLens /\ OutLens'
  <2>1. OutLens /\ OutLens'
    BY OutLenIs, PTL
  <2> QED
    BY <2>1, RecorderAssumption DEF EncHeader, EncOk, Hs, HeaderSize, OutputOk, caller
<1> DEFINE u == WavHeader(enc.total)[enc.done + 1]
<1>1. u \in Units /\ u = <<"header", enc.done + 1, enc.total * BlockAlign>>
  <2>1. enc.done + 1 \in 1 .. HeaderUnits /\ enc.total \in Nat
    BY <1>0
  <2> QED
    BY <2>1, HeaderIs
<1>2. encode_stream' = AfterWrite(encode_stream, u)
  <2>1. encode_stream.flags = {"RUN"}
    BY <1>0 DEF LateOk
  <2>2. ~WriteIgnored(encode_stream) /\ ~WriteStopped(encode_stream)
    BY <2>1 DEF WriteIgnored, WriteStopped, Has
  <2> QED
    BY <2>2, EncHeaderDoes
<1>3. /\ enc'.type = enc.type /\ enc'.total = enc.total /\ enc'.res = enc.res
      /\ \/ enc.done + 1 < HeaderUnits /\ enc'.done = enc.done + 1 /\ enc'.pc = "header"
         \/ /\ enc.done + 1 = HeaderUnits /\ enc'.pc = Behind /\ enc'.done = 0
  <2>1. CASE enc.done + 1 < HeaderUnits
    BY <1>0, <2>1, EncHeaderDoes
  <2>2. CASE ~(enc.done + 1 < HeaderUnits)
    <3>1. enc' = [enc EXCEPT !.done = 0, !.pc = Behind]
      BY <2>2, EncHeaderDoes
    <3>2. enc.done + 1 = HeaderUnits
      BY <1>0, <2>2
    <3> QED
      BY <3>1, <3>2
  <2> QED
    BY <2>1, <2>2
<1>4. Whole' = Append(Whole, u)
  BY <1>0, <1>1, <1>2, WholeGrows
<1>5. Hs' = Hs /\ \A k : Out(k)' = Out(k)
  BY <1>0, <1>3 DEF Out, Hs
<1> HIDE DEF u
<1>6. CASE enc.res = "none"
  <2>1. enc.total = 0 /\ OutLen = enc.done
    BY <1>0, <1>6 DEF EncOk, OutLens
  <2>2. OutLen' = enc.done + 1
    <3>1. CASE enc'.pc = "header" /\ enc'.done = enc.done + 1
      BY <1>3, <1>6, <1>0, <3>1 DEF OutLens
    <3>2. CASE enc.done + 1 = HeaderUnits /\ enc'.pc = Behind
      <4>1. enc'.pc = "input"
        BY <1>6, <3>2 DEF Behind
      <4>2. OutLen' = Hs' + enc'.total
        BY <1>0, <4>1 DEF OutLens
      <4> QED
        BY <1>0, <1>3, <1>5, <2>1, <3>2, <4>2
    <3> QED
      BY <1>3, <3>1, <3>2
  <2>3. Out(enc.done + 1) = u
    <3>1. enc.done + 1 <= Hs
      BY <1>0
    <3>2. enc.total * BlockAlign = 0
      BY <1>0, <2>1
    <3> QED
      BY <1>1, <3>1, <3>2 DEF Out
  <2> QED
    BY <1>0, <1>1, <1>4, <1>5, <2>1, <2>2, <2>3, MorePutOut
<1>7. CASE enc.res # "none"
  <2>1. OutLen = Hs + enc.total + enc.done
    BY <1>0, <1>7 DEF OutLens
  <2>2. OutLen' = Hs + enc.total + enc.done + 1
    <3>1. CASE enc'.pc = "header" /\ enc'.done = enc.done + 1
      <4>1. OutLen' = Hs' + enc'.total + enc'.done
        BY <1>3, <1>7, <1>0, <3>1 DEF OutLens
      <4> QED
        BY <1>0, <1>3, <1>5, <3>1, <4>1
    <3>2. CASE enc.done + 1 = HeaderUnits /\ enc'.pc = Behind
      <4>1. enc'.pc \in {"stop", "finish"}
        BY <1>7, <3>2 DEF Behind
      <4>2. OutLen' = Hs' + enc'.total + Hs'
        BY <1>0, <4>1 DEF OutLens
      <4> QED
        BY <1>0, <1>3, <1>5, <3>2, <4>2
    <3> QED
      BY <1>3, <3>1, <3>2
  <2>3. Out(OutLen + 1) = u
    <3> DEFINE k == Hs + enc.total + enc.done + 1
    <3>1. /\ ~(k <= Hs) /\ ~(k <= Hs + enc.total) /\ k - Hs - enc.total = enc.done + 1
      BY <1>0
    <3>2. Out(k) = <<"header", k - Hs - enc.total, enc.total * BlockAlign>>
      BY <3>1 DEF Out
    <3>3. OutLen + 1 = k
      BY <1>0, <2>1
    <3> HIDE DEF k
    <3> QED
      BY <1>1, <3>1, <3>2, <3>3
  <2>4. OutLen' = OutLen + 1
    BY <1>0, <2>1, <2>2
  <2> QED
    BY <1>0, <1>1, <1>4, <1>5, <2>3, <2>4, MorePutOut
<1> QED
  BY <1>6, <1>7

LEMMA OutputPutsOut ==
  ASSUME FileInv, EncOutput, Sound
  PROVE  PutOut'
<1> USE DEF FileInv, FileShape, EncShape
<1>0. enc.pc = "output" /\ UNCHANGED <<recs, wr, file>> /\ PutOut /\ OutLens /\ OutLens'
  <2>1. OutLens /\ OutLens'
    BY OutLenIs, PTL
  <2> QED
    BY <2>1 DEF EncOutput, OutputOk, caller
<1> DEFINE u == enc.buf[1]
<1>1. u \in Units /\ u = Data(recs, enc.total + 1)
  <2>1. Len(enc.buf) = 1 /\ enc.buf \in Seq(Units)
    BY DEF EncOutput
  <2>2. 1 \in 1 .. Len(enc.buf)
    BY <2>1
  <2>3. u \in Units
    BY <2>1, <2>2, ElementOfSeq
  <2> QED
    BY <1>0, <2>3 DEF InputOk
<1>2. /\ encode_stream' = AfterWrite(encode_stream, u)
      /\ enc' = [enc EXCEPT !.pc = "input", !.buf = <<>>, !.total = enc.total + 1]
  <2>1. encode_stream.flags = {"RUN"}
    BY <1>0 DEF LateOk
  <2>2. ~WriteIgnored(encode_stream) /\ ~WriteStopped(encode_stream)
    BY <2>1 DEF WriteIgnored, WriteStopped, Has
  <2> QED
    BY <2>2, EncOutputDoes
<1>3. enc'.type = enc.type /\ enc'.total = enc.total + 1 /\ enc'.pc = "input"
  BY <1>2
<1>4. Whole' = Append(Whole, u)
  BY <1>0, <1>1, <1>2, WholeGrows
<1> HIDE DEF u
<1>5. Hs' = Hs /\ Hs \in Nat
  BY <1>3, RecorderAssumption DEF Hs, HeaderSize
<1>6. OutLen = Hs + enc.total /\ OutLen' = Hs + enc.total + 1
  <2>1. OutLen = Hs + enc.total
    BY <1>0 DEF OutLens
  <2>2. OutLen' = Hs' + enc'.total
    BY <1>0, <1>3 DEF OutLens
  <2> QED
    BY <1>3, <1>5, <2>1, <2>2
<1>7. \A k \in 1 .. OutLen : Out(k)' = Out(k)
  <2> TAKE k \in 1 .. OutLen
  <2>1. k <= Hs + enc.total /\ k <= Hs' + enc'.total
    BY <1>3, <1>5, <1>6
  <2>2. CASE k <= Hs
    BY <1>5, <2>2 DEF Out
  <2>3. CASE ~(k <= Hs)
    <3>1. Out(k) = Data(recs, k - Hs)
      BY <2>1, <2>3 DEF Out
    <3>2. Out(k)' = Data(recs', k - Hs')
      BY <1>5, <2>1, <2>3 DEF Out, Data
    <3> QED
      BY <1>0, <1>5, <3>1, <3>2
  <2> QED
    BY <2>2, <2>3
<1>8. \A k : k = OutLen + 1 => u = Out(k)'
  <2> TAKE k
  <2> HAVE k = OutLen + 1
  <2>1. ~(k <= Hs') /\ k <= Hs' + enc'.total /\ k - Hs' = enc.total + 1
    BY <1>3, <1>5, <1>6
  <2>2. Out(k)' = Data(recs', k - Hs')
    BY <2>1 DEF Out, Data
  <2> QED
    BY <1>0, <1>1, <2>1, <2>2
<1>9. OutLen' = OutLen + 1
  BY <1>6
<1> QED
  BY <1>0, <1>1, <1>4, <1>7, <1>8, <1>9, MorePutOut

LEMMA ReadPutsOut ==
  ASSUME FileInv, WrRead
  PROVE  /\ PutOut' /\ wr'.last = wr.last /\ file' = file /\ wr'.pc \in {"frame", "rest"}
         /\ wr'.pc = "frame" => Len(wr'.buf) = FrameUnits
         /\ wr'.pc = "rest" => encode_stream'.data = <<>> /\ Len(wr'.buf) < FrameUnits
<1> USE DEF FileInv, FileShape, WrShape
<1>0. /\ Sound /\ Opened /\ wr.pc = "read" /\ wr.buf = <<>> /\ PutOut /\ FrameUnits \in Nat
      /\ UNCHANGED <<recs, enc, file>>
  BY RecorderAssumption DEF WrRead, Sound, Opened, OutputOk, caller
<1>1. ~Has(encode_stream, "STOPPED")
  BY <1>0 DEF LateOk, Has
<1>2. /\ encode_stream' = AfterRead(encode_stream, FrameUnits)
      /\ wr' = [wr EXCEPT !.buf = ReadUnits(encode_stream, FrameUnits), !.pc = wr'.pc]
      /\ wr'.pc \in {"frame", "rest"}
      /\ (Len(wr'.buf) = FrameUnits => wr'.pc = "frame")
      /\ (Len(wr'.buf) # FrameUnits => wr'.pc = "rest")
  BY <1>1, WrReadDoes
<1>3. wr'.last = wr.last /\ wr'.buf = ReadUnits(encode_stream, FrameUnits)
  BY <1>2
<1> DEFINE got  == ReadUnits(encode_stream, FrameUnits)
           left == AfterRead(encode_stream, FrameUnits).data
           w    == file \o wr.last
<1>4. /\ got \in Seq(Units) /\ left \in Seq(Units) /\ got \o left = encode_stream.data
      /\ Len(got) = IF Len(encode_stream.data) < FrameUnits THEN Len(encode_stream.data) ELSE FrameUnits
      /\ Len(got) + Len(left) = Len(encode_stream.data)
      /\ Len(encode_stream.data) \in Nat /\ Len(left) \in Nat
  BY <1>0, ReadIs, ReadJoins, LenProperties DEF IsStream
<1>5. w \in Seq(Units)
  BY <1>0, ConcatProperties
<1>6. Whole = w \o encode_stream.data
  BY <1>0, <1>5, ConcatEmptySeq DEF Whole
<1>7. Whole' = (w \o got) \o left
  BY <1>0, <1>2, <1>3 DEF Whole, Opened
<1>8. encode_stream'.data = left
  BY <1>2
<1> HIDE DEF got, left, w
<1>9. Whole' = Whole
  <2>1. (w \o got) \o left = w \o (got \o left)
    <3>1. w \in Seq(Units) /\ got \in Seq(Units) /\ left \in Seq(Units)
      BY <1>4, <1>5
    <3> QED
      BY ONLY <3>1, ConcatAssociative
  <2> QED
    BY <1>4, <1>6, <1>7, <2>1
<1>10. OutLen' = OutLen
  BY <1>0 DEF OutLen, Hs
<1>11. PutOut'
  BY <1>0, <1>9, <1>10, SamePutOut
<1>12. wr'.buf = got
  BY <1>3 DEF got
<1>13. ASSUME wr'.pc = "rest" PROVE Len(got) < FrameUnits /\ left = <<>>
  <2>1. Len(got) # FrameUnits
    BY <1>2, <1>12, <1>13
  <2>2. Len(encode_stream.data) < FrameUnits
    BY <1>0, <1>4, <2>1
  <2>3. Len(got) = Len(encode_stream.data)
    BY <1>4, <2>2
  <2>4. Len(left) = 0 /\ Len(got) < FrameUnits
    BY <1>4, <2>2, <2>3
  <2> QED
    BY <1>4, <2>4, EmptySeq
<1> QED
  BY <1>0, <1>2, <1>3, <1>8, <1>11, <1>12, <1>13

LEMMA FramePutsOut ==
  ASSUME FileInv, WrFrame
  PROVE  PutOut'
<1> USE DEF FileInv, FileShape, WrShape
<1>0. /\ Sound /\ Opened /\ wr.pc = "frame" /\ PutOut /\ UNCHANGED <<recs, enc, encode_stream>>
  BY DEF WrFrame, Sound, Opened, OutputOk, caller, streams
<1>1. file' = file \o wr.last /\ wr'.last = wr.buf /\ wr'.buf = <<>> /\ wr'.pc = "read"
  BY DEF WrFrame
<1>2. file \o wr.last \in Seq(Units)
  BY <1>0, ConcatProperties
<1>3. (file \o wr.last) \o wr.buf \in Seq(Units)
  BY <1>2, ConcatProperties
<1>4. Whole' = (((file \o wr.last) \o wr.buf) \o <<>>) \o encode_stream.data
  BY <1>0, <1>1 DEF Whole, Opened
<1>5. Whole' = Whole
  BY <1>0, <1>3, <1>4, ConcatEmptySeq DEF Whole
<1>6. OutLen' = OutLen
  BY <1>0 DEF OutLen, Hs
<1> QED
  BY <1>0, <1>5, <1>6, SamePutOut

LEMMA NextOutputOk == ASSUME FileInv, [Next]_vars PROVE OutputOk'
<1> USE DEF FileInv, FileShape, EncShape, WrShape, RecorderInv, OutputOk
<1>1. CASE Application \/ Capture
  <2>1. UNCHANGED <<write_queue, encode_stream, enc, wr, file, header_size>>
    BY <1>1, ApplicationLeaves, CaptureLeaves
  <2>2. (Sound' <=> Sound) /\ (Opened' <=> Opened) /\ Hs' = Hs /\ OutLen' = OutLen /\ Whole' = Whole
    BY <2>1 DEF Sound, Opened, WriteQueued, Hs, OutLen, Whole
  <2>3. recs' = recs \/ state = "IDLE"
    <3>1. CASE Application
      BY <3>1 DEF Application, RecordCall, RecordSet, RecordFail, RecordSend, StopCall, StopFinish,
         StopIdleRecorder, StopSend, StopWait
    <3> QED
      BY <1>1, <3>1, CaptureLeaves
  <2>4. state = "IDLE" => ~Sound
    BY DEF OneRecording, Sound, WriteQueued, EncHolds, WrHolds
  <2>5. Sound' => PutOut'
    BY <2>1, <2>2, <2>3, <2>4, SamePutOut
  <2> QED
    BY <2>1, <2>2, <2>5
<1>2. CASE Encode
  <2>1. UNCHANGED <<recs, wr, file>> /\ (Opened' <=> Opened)
    BY <1>2, EncodeLeaves DEF Opened
  <2>2. CASE EncReceive \/ EncInitFail \/ EncFail
    <3>1. ~Sound /\ ~WrHolds
      BY <2>2 DEF EncReceive, EncInitFail, EncFail, EncodeQueued, Sound, OneRecording, EncHolds,
         WriteQueued, WrHolds
    <3>2. enc'.pc \in {"init", "fail", "wait"} /\ UNCHANGED write_queue
      BY <2>2 DEF EncReceive, EncInitFail, EncFail, EncGoto, queues
    <3> QED
      BY <2>1, <3>1, <3>2 DEF Sound, Opened, WriteQueued, WrHolds
  <2>3. CASE EncStart
    <3>1. ~WrHolds
      BY <2>3 DEF EncStart, OneRecording, EncHolds
    <3>2. /\ enc'.pc = "send" /\ enc'.type = enc.type /\ encode_stream' = Started
          /\ header_size' = Hs
      BY <2>3 DEF EncStart, EncGoto, Hs
    <3>3. Whole' = <<>> /\ OutLen' = 0 /\ Hs' = Hs
      BY <2>1, <3>1, <3>2, StartedIs DEF Whole, Opened, WrHolds, OutLen, Hs
    <3> QED
      BY <2>1, <3>1, <3>2, <3>3 DEF PutOut, Opened, WrHolds
  <2>4. CASE EncSend
    <3>1. ~WrHolds /\ Sound /\ enc.pc = "send" /\ enc.done = 0 /\ enc.total = 0 /\ enc.res = "none"
      BY <2>4 DEF EncSend, OneRecording, EncHolds, Sound, EncOk
    <3>2. /\ enc'.type = enc.type /\ enc'.total = enc.total /\ enc'.done = enc.done
          /\ enc'.res = enc.res
          /\ enc'.pc = "header" \/ (enc'.pc = "input" /\ enc.type # "wav")
          /\ UNCHANGED <<encode_stream, header_size>>
      BY <2>4 DEF EncSend, EncGoto, streams, fields
    <3>3. Whole' = Whole /\ Hs' = Hs
      BY <2>1, <3>2 DEF Whole, Hs
    <3>4. OutLen = 0 /\ OutLen' = 0
      <4>1. OutLens /\ OutLens'
        BY OutLenIs, PTL
      <4>2. OutLen = 0
        BY <3>1, <4>1 DEF OutLens
      <4>3. CASE enc'.pc = "header"
        BY <3>1, <3>2, <4>1, <4>3 DEF OutLens
      <4>4. CASE enc'.pc = "input" /\ enc.type # "wav"
        <5>1. Hs = 0
          BY <4>4 DEF Hs, HeaderSize
        <5>2. OutLen' = Hs' + enc'.total
          BY <4>1, <4>4 DEF OutLens
        <5> QED
          BY <3>1, <3>2, <3>3, <4>2, <5>1, <5>2
      <4> QED
        BY <3>2, <4>2, <4>3, <4>4
    <3>5. PutOut'
      BY <2>1, <3>1, <3>2, <3>3, <3>4, SamePutOut
    <3> QED
      BY <2>1, <3>1, <3>2, <3>3, <3>5 DEF Opened, WrHolds
  <2>5. CASE EncHeader \/ EncInput \/ EncOutput \/ EncStop \/ EncFinish
    <3>0. enc.pc \in {"header", "input", "output", "stop", "finish"}
      BY <2>5 DEF EncHeader, EncInput, EncOutput, EncStop, EncFinish
    <3>1. UNCHANGED <<write_queue, header_size>>
      BY <2>5 DEF EncHeader, EncInput, EncOutput, EncStop, EncFinish, queues, fields
    <3>2. enc'.pc # "send" /\ enc'.type = enc.type
      <4>1. CASE EncHeader
        BY <4>1, EncHeaderDoes DEF EncHeader
      <4>2. CASE EncInput
        BY <4>2, EncInputDoes
      <4>3. CASE EncOutput
        BY <4>3, EncOutputDoes
      <4>4. CASE EncStop \/ EncFinish
        BY <4>4 DEF EncStop, EncFinish, EncGoto
      <4> QED
        BY <2>5, <4>1, <4>2, <4>3, <4>4
    <3>3. (Sound' => Sound) /\ Hs' = Hs /\ wr.pc # "rest"
      BY <2>1, <3>0, <3>1, <3>2 DEF Sound, WriteQueued, Hs, LateOk
    <3>4. ASSUME Sound PROVE PutOut'
      <4>0. PutOut /\ OutLens /\ OutLens' /\ Hs \in Nat
        <5>1. OutLens /\ OutLens'
          BY OutLenIs, PTL
        <5>2. Hs \in Nat
          BY RecorderAssumption DEF Hs, HeaderSize
        <5> QED
          BY <3>4, <5>1, <5>2
      <4>1. CASE EncHeader
        BY <3>4, <4>1, HeaderPutsOut
      <4>2. CASE EncOutput
        BY <3>4, <4>2, OutputPutsOut
      <4>3. CASE EncInput
        <5>0. enc.pc = "input" /\ enc.done = 0 /\ encode_stream' = encode_stream
          BY <4>3 DEF EncInput, EncOk
        <5>1. OutLen = Hs + enc.total
          BY <4>0, <5>0 DEF OutLens
        <5>2. /\ enc'.total = enc.total /\ enc'.done = 0
              /\ \/ enc'.pc = "output"
                 \/ enc'.pc = "header" /\ enc'.res # "none"
                 \/ enc'.pc \in {"stop", "finish"} /\ enc.type # "wav"
          <6>1. /\ End("finish") \in {"header", "finish"} /\ (End("finish") # "header" => enc.type # "wav")
                /\ End("stop") \in {"header", "stop"} /\ (End("stop") # "header" => enc.type # "wav")
            BY DEF End
          <6>2. CASE enc' = [enc EXCEPT !.res = "INPUT_ERROR", !.pc = End("finish")]
            BY <5>0, <6>1, <6>2
          <6>3. CASE enc' = [enc EXCEPT !.res = "SUCCESS", !.pc = End("stop")]
            BY <5>0, <6>1, <6>3
          <6>4. CASE enc' = [enc EXCEPT !.pc = "output", !.buf = ReadUnits(record_stream, 1)]
            BY <5>0, <6>4
          <6> QED
            BY <4>3, <6>2, <6>3, <6>4, EncInputDoes
        <5>3. OutLen' = Hs + enc.total
          <6>1. CASE enc'.pc = "output"
            BY <3>3, <4>0, <5>2, <6>1 DEF OutLens
          <6>2. CASE enc'.pc = "header" /\ enc'.res # "none"
            <7>1. OutLen' = Hs' + enc'.total + enc'.done
              BY <4>0, <6>2 DEF OutLens
            <7> QED
              BY <3>3, <4>0, <5>2, <7>1
          <6>3. CASE enc'.pc \in {"stop", "finish"} /\ enc.type # "wav"
            <7>1. OutLen' = Hs' + enc'.total + Hs'
              BY <4>0, <6>3 DEF OutLens
            <7>2. Hs = 0
              BY <6>3 DEF Hs, HeaderSize
            <7> QED
              BY <3>3, <5>2, <7>1, <7>2
          <6> QED
            BY <5>2, <6>1, <6>2, <6>3
        <5>4. Whole' = Whole
          BY <2>1, <5>0 DEF Whole
        <5> QED
          BY <2>1, <3>2, <4>0, <5>1, <5>2, <5>3, <5>4, SamePutOut
      <4>4. CASE EncStop \/ EncFinish
        <5>1. /\ enc'.pc \in {"wait", "finish"} /\ enc.pc \in {"stop", "finish"} /\ enc'.total = enc.total
              /\ encode_stream' \in {encode_stream, Finished(encode_stream)}
          BY <4>4 DEF EncStop, EncFinish, EncGoto
        <5>2. encode_stream'.data = encode_stream.data
          BY <5>1, EndedIs
        <5>3. Whole' = Whole
          BY <2>1, <5>2 DEF Whole
        <5>4. OutLen' = Hs' + enc'.total + Hs' /\ OutLen = Hs + enc.total + Hs
          BY <4>0, <5>1 DEF OutLens
        <5>5. OutLen' = OutLen
          BY <3>3, <5>1, <5>4
        <5> QED
          BY <2>1, <3>2, <4>0, <5>1, <5>3, <5>5, SamePutOut
      <4> QED
        BY <2>5, <4>1, <4>2, <4>3, <4>4
    <3> QED
      BY <2>1, <3>1, <3>3, <3>4
  <2> QED
    BY <1>2, <2>2, <2>3, <2>4, <2>5 DEF Encode
<1>3. CASE Write
  <2>1. UNCHANGED <<recs, enc>> /\ Hs' = Hs /\ OutLen' = OutLen
    BY <1>3, WriteLeaves DEF Hs, OutLen
  <2>2. CASE WrReceive
    <3>1. wr' = [pc |-> "init", last |-> <<>>, buf |-> <<>>, info |-> "SUCCESS",
                 header |-> SubSeq(ZeroHeader, 1, header_size)]
      BY <2>2 DEF WrReceive
    <3>2. wr'.pc = "init" /\ wr'.last = <<>> /\ wr'.buf = <<>>
      BY <3>1
    <3>3. Sound /\ ~Opened /\ ~Opened' /\ UNCHANGED <<header_size, encode_stream>>
      BY <2>2, <3>2 DEF WrReceive, Sound, Opened, WriteQueued, fields, streams
    <3>4. Whole' = Whole
      BY <3>3 DEF Whole
    <3>5. PutOut'
      BY <2>1, <3>3, <3>4, SamePutOut
    <3> QED
      BY <2>1, <3>2, <3>3, <3>5
  <2>3. CASE WrInit
    <3>1. /\ wr'.pc = "read" /\ wr'.last = <<>> /\ wr'.buf = <<>> /\ file' = <<>> /\ Sound /\ ~Opened
          /\ Opened' /\ UNCHANGED <<header_size, encode_stream>>
      BY <2>3 DEF WrInit, WrGoto, Sound, Opened, fields, streams
    <3>2. Whole' = ((<<>> \o <<>>) \o <<>>) \o encode_stream.data
      BY <3>1 DEF Whole
    <3>3. Whole' = Whole
      <4>1. encode_stream.data \in Seq(Units) /\ <<>> \in Seq(Units)
        BY EmptySeq DEF IsStream
      <4> QED
        BY <3>1, <3>2, <4>1, ConcatEmptySeq DEF Whole
    <3>4. PutOut'
      BY <2>1, <3>1, <3>3, SamePutOut
    <3>5. Len(wr'.last) = 0
      BY <3>1, EmptySeq
    <3> QED
      BY <2>1, <3>1, <3>4, <3>5
  <2>4. CASE WrRead
    <3>1. Sound /\ Opened /\ header_size' = header_size
      BY <2>4 DEF WrRead, Sound, Opened, fields
    <3> QED
      BY <2>1, <2>4, <3>1, ReadPutsOut
  <2>5. CASE WrFrame
    <3>1. Sound /\ header_size' = header_size /\ wr'.pc = "read" /\ wr'.last = wr.buf /\ wr'.buf = <<>>
          /\ Len(wr.buf) = FrameUnits
      BY <2>5 DEF WrFrame, Sound, fields
    <3>2. wr.buf # <<>>
      <4>1. FrameUnits \in Nat \ {0}
        BY RecorderAssumption
      <4> QED
        BY <3>1, <4>1, EmptySeq
    <3> QED
      BY <2>1, <2>5, <3>1, <3>2, FramePutsOut
  <2>6. CASE WrRest
    <3>1. Sound /\ wr'.pc = "header" /\ UNCHANGED <<header_size, write_queue>> /\ wr.pc = "rest"
      BY <2>6 DEF WrRest, Sound, fields, queues
    <3>2. ~Sound'
      BY <2>1, <3>1 DEF Sound, WriteQueued, OneRecording, WrHolds, EncHolds
    <3> QED
      BY <2>1, <3>1, <3>2 DEF Opened
  <2>7. CASE WrStopEncode
    <3>1. wr'.pc \in {"idle", "header"} /\ wr.pc = "stop_encode" /\ UNCHANGED <<header_size, write_queue>>
      BY <2>7 DEF WrStopEncode, WrGoto, fields, queues
    <3>2. ~Sound'
      BY <2>1, <3>1 DEF Sound, WriteQueued, OneRecording, WrHolds, EncHolds
    <3>3. wr'.info = wr.info /\ wr.info # "SUCCESS"
      BY <2>7, <3>1 DEF WrStopEncode, WrGoto, LateOk
    <3> QED
      BY <3>1, <3>2, <3>3 DEF Opened
  <2>8. CASE WrInitFail \/ WrStopRecord \/ WrFrameFail \/ WrHeader \/ WrIdle \/ WrDestroy
    <3>1. wr'.pc \in {"stop_record", "stop_encode", "idle", "wait", "destroy"} /\ UNCHANGED write_queue
          /\ wr.pc # "wait"
      BY <2>8 DEF WrInitFail, WrStopRecord, WrFrameFail, WrHeader, WrIdle, WrDestroy, WrGoto, queues
    <3>2. CASE ~WrDestroy
      <4>1. ~Sound'
        BY <2>1, <2>8, <3>1, <3>2 DEF WrInitFail, WrStopRecord, WrFrameFail, WrHeader, WrIdle,
           Sound, WriteQueued, OneRecording, WrHolds, EncHolds
      <4> QED
        BY <3>1, <4>1 DEF Opened
    <3>3. CASE WrDestroy
      <4>1. UNCHANGED <<header_size, encode_stream>> /\ wr.pc = "destroy" /\ wr'.pc = "wait"
        BY <3>3 DEF WrDestroy, WrGoto, fields, streams
      <4>2. (Sound' => Sound) /\ Whole' = Whole
        BY <2>1, <3>1, <4>1 DEF Sound, WriteQueued, Whole, Opened
      <4>3. Sound => PutOut'
        BY <2>1, <4>2, SamePutOut
      <4> QED
        BY <2>1, <4>1, <4>2, <4>3 DEF Opened
    <3> QED
      BY <3>2, <3>3
  <2> QED
    BY <1>3, <2>2, <2>3, <2>4, <2>5, <2>6, <2>7, <2>8 DEF Write
<1>4. CASE UNCHANGED vars
  <2>1. (Sound' <=> Sound) /\ (Opened' <=> Opened) /\ Hs' = Hs /\ OutLen' = OutLen /\ Whole' = Whole
    BY <1>4 DEF vars, Sound, Opened, WriteQueued, Hs, OutLen, Whole
  <2>2. Sound' => PutOut'
    BY <1>4, <2>1, SamePutOut DEF vars
  <2> QED
    BY <1>4, <2>1, <2>2 DEF vars
<1> QED
  BY <1>1, <1>2, <1>3, <1>4 DEF Next

\* The last writes put the data into the file and find the header behind it.
LEMMA RestIsCut ==
  ASSUME FileInv, WrRest, torn' = FALSE
  PROVE  /\ wr'.header \in Seq(Units) /\ Len(wr'.header) = Hs
         /\ \A k \in 1 .. Hs : wr'.header[k] = <<"header", k, enc.total * BlockAlign>>
         /\ file' \in Seq(Units) /\ Len(file') = Hs + enc.total
         /\ \A k \in Hs + 1 .. Len(file') : file'[k] = Data(recs, k - Hs)
<1> USE DEF FileInv, FileShape, EncShape, WrShape
<1> DEFINE rest   == Len(wr.buf)
           inRest == IF rest < header_size THEN rest ELSE header_size
           inLast == header_size - inRest
           kept   == SubSeq(wr.last, 1, Len(wr.last) - inLast)
           front  == SubSeq(wr.buf, 1, rest - inRest)
           back   == SubSeq(wr.last, Len(wr.last) - inLast + 1, Len(wr.last))
           behind == SubSeq(wr.buf, rest - inRest + 1, rest)
           H      == Hs
           T      == enc.total
           F      == Len(file)
           L      == Len(wr.last)
<1>1. /\ Sound /\ Opened /\ wr.pc = "rest" /\ header_size = Hs /\ PutOut /\ encode_stream.data = <<>>
      /\ enc.pc = "wait"
  BY DEF WrRest, Sound, Opened, OutputOk, LateOk
<1>2. wr'.header = back \o behind /\ file' = (file \o kept) \o front
  <2>1. wr'.header = back \o behind
    BY DEF WrRest
  <2>2. file' = (file \o kept) \o front
    BY DEF WrRest
  <2> QED
    BY <2>1, <2>2
<1>3. /\ file \in Seq(Units) /\ wr.last \in Seq(Units) /\ wr.buf \in Seq(Units)
      /\ F \in Nat /\ L \in Nat /\ rest \in Nat /\ T \in Nat
      /\ L \in {0, FrameUnits} /\ (L = 0 => F = 0)
  <2>1. file \in Seq(Units) /\ wr.last \in Seq(Units) /\ wr.buf \in Seq(Units)
    BY <1>1
  <2>2. F \in Nat /\ L \in Nat /\ rest \in Nat
    BY <2>1, LenProperties
  <2>3. L = 0 => F = 0
    BY <1>1, <2>1, EmptySeq DEF OutputOk
  <2> QED
    BY <1>1, <2>1, <2>2, <2>3 DEF OutputOk
<1>4. H \in Nat /\ H <= FrameUnits /\ FrameUnits \in Nat /\ header_size = H
  BY <1>1, RecorderAssumption DEF Hs, HeaderSize
<1>5. /\ Len(Whole) = H + T + H
      /\ \A k \in 1 .. H + T + H : Whole[k] = Out(k)
  <2>1. OutLen = Hs + enc.total + Hs
    BY <1>1, OutLenIs DEF OutLens
  <2> QED
    BY <1>1, <2>1 DEF PutOut
<1>6. /\ F + L + rest = H + T + H
      /\ \A k \in 1 .. F : Whole[k] = file[k]
      /\ \A k \in 1 .. L : Whole[F + k] = wr.last[k]
      /\ \A k \in 1 .. rest : Whole[F + L + k] = wr.buf[k]
  <2> DEFINE a == file \o wr.last
             b == a \o wr.buf
  <2>1. /\ a \in Seq(Units) /\ Len(a) = F + L
        /\ \A k \in 1 .. F + L : a[k] = IF k <= F THEN file[k] ELSE wr.last[k - F]
    BY <1>3, ConcatProperties
  <2> HIDE DEF a
  <2>2. /\ b \in Seq(Units) /\ Len(b) = F + L + rest
        /\ \A k \in 1 .. Len(a) + rest : b[k] = IF k <= Len(a) THEN a[k] ELSE wr.buf[k - Len(a)]
    <3>1. /\ b \in Seq(Units) /\ Len(b) = Len(a) + Len(wr.buf)
          /\ \A k \in 1 .. Len(a) + Len(wr.buf) :
               b[k] = IF k <= Len(a) THEN a[k] ELSE wr.buf[k - Len(a)]
      <4>1. wr.buf \in Seq(Units) /\ a \in Seq(Units)
        BY <1>3, <2>1
      <4> QED
        BY ONLY <4>1, ConcatProperties
    <3> HIDE DEF b, F, L
    <3> QED
      BY <2>1, <3>1
  <2>3. Whole = b
    <3>1. Whole = b \o <<>>
      BY <1>1 DEF Whole, a
    <3> QED
      BY <2>2, <3>1, ConcatEmptySeq
  <2> HIDE DEF b, F, L, rest, H, T
  <2>4. \A k \in 1 .. F : Whole[k] = file[k]
    <3> TAKE k \in 1 .. F
    <3>1. k \in 1 .. F + L /\ k \in 1 .. Len(a) + rest /\ k <= Len(a) /\ k <= F
      BY SMTT(30), <1>3, <2>1
    <3> QED
      BY <2>1, <2>2, <2>3, <3>1
  <2>5. \A k \in 1 .. L : Whole[F + k] = wr.last[k]
    <3> TAKE k \in 1 .. L
    <3>1. /\ F + k \in 1 .. F + L /\ F + k \in 1 .. Len(a) + rest /\ F + k <= Len(a) /\ ~(F + k <= F)
          /\ (F + k) - F = k
      BY <1>3, <2>1
    <3>2. Whole[F + k] = a[F + k]
      BY <2>2, <2>3, <3>1
    <3>3. a[F + k] = wr.last[(F + k) - F]
      BY <2>1, <3>1
    <3> QED
      BY <3>1, <3>2, <3>3
  <2>6. \A k \in 1 .. rest : Whole[F + L + k] = wr.buf[k]
    <3> TAKE k \in 1 .. rest
    <3>1. /\ F + L + k \in 1 .. Len(a) + rest /\ ~(F + L + k <= Len(a)) /\ (F + L + k) - Len(a) = k
      BY <1>3, <2>1
    <3>2. Whole[F + L + k] = wr.buf[(F + L + k) - Len(a)]
      BY <2>2, <2>3, <3>1
    <3> QED
      BY <3>1, <3>2
  <2> QED
    BY <1>5, <2>2, <2>3, <2>4, <2>5, <2>6
<1>7. /\ inRest \in Nat /\ inLast \in Nat /\ inRest + inLast = H /\ inRest <= rest /\ inLast <= L
      /\ (inLast = 0 \/ inRest = rest)
  <2>1. CASE rest < header_size
    <3>1. inRest = rest /\ inLast = header_size - rest
      BY <2>1
    <3>2. L # 0
      <4> SUFFICES ASSUME L = 0 PROVE FALSE
        OBVIOUS
      <4>1. F = 0
        BY <1>3
      <4> QED
        BY <1>3, <1>4, <1>6, <2>1, <4>1
    <3>3. L = FrameUnits
      BY <1>3, <3>2
    <3> HIDE DEF inRest, inLast, rest, L, H
    <3> QED
      BY <1>3, <1>4, <2>1, <3>1, <3>3
  <2>2. CASE ~(rest < header_size)
    <3>1. inRest = header_size /\ inLast = header_size - header_size
      BY <2>2
    <3> HIDE DEF inRest, inLast, rest, L, H
    <3> QED
      BY <1>3, <1>4, <2>2, <3>1
  <2> QED
    BY <2>1, <2>2
<1>8. /\ kept \in Seq(Units) /\ Len(kept) = L - inLast
      /\ \A k \in 1 .. L - inLast : kept[k] = wr.last[k]
      /\ back \in Seq(Units) /\ Len(back) = inLast
      /\ \A k \in 1 .. inLast : back[k] = wr.last[(L - inLast) + k]
  <2> DEFINE n == L - inLast
  <2> HIDE DEF inLast
  <2>1. n \in Nat /\ n <= Len(wr.last) /\ Len(wr.last) - n = inLast
    BY <1>3, <1>7
  <2>2. kept = SubSeq(wr.last, 1, n) /\ back = SubSeq(wr.last, n + 1, Len(wr.last))
    OBVIOUS
  <2>3. Len(wr.last) = L
    OBVIOUS
  <2>4. n = L - inLast
    OBVIOUS
  <2>5. wr.last \in Seq(Units)
    BY <1>3
  <2> HIDE DEF n, L, kept, back
  <2>6. /\ SubSeq(wr.last, 1, n) \in Seq(Units) /\ Len(SubSeq(wr.last, 1, n)) = n
        /\ \A k \in 1 .. n : SubSeq(wr.last, 1, n)[k] = wr.last[k]
        /\ SubSeq(wr.last, n + 1, Len(wr.last)) \in Seq(Units)
        /\ Len(SubSeq(wr.last, n + 1, Len(wr.last))) = Len(wr.last) - n
        /\ \A k \in 1 .. Len(wr.last) - n : SubSeq(wr.last, n + 1, Len(wr.last))[k] = wr.last[n + k]
    BY ONLY <2>1, <2>5, CutAt
  <2> QED
    BY ONLY <2>1, <2>2, <2>4, <2>6
<1>9. /\ front \in Seq(Units) /\ Len(front) = rest - inRest
      /\ \A k \in 1 .. rest - inRest : front[k] = wr.buf[k]
      /\ behind \in Seq(Units) /\ Len(behind) = inRest
      /\ \A k \in 1 .. inRest : behind[k] = wr.buf[(rest - inRest) + k]
  <2> DEFINE n == rest - inRest
  <2> HIDE DEF inRest
  <2>1. n \in Nat /\ n <= Len(wr.buf) /\ Len(wr.buf) - n = inRest
    BY <1>3, <1>7
  <2>2. front = SubSeq(wr.buf, 1, n) /\ behind = SubSeq(wr.buf, n + 1, Len(wr.buf))
    OBVIOUS
  <2>4. n = rest - inRest
    OBVIOUS
  <2>5. wr.buf \in Seq(Units)
    BY <1>3
  <2> HIDE DEF n, rest, front, behind
  <2>6. /\ SubSeq(wr.buf, 1, n) \in Seq(Units) /\ Len(SubSeq(wr.buf, 1, n)) = n
        /\ \A k \in 1 .. n : SubSeq(wr.buf, 1, n)[k] = wr.buf[k]
        /\ SubSeq(wr.buf, n + 1, Len(wr.buf)) \in Seq(Units)
        /\ Len(SubSeq(wr.buf, n + 1, Len(wr.buf))) = Len(wr.buf) - n
        /\ \A k \in 1 .. Len(wr.buf) - n : SubSeq(wr.buf, n + 1, Len(wr.buf))[k] = wr.buf[n + k]
    BY ONLY <2>1, <2>5, CutAt
  <2> QED
    BY ONLY <2>1, <2>2, <2>4, <2>6
<1> HIDE DEF rest, inRest, inLast, kept, front, back, behind, H, T, F, L
<1>10. /\ wr'.header \in Seq(Units) /\ Len(wr'.header) = H
       /\ \A k \in 1 .. H : wr'.header[k] = IF k <= inLast THEN back[k] ELSE behind[k - inLast]
  <2>1. /\ back \o behind \in Seq(Units) /\ Len(back \o behind) = Len(back) + Len(behind)
        /\ \A k \in 1 .. Len(back) + Len(behind) :
             (back \o behind)[k] = IF k <= Len(back) THEN back[k] ELSE behind[k - Len(back)]
    BY ONLY <1>8, <1>9, ConcatProperties
  <2>2. Len(back) + Len(behind) = H
    BY <1>7, <1>8, <1>9
  <2> QED
    BY <1>2, <1>8, <2>1, <2>2
<1>11. \A k \in 1 .. H : wr'.header[k] = Whole[H + T + k]
  <2> TAKE k \in 1 .. H
  <2>1. CASE k <= inLast
    <3>1. wr'.header[k] = back[k] /\ back[k] = wr.last[(L - inLast) + k]
      BY <1>4, <1>7, <1>8, <1>10, <2>1
    <3>2. (L - inLast) + k \in 1 .. L
      BY SMTT(30), <1>3, <1>7, <2>1
    <3>3. inRest = rest
      BY <1>4, <1>7, <2>1
    <3>4. F + ((L - inLast) + k) = H + T + k
      BY <1>3, <1>4, <1>6, <1>7, <3>3
    <3> QED
      BY <1>6, <3>1, <3>2, <3>4
  <2>2. CASE ~(k <= inLast)
    <3>1. k - inLast \in 1 .. inRest
      BY <1>4, <1>7, <2>2
    <3>2. wr'.header[k] = behind[k - inLast] /\ behind[k - inLast] = wr.buf[(rest - inRest) + (k - inLast)]
      BY <1>9, <1>10, <2>2, <3>1
    <3>3. (rest - inRest) + (k - inLast) \in 1 .. rest
      BY <1>3, <1>4, <1>7, <3>1
    <3>4. F + L + ((rest - inRest) + (k - inLast)) = H + T + k
      BY <1>3, <1>4, <1>6, <1>7
    <3> QED
      BY <1>6, <3>2, <3>3, <3>4
  <2> QED
    BY <2>1, <2>2
<1>12. \A k \in 1 .. H : Whole[H + T + k] = <<"header", k, enc.total * BlockAlign>>
  <2> TAKE k \in 1 .. H
  <2> DEFINE j == H + T + k
  <2>1. j \in 1 .. H + T + H /\ ~(j <= H) /\ ~(j <= H + T) /\ j - H - T = k
    BY <1>3, <1>4
  <2> HIDE DEF j
  <2>2. Whole[j] = Out(j)
    BY <1>5, <2>1
  <2>3. Out(j) = <<"header", j - Hs - enc.total, enc.total * BlockAlign>>
    BY <2>1 DEF Out, H, T
  <2> QED
    BY <2>1, <2>2, <2>3 DEF H, T, j
<1>13. /\ file' \in Seq(Units) /\ Len(file') = H + T
       /\ \A k \in 1 .. H + T : file'[k] = IF k <= F + (L - inLast)
                                         THEN IF k <= F THEN file[k] ELSE kept[k - F]
                                         ELSE front[k - (F + (L - inLast))]
  <2> DEFINE a == file \o kept
  <2>1. /\ a \in Seq(Units) /\ Len(a) = F + Len(kept)
        /\ \A k \in 1 .. F + Len(kept) : a[k] = IF k <= F THEN file[k] ELSE kept[k - F]
    BY ONLY <1>3, <1>8, ConcatProperties DEF F
  <2>2. Len(a) = F + (L - inLast)
    BY <1>8, <2>1
  <2> HIDE DEF a
  <2>7. a \in Seq(Units) /\ front \in Seq(Units)
    BY <1>9, <2>1
  <2>3. /\ a \o front \in Seq(Units) /\ Len(a \o front) = Len(a) + Len(front)
        /\ \A k \in 1 .. Len(a) + Len(front) :
             (a \o front)[k] = IF k <= Len(a) THEN a[k] ELSE front[k - Len(a)]
    BY ONLY <2>7, ConcatProperties
  <2>4. Len(a) + Len(front) = H + T
    <3>1. Len(front) = rest - inRest /\ Len(a) = F + (L - inLast)
      BY <1>9, <2>2
    <3>2. /\ F \in Nat /\ L \in Nat /\ rest \in Nat /\ inRest \in Nat /\ inLast \in Nat
          /\ H \in Nat /\ T \in Nat
      BY <1>3, <1>4, <1>7
    <3>3. F + L + rest = H + T + H /\ inRest + inLast = H
      BY <1>4, <1>6, <1>7
    <3> QED
      BY ONLY <3>1, <3>2, <3>3
  <2>5. file' = a \o front
    BY <1>2 DEF a
  <2>6. \A k \in 1 .. H + T : k <= F + (L - inLast) => k \in 1 .. F + Len(kept)
    BY <1>3, <1>4, <1>8
  <2> QED
    BY <2>1, <2>2, <2>3, <2>4, <2>5, <2>6
<1>14. \A k \in 1 .. H + T : file'[k] = Whole[k]
  <2> TAKE k \in 1 .. H + T
  <2>1. CASE k <= F
    <3>1. k <= F + (L - inLast) /\ k \in 1 .. F
      BY <1>3, <1>4, <1>7, <2>1
    <3> QED
      BY <1>6, <1>13, <2>1, <3>1
  <2>2. CASE ~(k <= F) /\ k <= F + (L - inLast)
    <3>1. k - F \in 1 .. L - inLast /\ k - F \in 1 .. L /\ F + (k - F) = k
      BY <1>3, <1>4, <1>7, <2>2
    <3>2. file'[k] = kept[k - F] /\ kept[k - F] = wr.last[k - F]
      BY <1>8, <1>13, <2>2, <3>1
    <3>3. Whole[F + (k - F)] = wr.last[k - F]
      BY <1>6, <3>1
    <3> QED
      BY <3>1, <3>2, <3>3
  <2>3. CASE ~(k <= F + (L - inLast))
    <3> DEFINE i == k - (F + (L - inLast))
    <3>1. i \in 1 .. rest - inRest /\ i \in 1 .. rest
      BY <1>3, <1>4, <1>6, <1>7, <2>3
    <3>2. inLast = 0
      BY <1>3, <1>7, <3>1
    <3>3. F + L + i = k
      BY <1>3, <1>4, <3>2
    <3>4. file'[k] = front[i]
      BY <1>13, <2>3
    <3> HIDE DEF i
    <3>5. front[i] = wr.buf[i] /\ Whole[F + L + i] = wr.buf[i]
      BY <1>6, <1>9, <3>1
    <3> QED
      BY <3>3, <3>4, <3>5
  <2> QED
    BY <2>1, <2>2, <2>3
<1>15. \A k \in H + 1 .. H + T : Whole[k] = Data(recs, k - H)
  <2> TAKE k \in H + 1 .. H + T
  <2>1. k \in 1 .. H + T + H /\ ~(k <= H) /\ k <= H + T
    BY <1>3, <1>4
  <2>2. Out(k) = Data(recs, k - Hs)
    BY <2>1 DEF Out, H, T
  <2> QED
    BY <1>5, <2>1, <2>2 DEF H
<1>16. \A k \in H + 1 .. H + T : k \in 1 .. H + T
  BY <1>3, <1>4
<1>17. \A k \in H + 1 .. H + T : file'[k] = Data(recs, k - H)
  BY <1>14, <1>15, <1>16
<1>18. \A k \in 1 .. H : wr'.header[k] = <<"header", k, enc.total * BlockAlign>>
  BY <1>11, <1>12
<1> QED
  BY <1>10, <1>13, <1>17, <1>18 DEF H, T

\* The header goes to the start of the file.
LEMMA HeaderIsPut ==
  ASSUME FileInv, WrHeader, wr.info = "SUCCESS", torn' = FALSE
  PROVE  file' = Recording(enc.total)
<1> USE DEF FileInv, FileShape, EncShape, WrShape
<1>0. wr.pc = "header" /\ torn = FALSE /\ header_size = Hs
  BY DEF WrHeader, OutputOk
<1> DEFINE n    == enc.total
           tail == SubSeq(file, header_size + 1, Len(file))
           head == SubSeq(WavHeader(n), 1, Hs)
           data == [i \in 1 .. n |-> Data(recs, i)]
<1>1. /\ wr.header \in Seq(Units) /\ Len(wr.header) = Hs
      /\ \A k \in 1 .. Hs : wr.header[k] = <<"header", k, n * BlockAlign>>
      /\ file \in Seq(Units) /\ Len(file) = Hs + n
      /\ \A k \in Hs + 1 .. Len(file) : file[k] = Data(recs, k - Hs)
  BY <1>0 DEF EndOk
<1>2. file' = wr.header \o tail
  BY <1>0 DEF WrHeader
<1>3. Hs \in Nat /\ Hs <= HeaderUnits /\ n \in Nat /\ HeaderUnits \in Nat
  BY RecorderAssumption DEF Hs, HeaderSize
<1>4. wr.header = head
  <2>1. /\ WavHeader(n) \in Seq(Units) /\ Len(WavHeader(n)) = HeaderUnits
        /\ \A i \in 1 .. HeaderUnits : WavHeader(n)[i] = <<"header", i, n * BlockAlign>>
    BY <1>3, HeaderIs
  <2>2. /\ head \in Seq(Units) /\ Len(head) = Hs
        /\ \A k \in 1 .. Hs : head[k] = WavHeader(n)[k]
    BY <1>3, <2>1, CutAt
  <2> HIDE DEF head
  <2>3. \A k \in 1 .. Len(wr.header) : wr.header[k] = head[k]
    <3> TAKE k \in 1 .. Len(wr.header)
    <3>1. k \in 1 .. Hs /\ k \in 1 .. HeaderUnits
      BY <1>1, <1>3
    <3> QED
      BY <1>1, <2>1, <2>2, <3>1
  <2>4. wr.header \in Seq(Units) /\ head \in Seq(Units) /\ Len(wr.header) = Len(head)
    BY <1>1, <2>2
  <2> QED
    BY ONLY <2>3, <2>4, SeqEqual
<1>5. tail = data
  <2>1. /\ tail \in Seq(Units) /\ Len(tail) = Len(file) - Hs
        /\ \A k \in 1 .. Len(file) - Hs : tail[k] = file[Hs + k]
    <3>1. file \in Seq(Units) /\ Hs \in Nat /\ Hs <= Len(file)
      BY <1>1, <1>3
    <3>2. tail = SubSeq(file, Hs + 1, Len(file))
      BY <1>0
    <3> HIDE DEF tail
    <3>3. /\ SubSeq(file, Hs + 1, Len(file)) \in Seq(Units)
          /\ Len(SubSeq(file, Hs + 1, Len(file))) = Len(file) - Hs
          /\ \A k \in 1 .. Len(file) - Hs : SubSeq(file, Hs + 1, Len(file))[k] = file[Hs + k]
      BY ONLY <3>1, CutAt
    <3> QED
      BY ONLY <3>2, <3>3
  <2>2. Len(tail) = n /\ Len(file) - Hs = n
    BY <1>1, <1>3, <2>1
  <2>3. \A k \in 1 .. n : tail[k] = Data(recs, k)
    <3> TAKE k \in 1 .. n
    <3>1. Hs + k \in Hs + 1 .. Len(file) /\ (Hs + k) - Hs = k
      BY <1>1, <1>3
    <3> HIDE DEF tail
    <3> QED
      BY <1>1, <2>1, <2>2, <3>1
  <2> HIDE DEF tail
  <2>4. tail \in [1 .. n -> Units]
    BY <2>1, <2>2, LenProperties
  <2> QED
    BY <2>3, <2>4
<1>6. Recording(n) = head \o data
  BY DEF Recording, Hs
<1> QED
  BY <1>2, <1>4, <1>5, <1>6

LEMMA NextEndOk == ASSUME FileInv, [Next]_vars PROVE EndOk'
<1> USE DEF FileInv, FileShape, EncShape, WrShape, RecorderInv
<1>1. CASE Application \/ Capture
  <2>1. UNCHANGED <<enc, wr, file>>
    BY <1>1, ApplicationLeaves, CaptureLeaves
  <2>2. CASE state = "IDLE"
    BY <2>1, <2>2 DEF OneRecording, WrHolds, EndOk
  <2>3. CASE state # "IDLE"
    <3>1. UNCHANGED <<recs, torn>>
      <4>1. CASE Application
        BY <2>3, <4>1 DEF Application, RecordCall, RecordSet, RecordFail, RecordSend, StopCall,
           StopFinish, StopIdleRecorder, StopSend, StopWait, history
      <4> QED
        BY <1>1, <4>1, CaptureLeaves
    <3> QED
      BY <2>1, <3>1 DEF EndOk, Hs, Recording, Data
  <2> QED
    BY <2>2, <2>3
<1>2. CASE Encode
  <2>1. UNCHANGED <<recs, wr, file, torn>>
    BY <1>2, EncodeLeaves
  <2>2. ~(wr.pc \in {"header", "idle"} /\ wr.info = "SUCCESS")
    <3> SUFFICES ASSUME wr.pc \in {"header", "idle"}, wr.info = "SUCCESS" PROVE FALSE
      OBVIOUS
    <3>1. enc.pc = "wait" /\ encode_queue = <<>>
      BY DEF LateOk, OneRecording, WrHolds, EncodeQueued
    <3> QED
      BY <1>2, <3>1 DEF Encode, EncReceive, EncInitFail, EncFail, EncStart, EncSend, EncHeader, EncInput,
         EncOutput, EncStop, EncFinish
  <2> QED
    BY <2>1, <2>2 DEF EndOk
<1>3. CASE Write
  <2>1. UNCHANGED <<recs, enc>>
    BY <1>3, WriteLeaves
  <2>2. CASE WrRest
    <3>1. wr'.pc = "header"
      BY <2>2 DEF WrRest
    <3>2. wr'.info = "SUCCESS" /\ ~torn' => torn' = FALSE
      BY <2>2 DEF WrRest
    <3> QED
      BY <2>1, <2>2, <3>1, <3>2, RestIsCut DEF EndOk, Hs
  <2>3. CASE WrHeader
    <3>1. wr'.pc = "idle" /\ wr'.info = wr.info
      BY <2>3 DEF WrHeader, WrGoto
    <3>2. ~torn' => torn' = FALSE
      BY <2>3 DEF WrHeader
    <3>3. wr'.info = "SUCCESS" /\ ~torn' => file' = Recording(enc.total)
      BY <2>3, <3>1, <3>2, HeaderIsPut
    <3> QED
      BY <2>1, <3>1, <3>3 DEF EndOk, Recording, Data
  <2>4. CASE WrStopEncode
    <3>1. wr'.info = wr.info /\ wr.info # "SUCCESS"
      BY <2>4 DEF WrStopEncode, WrGoto, LateOk
    <3> QED
      BY <3>1 DEF EndOk
  <2>5. CASE WrReceive
    <3>1. wr' = [pc |-> "init", last |-> <<>>, buf |-> <<>>, info |-> "SUCCESS",
                 header |-> SubSeq(ZeroHeader, 1, header_size)]
      BY <2>5 DEF WrReceive
    <3>2. wr'.pc = "init"
      BY <3>1
    <3> QED
      BY <3>2 DEF EndOk
  <2>6. CASE WrRead
    <3>1. wr'.pc \in {"frame", "rest"}
      BY <2>6, WrReadDoes
    <3> QED
      BY <3>1 DEF EndOk
  <2>7. CASE WrInit \/ WrInitFail \/ WrStopRecord \/ WrFrame \/ WrFrameFail \/ WrIdle \/ WrDestroy
    <3>1. wr'.pc \notin {"header", "idle"}
      BY <2>7 DEF WrInit, WrInitFail, WrStopRecord, WrFrame, WrFrameFail, WrIdle, WrDestroy, WrGoto
    <3> QED
      BY <3>1 DEF EndOk
  <2> QED
    BY <1>3, <2>2, <2>3, <2>4, <2>5, <2>6, <2>7 DEF Write
<1>4. CASE UNCHANGED vars
  BY <1>4 DEF vars, EndOk, Hs, Recording, Data
<1> QED
  BY <1>1, <1>2, <1>3, <1>4 DEF Next

LEMMA InitFileInv == Init => FileInv
<1> SUFFICES ASSUME Init PROVE FileInv
  OBVIOUS
<1>1. RecorderInv /\ StreamsEnded /\ FileShape
  BY InitRecorderInv, InitStreamsEnded, InitFileShape
<1>2. /\ enc.pc = "wait" /\ wr.pc = "wait" /\ cap.pc = "wait" /\ app.pc = "idle"
      /\ record_queue = <<>> /\ encode_queue = <<>> /\ write_queue = <<>>
      /\ ~Has(record_stream, "RUN")
  BY DEF Init, NewStream, Has
<1> QED
  BY <1>1, <1>2 DEF FileInv, CaptureOk, EncOk, LateOk, InputOk, OutputOk, EndOk, Awaited, NotYet, Late,
     Sound, Fresh, Opened, AppHolds, RecordQueued, CapHolds, EncodeQueued, WriteQueued, Ended

LEMMA NextFileInv == FileInv /\ [Next]_vars => FileInv'
<1> SUFFICES ASSUME FileInv, [Next]_vars PROVE FileInv'
  OBVIOUS
<1>1. RecorderInv' /\ StreamsEnded' /\ FileShape'
  BY NextRecorderInv, NextStreamsEnded, NextFileShape DEF FileInv
<1>2. CaptureOk' /\ EncOk' /\ LateOk' /\ InputOk' /\ OutputOk' /\ EndOk'
  BY NextCaptureOk, NextEncOk, NextLateOk, NextInputOk, NextOutputOk, NextEndOk
<1> QED
  BY <1>1, <1>2 DEF FileInv

\* Whatever failed, a file reported as a SUCCESS, none of whose last writes failed, is a
\* beginning of what was captured, in order, behind a header completed for just that.
THEOREM FilesAreInOrder == Spec => FileInOrder
<1>1. FileInv => (Written => \E n \in 0 .. stored : file = Recording(n))
  <2> SUFFICES ASSUME FileInv, Written PROVE \E n \in 0 .. stored : file = Recording(n)
    OBVIOUS
  <2>1. wr.pc = "idle" /\ wr.info = "SUCCESS" /\ ~torn
    BY DEF Written, WrIdle
  <2>2. file = Recording(enc.total)
    BY <2>1 DEF FileInv, EndOk
  <2>3. enc.total \in 0 .. stored
    BY <2>1 DEF FileInv, LateOk, FileShape, EncShape
  <2> QED
    BY <2>2, <2>3
<1> QED
  BY <1>1, InitFileInv, NextFileInv, PTL DEF Spec, FileInOrder

--------------------------------------------------------------------------------
(* Where nothing fails the file holds all of the recording. *)

\* The encoder has read all of its input.
AllRead == enc.pc \in {"stop", "finish", "wait"} \/ (enc.pc = "header" /\ enc.res # "none")

\* Nothing stops record_stream before the encoder has read it to its end.
WholeOk == ~MayFail =>
  /\ wr.info = "SUCCESS" /\ wr.pc \notin {"stop_record", "stop_encode"} /\ enc.pc # "fail"
  /\ NotYet => enc.pc = "wait"
  /\ Fresh \/ Reading \/ enc.pc = "output" => ~Has(record_stream, "STOPPED")
  /\ Sound \/ wr.pc \in {"header", "idle"} =>
       (AllRead => enc.total = stored /\ Ended(record_stream))

LEMMA NextWholeOk == ASSUME FileInv, WholeOk, [Next]_vars PROVE WholeOk'
<1> SUFFICES ASSUME ~MayFail
             PROVE  /\ wr'.info = "SUCCESS" /\ wr'.pc \notin {"stop_record", "stop_encode"}
                    /\ enc'.pc # "fail"
                    /\ NotYet' => enc'.pc = "wait"
                    /\ (Fresh \/ Reading \/ enc.pc = "output")' => ~Has(record_stream', "STOPPED")
                    /\ (Sound \/ wr.pc \in {"header", "idle"})' =>
                         (AllRead' => enc'.total = stored' /\ Ended(record_stream'))
  BY DEF WholeOk
<1> USE DEF FileInv, FileShape, EncShape, WrShape, CapShape, RecorderInv
<1>0. /\ wr.info = "SUCCESS" /\ wr.pc \notin {"stop_record", "stop_encode"} /\ enc.pc # "fail"
      /\ NotYet => enc.pc = "wait"
      /\ Fresh \/ Reading \/ enc.pc = "output" => ~Has(record_stream, "STOPPED")
      /\ Sound \/ wr.pc \in {"header", "idle"} =>
           (AllRead => enc.total = stored /\ Ended(record_stream))
      /\ wr.pc \in {"header", "idle"} => enc.pc = "wait"
  BY DEF WholeOk, LateOk
<1>1. OneRecording'
  BY NextRecorderInv
<1>2. FileInv'
  BY NextFileInv
<1>3. CASE Application
  <2>1. UNCHANGED <<encode_queue, write_queue, cap, enc, wr>>
    BY <1>3, ApplicationLeaves
  <2>2. /\ (Sound' <=> Sound) /\ (Fresh' <=> Fresh) /\ (Reading' <=> Reading) /\ (AllRead' <=> AllRead)
        /\ (CapHolds' <=> CapHolds) /\ (EncodeQueued' <=> EncodeQueued)
    BY <2>1 DEF Sound, Fresh, Reading, AllRead, WriteQueued, EncodeQueued, CapHolds
  <2>3. /\ (AppHolds \/ RecordQueued \/ state = "IDLE")' => AppHolds \/ RecordQueued \/ state = "IDLE"
        /\ stored' = stored \/ state = "IDLE"
        /\ record_stream' \in {record_stream, Finished(record_stream)}
    BY <1>3 DEF AppHolds, RecordQueued, Shape, Application, RecordCall, RecordSet, RecordFail,
       RecordSend, StopCall, StopFinish, StopIdleRecorder, StopSend, StopWait, AppGoto, fields, queues,
       history, streams
  <2>4. state = "IDLE" => ~Sound /\ wr.pc \in {"wait", "destroy"}
    BY DEF OneRecording, EncHolds, Sound, WriteQueued, WrHolds
  <2>5. /\ Has(record_stream', "STOPPED") => Has(record_stream, "STOPPED")
        /\ Ended(record_stream) => Ended(record_stream')
    <3>1. record_stream'.flags \in {record_stream.flags, record_stream.flags \cup {"FINISHED"}}
      BY <2>3, EndedIs
    <3> QED
      BY <3>1 DEF Has, Ended
  <2> QED
    BY <1>0, <2>1, <2>2, <2>3, <2>4, <2>5 DEF NotYet
<1>4. CASE Capture
  <2>1. UNCHANGED <<write_queue, app, enc, wr>>
    BY <1>4, CaptureLeaves
  <2>2. /\ (Sound' <=> Sound) /\ (Reading' <=> Reading) /\ (AllRead' <=> AllRead)
    BY <2>1 DEF Sound, Reading, AllRead, WriteQueued
  <2>3. CASE CapStart
    <3>1. NotYet /\ ~Sound /\ wr.pc \notin {"header", "idle"}
      BY <2>3 DEF CapStart, NotYet, CapHolds, OneRecording, Sound, EncHolds, WriteQueued, WrHolds
    <3>2. ~Has(record_stream', "STOPPED")
      BY <2>3, StartedIs DEF CapStart, Has
    <3> QED
      BY <1>0, <2>1, <2>2, <3>1, <3>2
  <2>4. CASE ~CapStart
    <3>1. Ended(record_stream) => Ended(record_stream') /\ stored' = stored
      <4>1. Ended(record_stream) => Ended(record_stream')
        BY <1>4, <2>4, RecordEnds DEF Next
      <4>2. CASE CapWrite
        BY <4>1, <4>2, CapWriteDoes DEF Ended, Has, WriteStores
      <4>3. CASE ~CapWrite
        BY <1>4, <4>1, <4>3 DEF Capture, CapReceive, CapOpenFail, CapStart, CapSend, CapRead, CapReadFail,
           CapFinish, history
      <4> QED
        BY <4>2, <4>3
    <3>2. Has(record_stream', "STOPPED") => Has(record_stream, "STOPPED")
      <4>1. \/ record_stream' \in {record_stream, Finished(record_stream)}
            \/ record_stream' = AfterWrite(record_stream, Data(recs, cap.next))
        BY <1>4, <2>4 DEF Capture, CapReceive, CapOpenFail, CapSend, CapRead, CapReadFail, CapWrite,
           CapFinish, streams
      <4>2. record_stream'.flags \in {record_stream.flags, record_stream.flags \cup {"FINISHED"}}
        BY <4>1, EndedIs DEF AfterWrite, IsStream
      <4> QED
        BY <4>2 DEF Has
    <3>3. (NotYet' => NotYet) /\ (Fresh' => Fresh)
      <4>1. CASE CapReceive
        <5>1. \/ cap' = [cap EXCEPT !.pc = "open", !.type = Head(record_queue)] /\ RecordQueued
              \/ cap' \in {cap, [cap EXCEPT !.pc = "exited"]}
          BY <4>1 DEF CapReceive, CapGoto, RecordQueued
        <5>2. (CapHolds' => RecordQueued) /\ cap'.pc # "send"
          BY <4>1, <5>1 DEF CapReceive, CapHolds
        <5>3. UNCHANGED <<state, encode_queue>> /\ ~RecordQueued'
          BY <4>1 DEF CapReceive, RecordQueued, fields
        <5> QED
          BY <2>1, <5>2, <5>3 DEF NotYet, EncodeQueued, AppHolds, Fresh
      <4>2. CASE CapSend
        BY <4>2 DEF CapSend, NotYet, CapHolds, Fresh
      <4>3. CASE CapRead \/ CapFinish \/ CapWrite
        <5>1. ~CapHolds'
          BY <4>3, CapWriteDoes DEF CapRead, CapFinish, CapHolds, CapGoto
        <5>2. UNCHANGED <<record_queue, encode_queue, state>>
          BY <4>3 DEF CapRead, CapWrite, CapFinish, queues, fields
        <5> QED
          BY <2>1, <5>1, <5>2 DEF NotYet, EncodeQueued, RecordQueued, AppHolds, CapHolds, Fresh
      <4> QED
        BY <1>4, <2>4, <4>1, <4>2, <4>3 DEF Capture, CapOpenFail, CapReadFail
    <3> QED
      BY <1>0, <2>1, <2>2, <3>1, <3>2, <3>3
  <2> QED
    BY <2>3, <2>4
<1>5. CASE Encode
  <2>1. UNCHANGED <<record_queue, app, cap, wr, stored>>
    BY <1>5, EncodeLeaves
  <2>2. Ended(record_stream) => Ended(record_stream')
    <3>1. ~CapStart
      BY <2>1 DEF CapStart, CapGoto
    <3> QED
      BY <1>5, <3>1, RecordEnds DEF Next
  <2>3. CASE EncReceive
    <3>1. Fresh /\ enc'.pc = "init" /\ UNCHANGED record_stream
      BY <2>3 DEF EncReceive, Fresh, EncodeQueued, streams
    <3>2. ~NotYet'
      BY <1>1, <3>1 DEF OneRecording, NotYet, AppHolds, RecordQueued, CapHolds, EncodeQueued, EncHolds
    <3> QED
      BY <1>0, <2>1, <3>1, <3>2 DEF AllRead
  <2>4. CASE EncStart
    <3>1. Fresh /\ enc'.pc = "send" /\ UNCHANGED record_stream
      BY <2>4 DEF EncStart, EncGoto, Fresh
    <3>2. ~NotYet'
      BY <1>1, <3>1 DEF OneRecording, NotYet, AppHolds, RecordQueued, CapHolds, EncodeQueued, EncHolds
    <3> QED
      BY <1>0, <2>1, <3>1, <3>2 DEF AllRead
  <2>5. CASE EncSend
    <3>1. Reading /\ enc.pc = "send" /\ enc.res = "none"
      BY <2>5 DEF EncSend, Reading, EncOk
    <3>2. enc'.pc \in {"header", "input"} /\ enc'.res = enc.res
          /\ UNCHANGED <<encode_queue, state, record_stream>>
      BY <2>5 DEF EncSend, EncGoto, streams, fields
    <3>3. NotYet' => NotYet
      BY <2>1, <3>2 DEF NotYet, EncodeQueued, AppHolds, RecordQueued, CapHolds
    <3> QED
      BY <1>0, <2>1, <3>1, <3>2, <3>3 DEF AllRead
  <2>6. CASE EncHeader \/ EncInput \/ EncOutput \/ EncStop \/ EncFinish
    <3>0. enc.pc \in {"header", "input", "output", "stop", "finish"} /\ ~NotYet
      BY <1>0, <2>6 DEF EncHeader, EncInput, EncOutput, EncStop, EncFinish
    <3>1. UNCHANGED <<encode_queue, write_queue, state>>
      BY <2>6 DEF EncHeader, EncInput, EncOutput, EncStop, EncFinish, queues, fields
    <3>2. ~NotYet' /\ ~EncodeQueued' /\ cap'.pc # "send"
      BY <2>1, <3>0, <3>1 DEF NotYet, EncodeQueued, AppHolds, RecordQueued, CapHolds
    <3>3. wr'.pc \notin {"header", "idle"}
      BY <1>0, <2>1, <3>0
    <3>4. CASE EncHeader
      <4>0. enc.pc = "header" /\ UNCHANGED record_stream
        BY <3>4 DEF EncHeader
      <4>1. /\ enc'.pc \in {"header", "input", "stop", "finish"} /\ enc'.total = enc.total
            /\ enc'.res = enc.res /\ (enc'.pc = "input" <=> enc.res = "none" /\ enc'.pc # "header")
        <5>1. Behind = "input" <=> enc.res = "none"
          BY DEF Behind
        <5> QED
          BY <3>4, <4>0, <5>1, EncHeaderDoes
      <4>2. (Sound' => Sound) /\ (Reading' => Reading) /\ (AllRead' => AllRead)
        BY <2>1, <3>1, <4>0, <4>1 DEF Sound, WriteQueued, Reading, AllRead
      <4> QED
        BY <1>0, <2>1, <3>2, <3>3, <4>0, <4>1, <4>2 DEF Fresh
    <3>5. CASE EncInput
      <4>0. enc.pc = "input" /\ Reading /\ ~Has(record_stream, "STOPPED")
        BY <1>0, <3>5 DEF EncInput, Reading
      <4>1. ~Has(record_stream', "STOPPED")
        <5>1. record_stream' = AfterRead(record_stream, 1)
          BY <3>5, <4>0, EncInputDoes
        <5>2. AfterRead(record_stream, 1).flags = record_stream.flags
          BY ReadIs
        <5> QED
          BY <4>0, <5>1, <5>2 DEF Has
      <4>2. CASE /\ record_stream.data = <<>> /\ Has(record_stream, "FINISHED")
                 /\ enc' = [enc EXCEPT !.res = "SUCCESS", !.pc = End("stop")]
                 /\ End("stop") \in {"header", "stop"}
        <5>1. enc'.pc \in {"header", "stop"} /\ enc'.total = enc.total
          BY <4>2
        <5>2. Sound' => Sound
          BY <2>1, <3>1, <5>1 DEF Sound, WriteQueued
        <5>3. ASSUME Sound PROVE enc.total = stored
          <6>1. Unread(enc.total)
            BY <4>0, <5>3 DEF InputOk
          <6>2. enc.total <= stored /\ Len(record_stream.data) = stored - enc.total
            BY <4>0, <6>1 DEF Unread
          <6>3. Len(record_stream.data) = 0
            BY <4>2
          <6> QED
            BY <6>2, <6>3
        <5>4. Ended(record_stream')
          BY <2>2, <4>2 DEF Ended, Has
        <5> QED
          BY <1>0, <2>1, <3>2, <3>3, <4>1, <5>1, <5>2, <5>3, <5>4
      <4>3. CASE enc' = [enc EXCEPT !.pc = "output", !.buf = ReadUnits(record_stream, 1)]
        <5>1. enc'.pc = "output"
          BY <4>3
        <5> QED
          BY <1>0, <2>1, <3>2, <4>1, <5>1 DEF AllRead
      <4> QED
        BY <3>5, <4>0, <4>2, <4>3, EncInputDoes
    <3>6. CASE EncOutput
      <4>0. enc.pc = "output" /\ UNCHANGED record_stream
        BY <3>6 DEF EncOutput
      <4>1. enc'.pc \in {"input", "stop"}
        BY <3>6, EncOutputDoes
      <4>2. Sound' => Sound
        BY <2>1, <3>1, <4>1 DEF Sound, WriteQueued
      <4>3. ASSUME Sound PROVE enc'.pc = "input"
        <5>1. encode_stream.flags = {"RUN"}
          BY <4>0, <4>3 DEF LateOk
        <5>2. ~WriteIgnored(encode_stream) /\ ~WriteStopped(encode_stream)
          BY <5>1 DEF WriteIgnored, WriteStopped, Has
        <5>3. enc' = [enc EXCEPT !.pc = "input", !.buf = <<>>, !.total = enc.total + 1]
          BY <3>6, <5>2, EncOutputDoes
        <5> QED
          BY <5>3
      <4> QED
        BY <1>0, <2>1, <3>2, <3>3, <4>0, <4>1, <4>2, <4>3 DEF AllRead
    <3>7. CASE EncStop \/ EncFinish
      <4>1. enc'.pc \in {"finish", "wait"} /\ enc.pc \in {"stop", "finish"} /\ enc'.total = enc.total
        BY <3>7 DEF EncStop, EncFinish, EncGoto
      <4>2. (Sound' => Sound) /\ AllRead /\ ~Reading' /\ ~Fresh'
        BY <2>1, <3>1, <3>2, <4>1 DEF Sound, WriteQueued, AllRead, Reading, Fresh
      <4> QED
        BY <1>0, <2>1, <2>2, <3>2, <3>3, <4>1, <4>2
    <3> QED
      BY <2>6, <3>4, <3>5, <3>6, <3>7
  <2> QED
    BY <1>0, <1>5, <2>3, <2>4, <2>5, <2>6 DEF Encode, EncInitFail, EncFail
<1>6. CASE Write
  <2>1. UNCHANGED <<record_queue, encode_queue, app, cap, enc, stored>>
    BY <1>6, WriteLeaves
  <2>2. /\ (Fresh' <=> Fresh) /\ (Reading' <=> Reading) /\ (AllRead' <=> AllRead)
        /\ (EncodeQueued' <=> EncodeQueued) /\ (AppHolds' <=> AppHolds) /\ (CapHolds' <=> CapHolds)
        /\ (RecordQueued' <=> RecordQueued)
    BY <2>1 DEF Fresh, Reading, AllRead, EncodeQueued, AppHolds, CapHolds, RecordQueued
  <2>3. UNCHANGED record_stream
    BY <1>0, <1>6 DEF Write, WrReceive, WrInit, WrInitFail, WrStopRecord, WrStopEncode, WrRead, WrFrame,
       WrFrameFail, WrRest, WrHeader, WrIdle, WrDestroy, streams
  <2>4. CASE WrReceive
    <3>1. wr' = [pc |-> "init", last |-> <<>>, buf |-> <<>>, info |-> "SUCCESS",
                 header |-> SubSeq(ZeroHeader, 1, header_size)]
      BY <2>4 DEF WrReceive
    <3>2. wr'.pc = "init" /\ wr'.info = "SUCCESS"
      BY <3>1
    <3>3. Sound /\ state' = state
      BY <2>4 DEF WrReceive, Sound, WriteQueued, fields
    <3> QED
      BY <1>0, <2>1, <2>2, <2>3, <3>2, <3>3 DEF NotYet
  <2>5. CASE WrInit \/ WrRead \/ WrFrame \/ WrRest \/ WrHeader
    <3>1. /\ wr'.pc \in {"read", "frame", "rest", "header", "idle"} /\ wr'.info = "SUCCESS"
          /\ Sound \/ wr.pc \in {"header", "idle"}
      BY <1>0, <2>5, WrReadDoes DEF WrInit, WrRead, WrFrame, WrRest, WrHeader, WrGoto, Sound
    <3>2. state' = state
      BY <2>5 DEF WrInit, WrRead, WrFrame, WrRest, WrHeader, fields
    <3> QED
      BY <1>0, <2>1, <2>2, <2>3, <3>1, <3>2 DEF NotYet
  <2>6. CASE WrIdle \/ WrDestroy
    <3>1. /\ wr'.pc \in {"wait", "destroy"} /\ wr'.info = "SUCCESS" /\ UNCHANGED write_queue
          /\ wr.pc = "idle" \/ (wr.pc = "destroy" /\ UNCHANGED state)
      BY <1>0, <2>6 DEF WrIdle, WrDestroy, WrGoto, fields, queues
    <3>2. Sound' => Sound
      BY <2>1, <3>1 DEF Sound, WriteQueued
    <3> QED
      BY <1>0, <2>1, <2>2, <2>3, <3>1, <3>2 DEF NotYet
  <2> QED
    BY <1>0, <1>6, <2>4, <2>5, <2>6 DEF Write, WrInitFail, WrStopRecord, WrStopEncode, WrFrameFail
<1>7. CASE UNCHANGED vars
  <2>1. /\ (Sound' <=> Sound) /\ (Fresh' <=> Fresh) /\ (Reading' <=> Reading) /\ (AllRead' <=> AllRead)
        /\ (NotYet' <=> NotYet)
    BY <1>7 DEF vars, Sound, Fresh, Reading, AllRead, NotYet, WriteQueued, EncodeQueued, AppHolds, CapHolds,
       RecordQueued
  <2> QED
    BY <1>0, <1>7, <2>1 DEF vars
<1> QED
  BY <1>3, <1>4, <1>5, <1>6, <1>7 DEF Next

\* Where nothing fails the file holds all that was captured, whenever it was stopped.
THEOREM FilesAreWhole == ~MayFail => (Spec => FileIsWhole)
<1> SUFFICES ASSUME ~MayFail PROVE Spec => FileIsWhole
  OBVIOUS
<1>1. Init => WholeOk
  BY DEF Init, WholeOk, NewStream, Has, Fresh, Reading, Sound, AllRead, NotYet, WriteQueued, EncodeQueued
<1>2. FileInv /\ WholeOk /\ [Next]_vars => WholeOk'
  BY NextWholeOk
<1>3. FileInv /\ WholeOk => (Written => file = Recording(stored))
  <2> SUFFICES ASSUME FileInv, WholeOk, Written PROVE file = Recording(stored)
    OBVIOUS
  <2>1. wr.pc = "idle" /\ wr.info = "SUCCESS" /\ ~torn
    BY DEF Written, WrIdle
  <2>2. file = Recording(enc.total) /\ enc.pc = "wait"
    BY <2>1 DEF FileInv, EndOk, LateOk
  <2>3. enc.total = stored
    BY <2>1, <2>2 DEF WholeOk, AllRead
  <2> QED
    BY <2>2, <2>3
<1>4. Spec => [](FileInv /\ WholeOk)
  BY <1>1, <1>2, InitFileInv, NextFileInv, PTL DEF Spec
<1> QED
  BY <1>3, <1>4, PTL DEF FileIsWhole
================================================================================
