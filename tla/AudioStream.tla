------------------------------ MODULE AudioStream ------------------------------
(***************************************************************************)
(* common/audio_stream.c: the byte ring between two worker threads.        *)
(*                                                                         *)
(* One thread writes and one thread reads; every stream of the player and  *)
(* of the recorder is used so.  Any thread may finish or stop the stream,  *)
(* the writing thread starts it, and for the stream that can seek          *)
(* (preprocess_stream of the player) a seek resets it.                     *)
(*                                                                         *)
(* A read or a write moves its bytes in chunks.  A chunk is one critical   *)
(* section and moves whole or not at all: it is as long as the rest of the *)
(* request, cut at the end of the ring.  Every critical section is one     *)
(* action; the window between the unlock and the take is a state of its    *)
(* own, and so is the window in which a woken writer looks at `state`      *)
(* without the lock.                                                       *)
(*                                                                         *)
(* The k-th byte copied into the ring has the value k % SeqMod, so bytes   *)
(* that are lost, repeated or out of order are visible.                    *)
(***************************************************************************)
EXTENDS AudioSem, Sequences

CONSTANTS BufSize,      \* buf_size
          ReadSizes,    \* the data_len readers ask for
          WriteSizes,   \* the data_len writers pass
          SeqMod,       \* byte values are 0 .. SeqMod - 1
          Seekable      \* whether the stream is reset (preprocess_stream)

ASSUME StreamAssumption == /\ BufSize \in Nat \ {0}
                           /\ ReadSizes \subseteq Nat \ {0}
                           /\ WriteSizes \subseteq Nat \ {0}
                           /\ SeqMod \in Nat \ {0}
                           /\ Seekable \in BOOLEAN

VARIABLES buf, fill, read_pos, write_pos,
          state,               \* the set of flags that are on
          read_sem, write_sem,
          rpc, rleft, out,     \* reader: place, remaining_size, bytes delivered
          wpc, wleft, wnext,   \* writer: place, remaining_size, its next byte
          ended                \* some thread finished or stopped this run

ring   == <<buf, fill, read_pos, write_pos>>
reader == <<rpc, rleft, out>>
writer == <<wpc, wleft, wnext>>
vars   == <<buf, fill, read_pos, write_pos, state, read_sem, write_sem,
            rpc, rleft, out, wpc, wleft, wnext, ended>>

Cells == 0 .. BufSize - 1
Bytes == 0 .. SeqMod - 1
Flags == {"RUN", "WAIT_READABLE", "WAIT_WRITABLE", "STOPPED", "FINISHED", "RESET"}

Init == /\ buf = [i \in Cells |-> 0]
        /\ fill = 0 /\ read_pos = 0 /\ write_pos = 0
        /\ state = {}
        /\ read_sem = SemInit /\ write_sem = SemInit
        /\ rpc = "idle" /\ rleft = 0 /\ out = <<>>
        /\ wpc = "idle" /\ wleft = 0 /\ wnext = 0
        /\ ended = FALSE

Lesser(a, b) == IF a <= b THEN a ELSE b

\* the chunk the reader (writer) tries to move next
ReadSize  == Lesser(BufSize - read_pos, rleft)
WriteSize == Lesser(BufSize - write_pos, wleft)

\* Clearing the other side's flag and giving its semaphore, if the flag is on.
WakeReader(flags) ==
  IF "WAIT_READABLE" \in flags
    THEN state' = flags \ {"WAIT_READABLE"} /\ read_sem' = SemGive(read_sem)
    ELSE state' = flags /\ UNCHANGED read_sem

WakeWriter(flags) ==
  IF "WAIT_WRITABLE" \in flags
    THEN state' = flags \ {"WAIT_WRITABLE"} /\ write_sem' = SemGive(write_sem)
    ELSE state' = flags /\ UNCHANGED write_sem

--------------------------------------------------------------------------------
(* audio_stream_read *)

\* A reader calls once the stream has been started: the message that makes it
\* read is sent after the start (player.c 336-337, recorder.c 478-487, 564-573).
ReadCall == /\ rpc = "idle"
            /\ "RUN" \in state
            /\ rleft' \in ReadSizes
            /\ rpc' = "read"
            /\ out' = <<>>
            /\ UNCHANGED <<ring, state, read_sem, write_sem, writer, ended>>

ReadStopped == /\ rpc = "read"
               /\ "STOPPED" \in state
               /\ rpc' = "idle"
               /\ UNCHANGED <<ring, state, read_sem, write_sem, rleft, out, writer, ended>>

\* move n bytes out of the ring
Deliver(n) == /\ out' = out \o [i \in 1 .. n |-> buf[read_pos + i - 1]]
              /\ fill' = fill - n
              /\ read_pos' = (read_pos + n) % BufSize
              /\ rleft' = rleft - n

\* Mutant: make room and wake nobody.
ReadChunk_NoWake == /\ rpc = "read"
                    /\ "STOPPED" \notin state
                    /\ ReadSize <= fill
                    /\ Deliver(ReadSize)
                    /\ rpc' = IF rleft = ReadSize THEN "idle" ELSE "read"
                    /\ UNCHANGED <<buf, write_pos, state, read_sem, write_sem, writer, ended>>

ReadChunk == /\ rpc = "read"
             /\ "STOPPED" \notin state
             /\ ReadSize <= fill
             /\ Deliver(ReadSize)
             /\ WakeWriter(state)
             /\ rpc' = IF rleft = ReadSize THEN "idle" ELSE "read"
             /\ UNCHANGED <<buf, write_pos, read_sem, writer, ended>>

\* finished, and less than a chunk is left: deliver the rest, wake nobody
ReadRest == /\ rpc = "read"
            /\ "STOPPED" \notin state
            /\ ReadSize > fill
            /\ "FINISHED" \in state
            /\ fill > 0
            /\ Deliver(fill)
            /\ rpc' = "idle"
            /\ UNCHANGED <<buf, write_pos, state, read_sem, write_sem, writer, ended>>

\* Mutant: finished means nothing is left.
ReadEnd_TooEarly == /\ rpc = "read"
                    /\ "STOPPED" \notin state
                    /\ ReadSize > fill
                    /\ "FINISHED" \in state
                    /\ rpc' = "idle"
                    /\ UNCHANGED <<ring, state, read_sem, write_sem, rleft, out, writer, ended>>

ReadEnd == /\ rpc = "read"
           /\ "STOPPED" \notin state
           /\ ReadSize > fill
           /\ "FINISHED" \in state
           /\ fill = 0
           /\ rpc' = "idle"
           /\ UNCHANGED <<ring, state, read_sem, write_sem, rleft, out, writer, ended>>

ReadBlock == /\ rpc = "read"
             /\ "STOPPED" \notin state
             /\ ReadSize > fill
             /\ "FINISHED" \notin state
             /\ state' = state \cup {"WAIT_READABLE"}
             /\ rpc' = "read_wait"
             /\ UNCHANGED <<ring, read_sem, write_sem, rleft, out, writer, ended>>

ReadWake == /\ rpc = "read_wait"
            /\ SemAvailable(read_sem)
            /\ read_sem' = SemTake(read_sem)
            /\ rpc' = "read"
            /\ UNCHANGED <<ring, state, write_sem, rleft, out, writer, ended>>

Read == \/ ReadStopped \/ ReadChunk \/ ReadRest \/ ReadEnd \/ ReadBlock \/ ReadWake

--------------------------------------------------------------------------------
(* audio_stream_write *)

WriteCall == /\ wpc = "idle"
             /\ wleft' \in WriteSizes
             /\ wpc' = "write"
             /\ UNCHANGED <<ring, state, read_sem, write_sem, reader, wnext, ended>>

\* not running, reset, stopped or finished: the call returns without storing
WriteRefused == /\ wpc = "write"
                /\ \/ "RUN" \notin state
                   \/ state \cap {"RESET", "STOPPED", "FINISHED"} # {}
                /\ wpc' = "idle"
                /\ UNCHANGED <<ring, state, read_sem, write_sem, reader, wleft, wnext, ended>>

WriteGoesOn == /\ wpc = "write"
               /\ "RUN" \in state
               /\ state \cap {"RESET", "STOPPED", "FINISHED"} = {}

WriteChunk ==
  LET n == WriteSize
  IN  /\ WriteGoesOn
      /\ n <= BufSize - fill
      /\ buf' = [i \in Cells |-> IF i \in write_pos .. write_pos + n - 1
                                   THEN (wnext + i - write_pos) % SeqMod
                                   ELSE buf[i]]
      /\ fill' = fill + n
      /\ write_pos' = (write_pos + n) % BufSize
      /\ wnext' = (wnext + n) % SeqMod
      /\ wleft' = wleft - n
      /\ WakeReader(state)
      /\ wpc' = IF wleft = n THEN "idle" ELSE "write"
      /\ UNCHANGED <<read_pos, write_sem, reader, ended>>

\* Mutant: wait also when the chunk fits exactly.
WriteBlock_OffByOne == /\ WriteGoesOn
                       /\ WriteSize >= BufSize - fill
                       /\ state' = state \cup {"WAIT_WRITABLE"}
                       /\ wpc' = "write_wait"
                       /\ UNCHANGED <<ring, read_sem, write_sem, reader, wleft, wnext, ended>>

WriteBlock == /\ WriteGoesOn
              /\ WriteSize > BufSize - fill
              /\ state' = state \cup {"WAIT_WRITABLE"}
              /\ wpc' = "write_wait"
              /\ UNCHANGED <<ring, read_sem, write_sem, reader, wleft, wnext, ended>>

WriteWake == /\ wpc = "write_wait"
             /\ SemAvailable(write_sem)
             /\ write_sem' = SemTake(write_sem)
             /\ wpc' = "write_woken"
             /\ UNCHANGED <<ring, state, read_sem, reader, wleft, wnext, ended>>

\* the look at RESET without the lock: give up and claim everything was written
WriteRecheck == /\ wpc = "write_woken"
                /\ wpc' = IF "RESET" \in state THEN "idle" ELSE "write"
                /\ UNCHANGED <<ring, state, read_sem, write_sem, reader, wleft, wnext, ended>>

Write == \/ WriteRefused \/ WriteChunk \/ WriteBlock \/ WriteWake \/ WriteRecheck

--------------------------------------------------------------------------------
(* audio_stream_start, finish, stop, reset, resume *)

\* Mutant: forget the fill level.
Empty_PositionsOnly == read_pos' = 0 /\ write_pos' = 0 /\ UNCHANGED fill

Empty == fill' = 0 /\ read_pos' = 0 /\ write_pos' = 0

\* The writing thread starts the stream between two writes.  Each worker loop
\* ends what it started with a finish or a stop, its own or another thread's,
\* before it comes to the next start (player.c 369-392, 880-900, recorder.c
\* 497-511, 593-613).  The start forgets every flag, also that of a sleeper.
Start == /\ wpc = "idle"
         /\ "RUN" \in state => ended
         /\ Empty
         /\ state' = {"RUN"}
         /\ ended' = FALSE
         /\ UNCHANGED <<buf, read_sem, write_sem, reader, writer>>

\* Mutants: finish without a look at the reader; take its flag and give nothing.
Finish_NoWake == /\ state' = state \cup {"FINISHED"}
                 /\ ended' = TRUE
                 /\ UNCHANGED <<ring, read_sem, write_sem, reader, writer>>
Finish_NoGive == /\ state' = (state \ {"WAIT_READABLE"}) \cup {"FINISHED"}
                 /\ ended' = TRUE
                 /\ UNCHANGED <<ring, read_sem, write_sem, reader, writer>>

Finish == /\ WakeReader(state \cup {"FINISHED"})
          /\ ended' = TRUE
          /\ UNCHANGED <<ring, write_sem, reader, writer>>

\* Mutant: stop wakes the reader alone.
Stop_ReaderOnly == /\ "STOPPED" \notin state
                   /\ WakeReader(state \cup {"STOPPED"})
                   /\ ended' = TRUE
                   /\ UNCHANGED <<ring, write_sem, reader, writer>>

Stop == /\ "STOPPED" \notin state
        /\ state' = (state \ {"WAIT_READABLE", "WAIT_WRITABLE"}) \cup {"STOPPED"}
        /\ write_sem' = IF "WAIT_WRITABLE" \in state THEN SemGive(write_sem) ELSE write_sem
        /\ read_sem' = IF "WAIT_READABLE" \in state THEN SemGive(read_sem) ELSE read_sem
        /\ ended' = TRUE
        /\ UNCHANGED <<ring, reader, writer>>

\* player_preprocess_seek: decoder_run and the decoders between two reads, or the
\* application at any time
Reset == /\ Seekable
         /\ Empty
         /\ WakeWriter((state \ {"FINISHED"}) \cup {"RESET"})
         /\ UNCHANGED <<buf, read_sem, reader, writer, ended>>

\* the writing thread after it moved its source; player_play of an info_only file
Resume == /\ Seekable
          /\ "RESET" \in state
          /\ state' = state \ {"RESET"}
          /\ UNCHANGED <<ring, read_sem, write_sem, reader, writer, ended>>

Next == \/ ReadCall \/ Read
        \/ WriteCall \/ Write
        \/ Start \/ Finish \/ Stop \/ Reset \/ Resume

Spec == Init /\ [][Next]_vars

(***************************************************************************)
(* Fairness of the threads: whoever is inside a call and can run runs, and *)
(* the reading worker loops (it reads again until the stream ends).        *)
(***************************************************************************)
FairSpec == Spec /\ WF_vars(ReadCall) /\ WF_vars(Read) /\ WF_vars(Write)

--------------------------------------------------------------------------------
(* Properties *)

\* Every variable keeps its type.
TypeOK == /\ buf \in [Cells -> Bytes]
          /\ fill \in 0 .. BufSize
          /\ read_pos \in Cells /\ write_pos \in Cells
          /\ state \subseteq Flags
          /\ read_sem \in Permits /\ write_sem \in Permits
          /\ rpc \in {"idle", "read", "read_wait"}
          /\ wpc \in {"idle", "write", "write_wait", "write_woken"}
          /\ rleft \in Nat /\ wleft \in Nat
          /\ out \in Seq(Bytes)
          /\ wnext \in Bytes
          /\ ended \in BOOLEAN

\* The two positions and the fill level describe the same bytes.
RingConsistent == write_pos = (read_pos + fill) % BufSize

\* A flag left on tells the truth: the reader's chunk is not there, the writer's
\* chunk does not fit.  The one exception is the flag of a writer that left its
\* call because another thread finished the stream.
FlagsTruthful ==
  /\ "WAIT_READABLE" \in state =>
       /\ rpc \in {"read", "read_wait"}
       /\ ReadSize > fill
       /\ state \cap {"FINISHED", "STOPPED"} = {}
  /\ "WAIT_WRITABLE" \in state =>
       /\ "RUN" \in state /\ state \cap {"RESET", "STOPPED"} = {}
       /\ \/ wpc # "idle" /\ WriteSize > BufSize - fill
          \/ wpc \in {"idle", "write"} /\ "FINISHED" \in state

ReaderAnnounced == rpc = "read_wait" => "WAIT_READABLE" \in state \/ read_sem > 0
WriterAnnounced == wpc = "write_wait" => "WAIT_WRITABLE" \in state \/ write_sem > 0

\* a stream that ended and was not started again shows it, unless it was reset
EndShows == ended /\ ~Seekable => state \cap {"FINISHED", "STOPPED"} # {}

IInv == /\ TypeOK /\ RingConsistent /\ FlagsTruthful /\ WriterAnnounced /\ EndShows
        /\ ~Seekable => ReaderAnnounced
        /\ rpc # "idle" => "RUN" \in state

\* No lost wakeup of the writer: it never sleeps without a permit when its chunk
\* fits, or when the stream was stopped or reset under it.
WriterNotStranded ==
  wpc = "write_wait" /\ (WriteSize <= BufSize - fill \/ state \cap {"STOPPED", "RESET"} # {})
    => write_sem > 0

\* No lost wakeup of the reader: it never sleeps without a permit when its chunk
\* is there, or when the stream was finished or stopped.
ReaderNotStranded ==
  rpc = "read_wait" /\ (ReadSize <= fill \/ state \cap {"FINISHED", "STOPPED"} # {})
    => read_sem > 0

\* Reader and writer never wait for each other, whatever sizes they ask for: a
\* chunk that waits for bytes and a chunk that waits for room exclude each other.
NoMutualWait ==
  ~(rpc = "read_wait" /\ wpc = "write_wait" /\ read_sem = 0 /\ write_sem = 0)

\* The read that takes the last bytes of a finished stream wakes no writer (lines
\* 108-124); no writer that sleeps is left behind by it.
RestLeavesNoSleeper == [][ReadRest => wpc # "write_wait" \/ write_sem > 0]_vars

\* A read comes back short only from a stopped stream, or from a finished stream
\* that it leaves empty: no byte is cut off at the end of a track.
ShortReadIsTheEnd ==
  [][rpc = "read" /\ rpc' = "idle" /\ rleft' > 0
       => \/ "STOPPED" \in state
          \/ "FINISHED" \in state /\ fill' = 0]_vars

\* In the stream that is reset, only a start can leave the sleeping reader without
\* its flag: every other operation keeps it announced.
OnlyStartStrands == [][ReaderAnnounced /\ ~ReaderAnnounced' => Start]_vars

(***************************************************************************)
(* The stream implements the byte channel.                                 *)
(***************************************************************************)
Contents == [i \in 1 .. fill |-> buf[(read_pos + i - 1) % BufSize]]

Chan == INSTANCE ByteStream WITH chan <- Contents, Capacity <- BufSize

\* Bytes come out once and in order, whatever reader, writer and the threads that
\* finish, stop, start and reset the stream do.
ImplementsByteStream == Chan!Spec

\* What was in the stream when it was finished is read to the end.
FinishedDrains == "FINISHED" \in state ~> (fill = 0 \/ "STOPPED" \in state)

\* A write that waits for room returns, because the reader goes on reading.
WriteReturns == wpc # "idle" ~> wpc = "idle"
================================================================================
