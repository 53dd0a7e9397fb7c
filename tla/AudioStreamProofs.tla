--------------------------- MODULE AudioStreamProofs ---------------------------
(* Theorems about the byte stream, for every ring size and every request size. *)
EXTENDS AudioStream, SequenceTheorems, TLAPS

(***************************************************************************)
(* Arithmetic of the ring.                                                 *)
(***************************************************************************)
LEMMA ModBelow == ASSUME NEW n \in Nat \ {0}, NEW a \in 0 .. n - 1
                  PROVE  a % n = a
  OBVIOUS

LEMMA ModWrap == ASSUME NEW n \in Nat \ {0}, NEW a \in n .. 2 * n - 1
                 PROVE  a % n = a - n
  OBVIOUS

LEMMA ModRange == ASSUME NEW n \in Nat \ {0}, NEW a \in Nat
                  PROVE  a % n \in 0 .. n - 1
  OBVIOUS

\* Taking n bytes at the read position keeps the ring consistent.
LEMMA TakeKeepsRing ==
  ASSUME NEW B \in Nat \ {0}, NEW rp \in 0 .. B - 1, NEW f \in 0 .. B,
         NEW n \in Nat, n <= f, n <= B - rp
  PROVE  (rp + f) % B = (((rp + n) % B) + (f - n)) % B
<1>1. CASE rp + n < B
  <2>1. (rp + n) % B = rp + n
    BY <1>1, ModBelow
  <2> QED
    BY <2>1
<1>2. CASE rp + n = B
  <2>1. (rp + n) % B = 0
    BY <1>2, ModWrap
  <2>2. f - n \in 0 .. B - 1 /\ rp + f \in B .. 2 * B - 1
    BY <1>2
  <2>3. (f - n) % B = f - n
    BY <2>2, ModBelow
  <2>4. (rp + f) % B = rp + f - B
    BY SMTT(30), <2>2, ModWrap
  <2> QED
    BY <1>2, <2>1, <2>3, <2>4
<1> QED
  BY <1>1, <1>2

\* Adding n bytes at the write position keeps the ring consistent.
LEMMA AddKeepsRing ==
  ASSUME NEW B \in Nat \ {0}, NEW rp \in 0 .. B - 1, NEW f \in 0 .. B,
         NEW n \in Nat, n <= B - f
  PROVE  (((rp + f) % B) + n) % B = (rp + (f + n)) % B
<1>1. CASE rp + f < B
  BY <1>1, ModBelow
<1>2. CASE rp + f >= B
  <2>1. rp + f \in B .. 2 * B - 1 /\ rp + f + n \in B .. 2 * B - 1
    BY <1>2
  <2>2. (rp + f) % B = rp + f - B
    BY <2>1, ModWrap
  <2>3. (rp + (f + n)) % B = rp + f + n - B
    BY <2>1, ModWrap
  <2>4. rp + f - B + n \in 0 .. B - 1
    BY <2>1
  <2>5. (rp + f - B + n) % B = rp + f - B + n
    BY <2>4, ModBelow
  <2> QED
    BY <2>2, <2>3, <2>5
<1> QED
  BY <1>1, <1>2

\* A chunk is no longer than its request nor than the cells up to the ring's end.
LEMMA ChunkBounds ==
  ASSUME TypeOK
  PROVE  /\ ReadSize \in Nat /\ ReadSize <= rleft /\ ReadSize <= BufSize - read_pos
         /\ WriteSize \in Nat /\ WriteSize <= wleft /\ WriteSize <= BufSize - write_pos
  BY StreamAssumption DEF TypeOK, ReadSize, WriteSize, Lesser, Cells

(***************************************************************************)
(* The heart of the matter: a chunk that waits for bytes and a chunk that  *)
(* waits for room exclude each other.  A reader that misses bytes reads    *)
(* from a ring whose contents do not wrap, so the writer's chunk, cut at   *)
(* the end of the ring, fits behind them.                                  *)
(***************************************************************************)
LEMMA ChunksExclude ==
  ASSUME TypeOK, RingConsistent
  PROVE  ~(ReadSize > fill /\ WriteSize > BufSize - fill)
<1> SUFFICES ASSUME ReadSize > fill PROVE WriteSize <= BufSize - fill
  BY ChunkBounds, StreamAssumption DEF TypeOK
<1>1. /\ fill \in Nat /\ read_pos \in Nat /\ BufSize \in Nat \ {0}
  BY StreamAssumption DEF TypeOK, Cells
<1>2. read_pos + fill \in 0 .. BufSize - 1
  BY <1>1, ChunkBounds
<1>3. write_pos = read_pos + fill
  BY <1>1, <1>2, ModBelow DEF RingConsistent
<1> QED
  BY <1>1, <1>3, ChunkBounds

LEMMA GiveLeavesPermit == ASSUME NEW n \in Permits
                          PROVE  SemGive(n) \in Permits /\ SemGive(n) > 0
  BY SemAssumption DEF Permits, SemGive

\* What waking a side does, if its flag was on and if it was not.
LEMMA WakeReaderEffect ==
  ASSUME TypeOK, NEW flags, WakeReader(flags)
  PROVE  /\ state' = flags \ {"WAIT_READABLE"}
         /\ read_sem' \in Permits
         /\ read_sem > 0 => read_sem' > 0
         /\ "WAIT_READABLE" \in flags => read_sem' > 0
  BY GiveLeavesPermit DEF WakeReader, TypeOK

LEMMA WakeWriterEffect ==
  ASSUME TypeOK, NEW flags, WakeWriter(flags)
  PROVE  /\ state' = flags \ {"WAIT_WRITABLE"}
         /\ write_sem' \in Permits
         /\ write_sem > 0 => write_sem' > 0
         /\ "WAIT_WRITABLE" \in flags => write_sem' > 0
  BY GiveLeavesPermit DEF WakeWriter, TypeOK

\* Delivering bytes keeps the types and the ring.
LEMMA DeliverEffect ==
  ASSUME TypeOK, RingConsistent, NEW n \in Nat, n <= fill, n <= ReadSize,
         Deliver(n), write_pos' = write_pos
  PROVE  /\ fill' \in 0 .. BufSize /\ read_pos' \in Cells
         /\ rleft' \in Nat /\ out' \in Seq(Bytes)
         /\ RingConsistent'
<1>1. /\ BufSize \in Nat \ {0} /\ read_pos \in 0 .. BufSize - 1 /\ fill \in 0 .. BufSize
      /\ n <= BufSize - read_pos /\ n <= rleft /\ rleft \in Nat
  BY StreamAssumption, ChunkBounds DEF TypeOK, Cells
<1>2. fill' \in 0 .. BufSize /\ rleft' \in Nat
  BY <1>1 DEF Deliver
<1>3. read_pos' \in Cells
  BY <1>1, ModRange DEF Deliver, Cells
<1>4. out' \in Seq(Bytes)
  <2> DEFINE moved == [i \in 1 .. n |-> buf[read_pos + i - 1]]
  <2>1. \A i \in 1 .. n : read_pos + i - 1 \in Cells
    BY <1>1 DEF Cells
  <2>2. moved \in Seq(Bytes)
    BY <2>1, IsASeq DEF TypeOK
  <2> QED
    BY <2>2, ConcatProperties DEF Deliver, TypeOK
<1>5. RingConsistent'
  BY <1>1, TakeKeepsRing DEF Deliver, RingConsistent
<1> QED
  BY <1>2, <1>3, <1>4, <1>5

--------------------------------------------------------------------------------

LEMMA InitIInv == Init => IInv
<1> SUFFICES ASSUME Init PROVE IInv
  OBVIOUS
<1>1. TypeOK
  BY StreamAssumption, SemAssumption DEF Init, TypeOK, Cells, Bytes, Permits, Flags
<1>2. RingConsistent
  BY StreamAssumption, ModBelow DEF Init, RingConsistent
<1> QED
  BY <1>1, <1>2 DEF Init, IInv, FlagsTruthful, WriterAnnounced, ReaderAnnounced, EndShows

(***************************************************************************)
(* The operations of the reader.                                           *)
(***************************************************************************)
LEMMA ReaderIInv == IInv /\ (ReadCall \/ Read) => IInv'
<1> SUFFICES ASSUME IInv, ReadCall \/ Read PROVE IInv'
  OBVIOUS
<1> USE DEF IInv
<1>1. CASE ReadCall
  <2>1. "WAIT_READABLE" \notin state
    BY <1>1 DEF ReadCall, FlagsTruthful
  <2>2. TypeOK'
    BY <1>1, StreamAssumption DEF ReadCall, TypeOK, ring, writer
  <2> QED
    BY <1>1, <2>1, <2>2 DEF ReadCall, RingConsistent, FlagsTruthful, WriteSize,
       WriterAnnounced, ReaderAnnounced, EndShows, ring, writer
<1>2. CASE ReadStopped
  BY <1>2 DEF ReadStopped, TypeOK, RingConsistent, FlagsTruthful, ReadSize, WriteSize,
     WriterAnnounced, ReaderAnnounced, EndShows, ring, writer
<1>3. CASE ReadChunk
  <2>1. "WAIT_READABLE" \notin state
    BY <1>3, ChunkBounds DEF ReadChunk, FlagsTruthful, TypeOK
  <2>2. /\ state' = state \ {"WAIT_WRITABLE"}
        /\ write_sem' \in Permits
        /\ write_sem > 0 => write_sem' > 0
        /\ "WAIT_WRITABLE" \in state => write_sem' > 0
    BY <1>3, WakeWriterEffect DEF ReadChunk
  <2>3. /\ fill' \in 0 .. BufSize /\ read_pos' \in Cells
        /\ rleft' \in Nat /\ out' \in Seq(Bytes)
        /\ RingConsistent'
    BY <1>3, ChunkBounds, DeliverEffect DEF ReadChunk
  <2>4. TypeOK'
    BY <1>3, <2>2, <2>3 DEF ReadChunk, TypeOK, writer
  <2>5. FlagsTruthful'
    BY <2>1, <2>2 DEF FlagsTruthful
  <2>6. WriterAnnounced' /\ ReaderAnnounced' /\ EndShows'
    BY <1>3, <2>2 DEF ReadChunk, WriterAnnounced, ReaderAnnounced, EndShows, writer
  <2> QED
    BY <1>3, <2>2, <2>3, <2>4, <2>5, <2>6 DEF ReadChunk
<1>4. CASE ReadRest
  <2>1. "WAIT_READABLE" \notin state
    BY <1>4 DEF ReadRest, FlagsTruthful
  <2>2. "WAIT_WRITABLE" \in state => wpc \in {"idle", "write"}
    BY <1>4, ChunksExclude DEF ReadRest, FlagsTruthful
  <2>3. /\ fill' \in 0 .. BufSize /\ read_pos' \in Cells
        /\ rleft' \in Nat /\ out' \in Seq(Bytes)
        /\ RingConsistent'
    BY <1>4, ChunkBounds, DeliverEffect DEF ReadRest, TypeOK
  <2>4. TypeOK'
    BY <1>4, <2>3 DEF ReadRest, TypeOK, writer
  <2>5. FlagsTruthful'
    BY <1>4, <2>1, <2>2 DEF ReadRest, FlagsTruthful, writer
  <2>6. WriterAnnounced' /\ ReaderAnnounced' /\ EndShows'
    BY <1>4 DEF ReadRest, WriterAnnounced, ReaderAnnounced, EndShows, writer
  <2> QED
    BY <1>4, <2>3, <2>4, <2>5, <2>6 DEF ReadRest
<1>5. CASE ReadEnd
  BY <1>5 DEF ReadEnd, TypeOK, RingConsistent, FlagsTruthful, ReadSize, WriteSize,
     WriterAnnounced, ReaderAnnounced, EndShows, ring, writer
<1>6. CASE ReadBlock
  <2>1. TypeOK'
    BY <1>6 DEF ReadBlock, TypeOK, Flags, ring, writer
  <2>2. ReadSize' = ReadSize /\ WriteSize' = WriteSize
    BY <1>6 DEF ReadBlock, ReadSize, WriteSize, ring, writer
  <2>3. FlagsTruthful'
    BY <1>6, <2>2 DEF ReadBlock, FlagsTruthful, ring, writer
  <2> QED
    BY <1>6, <2>1, <2>3 DEF ReadBlock, RingConsistent, WriterAnnounced, ReaderAnnounced,
       EndShows, ring, writer
<1>7. CASE ReadWake
  <2>1. TypeOK'
    BY <1>7, SemAssumption DEF ReadWake, TypeOK, SemAvailable, SemTake, Permits, ring, writer
  <2> QED
    BY <1>7, <2>1 DEF ReadWake, RingConsistent, FlagsTruthful, ReadSize, WriteSize,
       WriterAnnounced, ReaderAnnounced, EndShows, ring, writer
<1> QED
  BY <1>1, <1>2, <1>3, <1>4, <1>5, <1>6, <1>7 DEF Read

(***************************************************************************)
(* The operations of the writer.                                           *)
(***************************************************************************)
LEMMA WriterIInv == IInv /\ (WriteCall \/ Write) => IInv'
<1> SUFFICES ASSUME IInv, WriteCall \/ Write PROVE IInv'
  OBVIOUS
<1> USE DEF IInv
<1>1. CASE WriteCall
  <2>1. TypeOK'
    BY <1>1, StreamAssumption DEF WriteCall, TypeOK, ring, reader
  <2>2. ReadSize' = ReadSize
    BY <1>1 DEF WriteCall, ReadSize, ring, reader
  <2>3. FlagsTruthful'
    BY <1>1, <2>2 DEF WriteCall, FlagsTruthful, ring, reader
  <2> QED
    BY <1>1, <2>1, <2>3 DEF WriteCall, RingConsistent, WriterAnnounced, ReaderAnnounced,
       EndShows, ring, reader
<1>2. CASE WriteRefused
  <2>1. FlagsTruthful'
    BY <1>2 DEF WriteRefused, FlagsTruthful, ReadSize, WriteSize, ring, reader
  <2> QED
    BY <1>2, <2>1 DEF WriteRefused, TypeOK, RingConsistent, WriterAnnounced,
       ReaderAnnounced, EndShows, ring, reader
<1>3. CASE WriteChunk
  <2>1. "WAIT_WRITABLE" \notin state
    BY <1>3, ChunkBounds, StreamAssumption DEF WriteChunk, WriteGoesOn, FlagsTruthful, TypeOK
  <2>2. /\ state' = state \ {"WAIT_READABLE"}
        /\ read_sem' \in Permits
        /\ read_sem > 0 => read_sem' > 0
        /\ "WAIT_READABLE" \in state => read_sem' > 0
    BY <1>3, WakeReaderEffect DEF WriteChunk
  <2>3. /\ BufSize \in Nat \ {0} /\ fill \in 0 .. BufSize /\ SeqMod \in Nat \ {0}
        /\ write_pos \in 0 .. BufSize - 1 /\ read_pos \in 0 .. BufSize - 1
        /\ WriteSize \in Nat /\ WriteSize <= BufSize - fill /\ WriteSize <= wleft
        /\ wnext \in 0 .. SeqMod - 1 /\ wleft \in Nat
    BY <1>3, ChunkBounds, StreamAssumption DEF WriteChunk, TypeOK, Cells, Bytes
  <2>4. fill' \in 0 .. BufSize /\ wleft' \in Nat
    BY <1>3, <2>3 DEF WriteChunk
  <2>5. write_pos' \in Cells /\ wnext' \in Bytes
    BY <1>3, <2>3, ModRange DEF WriteChunk, Cells, Bytes
  <2>6. buf' \in [Cells -> Bytes]
    <3>1. \A i \in Cells : i \in write_pos .. write_pos + WriteSize - 1
                             => (wnext + i - write_pos) % SeqMod \in Bytes
      <4>1. SUFFICES ASSUME NEW i \in Cells, i \in write_pos .. write_pos + WriteSize - 1
                     PROVE  (wnext + i - write_pos) % SeqMod \in Bytes
        OBVIOUS
      <4>2. wnext + i - write_pos \in Nat
        BY <2>3, <4>1 DEF Cells
      <4> QED
        BY <2>3, <4>2, ModRange DEF Bytes
    <3> QED
      BY <1>3, <3>1 DEF WriteChunk, TypeOK
  <2>7. TypeOK'
    BY <1>3, <2>2, <2>4, <2>5, <2>6 DEF WriteChunk, TypeOK, reader
  <2>8. RingConsistent'
    BY <1>3, <2>3, AddKeepsRing DEF WriteChunk, RingConsistent
  <2>9. FlagsTruthful'
    BY <2>1, <2>2 DEF FlagsTruthful
  <2>10. WriterAnnounced'
    BY <1>3 DEF WriteChunk, WriterAnnounced
  <2>11. ~Seekable => ReaderAnnounced'
    BY <1>3, <2>2 DEF WriteChunk, ReaderAnnounced, reader
  <2>12. EndShows'
    BY <1>3, <2>2 DEF WriteChunk, EndShows
  <2> QED
    BY <1>3, <2>2, <2>7, <2>8, <2>9, <2>10, <2>11, <2>12 DEF WriteChunk, reader
<1>4. CASE WriteBlock
  <2>1. TypeOK'
    BY <1>4 DEF WriteBlock, WriteGoesOn, TypeOK, Flags, ring, reader
  <2>2. ReadSize' = ReadSize /\ WriteSize' = WriteSize
    BY <1>4 DEF WriteBlock, ReadSize, WriteSize, ring, reader
  <2>3. FlagsTruthful'
    BY <1>4, <2>2 DEF WriteBlock, WriteGoesOn, FlagsTruthful, ring, reader
  <2> QED
    BY <1>4, <2>1, <2>3 DEF WriteBlock, RingConsistent, WriterAnnounced, ReaderAnnounced,
       EndShows, ring, reader
<1>5. CASE WriteWake
  <2>1. TypeOK'
    BY <1>5, SemAssumption DEF WriteWake, TypeOK, SemAvailable, SemTake, Permits, ring, reader
  <2> QED
    BY <1>5, <2>1 DEF WriteWake, RingConsistent, FlagsTruthful, ReadSize, WriteSize,
       WriterAnnounced, ReaderAnnounced, EndShows, ring, reader
<1>6. CASE WriteRecheck
  <2>1. FlagsTruthful'
    BY <1>6 DEF WriteRecheck, FlagsTruthful, ReadSize, WriteSize, ring, reader
  <2> QED
    BY <1>6, <2>1 DEF WriteRecheck, TypeOK, RingConsistent, WriterAnnounced,
       ReaderAnnounced, EndShows, ring, reader
<1> QED
  BY <1>1, <1>2, <1>3, <1>4, <1>5, <1>6 DEF Write

(***************************************************************************)
(* Start, finish, stop, reset and resume.                                  *)
(***************************************************************************)
LEMMA EmptyRing == ASSUME Empty
                   PROVE  fill' \in 0 .. BufSize /\ read_pos' \in Cells
                          /\ write_pos' \in Cells /\ RingConsistent'
  BY StreamAssumption, ModBelow DEF Empty, Cells, RingConsistent

LEMMA ControlIInv == IInv /\ (Start \/ Finish \/ Stop \/ Reset \/ Resume) => IInv'
<1> SUFFICES ASSUME IInv, Start \/ Finish \/ Stop \/ Reset \/ Resume PROVE IInv'
  OBVIOUS
<1> USE DEF IInv
<1>1. CASE Start
  <2>1. TypeOK' /\ RingConsistent'
    BY <1>1, EmptyRing DEF Start, TypeOK, Flags, reader, writer
  <2>2. ~Seekable => ReaderAnnounced'
    BY <1>1 DEF Start, EndShows, FlagsTruthful, ReaderAnnounced, reader
  <2> QED
    BY <1>1, <2>1, <2>2 DEF Start, FlagsTruthful, WriterAnnounced, EndShows, reader, writer
<1>2. CASE Finish
  <2>1. /\ state' = (state \cup {"FINISHED"}) \ {"WAIT_READABLE"}
        /\ read_sem' \in Permits
        /\ read_sem > 0 => read_sem' > 0
        /\ "WAIT_READABLE" \in state => read_sem' > 0
    BY <1>2, WakeReaderEffect DEF Finish
  <2>2. TypeOK'
    BY <1>2, <2>1 DEF Finish, TypeOK, Flags, ring, reader, writer
  <2>3. ReadSize' = ReadSize /\ WriteSize' = WriteSize
    BY <1>2 DEF Finish, ReadSize, WriteSize, ring, reader, writer
  <2>4. FlagsTruthful'
    BY <1>2, <2>1, <2>3 DEF Finish, FlagsTruthful, ring, reader, writer
  <2> QED
    BY <1>2, <2>1, <2>2, <2>4 DEF Finish, RingConsistent, WriterAnnounced, ReaderAnnounced,
       EndShows, ring, reader, writer
<1>3. CASE Stop
  <2>1. /\ read_sem' \in Permits /\ write_sem' \in Permits
        /\ read_sem > 0 \/ "WAIT_READABLE" \in state => read_sem' > 0
        /\ write_sem > 0 \/ "WAIT_WRITABLE" \in state => write_sem' > 0
    BY <1>3, GiveLeavesPermit DEF Stop, TypeOK
  <2>2. TypeOK'
    BY <1>3, <2>1 DEF Stop, TypeOK, Flags, ring, reader, writer
  <2> QED
    BY <1>3, <2>1, <2>2 DEF Stop, RingConsistent, FlagsTruthful, WriterAnnounced,
       ReaderAnnounced, EndShows, ring, reader, writer
<1>4. CASE Reset
  <2>1. /\ state' = ((state \ {"FINISHED"}) \cup {"RESET"}) \ {"WAIT_WRITABLE"}
        /\ write_sem' \in Permits
        /\ write_sem > 0 => write_sem' > 0
        /\ "WAIT_WRITABLE" \in state => write_sem' > 0
    BY <1>4, WakeWriterEffect DEF Reset
  <2>2. TypeOK' /\ RingConsistent'
    BY <1>4, <2>1, EmptyRing DEF Reset, TypeOK, Flags, reader, writer
  <2>3. FlagsTruthful'
    <3>1. "WAIT_READABLE" \in state => rleft > 0
      BY ChunkBounds DEF FlagsTruthful, TypeOK
    <3>2. rleft > 0 => ReadSize' > fill'
      BY <1>4, StreamAssumption DEF Reset, Empty, ReadSize, Lesser, reader, TypeOK
    <3> QED
      BY <1>4, <2>1, <3>1, <3>2 DEF Reset, FlagsTruthful, reader
  <2> QED
    BY <1>4, <2>1, <2>2, <2>3 DEF Reset, WriterAnnounced, EndShows, reader, writer
<1>5. CASE Resume
  <2>1. ReadSize' = ReadSize /\ WriteSize' = WriteSize
    BY <1>5 DEF Resume, ReadSize, WriteSize, ring, reader, writer
  <2> QED
    BY <1>5, <2>1 DEF Resume, TypeOK, RingConsistent, FlagsTruthful, WriterAnnounced,
       EndShows, ring, reader, writer
<1> QED
  BY <1>1, <1>2, <1>3, <1>4, <1>5

LEMMA NextIInv == IInv /\ [Next]_vars => IInv'
<1>1. IInv /\ UNCHANGED vars => IInv'
  BY DEF vars, IInv, TypeOK, RingConsistent, FlagsTruthful, ReadSize, WriteSize,
     WriterAnnounced, ReaderAnnounced, EndShows
<1> QED
  BY <1>1, ReaderIInv, WriterIInv, ControlIInv DEF Next

--------------------------------------------------------------------------------

\* The inductive invariant holds in every reachable state.
THEOREM StreamInvariant == Spec => []IInv
  BY InitIInv, NextIInv, PTL DEF Spec

\* Whatever takes the flag of the sleeping reader gives it a permit, except the start.
LEMMA OthersAnnounce ==
  ASSUME IInv, ReaderAnnounced, [Next]_vars, ~Start
  PROVE  ReaderAnnounced'
<1> USE DEF IInv
<1>1. CASE rpc' # "read_wait"
  BY <1>1 DEF ReaderAnnounced
<1>2. CASE ReadBlock
  BY <1>2 DEF ReadBlock, ReaderAnnounced
<1>3. CASE WriteChunk
  <2>1. /\ read_sem > 0 => read_sem' > 0
        /\ "WAIT_READABLE" \in state => read_sem' > 0
    BY <1>3, WakeReaderEffect DEF WriteChunk
  <2> QED
    BY <1>3, <2>1 DEF WriteChunk, ReaderAnnounced, reader
<1>4. CASE Finish
  <2>1. /\ read_sem > 0 => read_sem' > 0
        /\ "WAIT_READABLE" \in state \cup {"FINISHED"} => read_sem' > 0
    BY <1>4, WakeReaderEffect DEF Finish
  <2> QED
    BY <1>4, <2>1 DEF Finish, ReaderAnnounced, reader
<1>5. CASE Stop
  <2>1. read_sem > 0 \/ "WAIT_READABLE" \in state => read_sem' > 0
    BY <1>5, GiveLeavesPermit DEF Stop, TypeOK
  <2> QED
    BY <1>5, <2>1 DEF Stop, ReaderAnnounced, reader
<1>6. CASE Reset
  <2>1. state' = ((state \ {"FINISHED"}) \cup {"RESET"}) \ {"WAIT_WRITABLE"}
    BY <1>6, WakeWriterEffect DEF Reset
  <2> QED
    BY <1>6, <2>1 DEF Reset, ReaderAnnounced, reader
<1>7. CASE \/ WriteCall \/ WriteRefused \/ WriteBlock \/ WriteWake \/ WriteRecheck
           \/ Resume \/ UNCHANGED vars
  BY <1>7 DEF WriteCall, WriteRefused, WriteBlock, WriteWake, WriteRecheck, Resume, vars,
     ReaderAnnounced, reader
<1>8. CASE ReadCall \/ ReadStopped \/ ReadChunk \/ ReadRest \/ ReadEnd \/ ReadWake
  <2>1. rpc' # "read_wait"
    BY <1>8 DEF ReadCall, ReadStopped, ReadChunk, ReadRest, ReadEnd, ReadWake
  <2> QED
    BY <1>1, <2>1
<1> QED
  BY <1>2, <1>3, <1>4, <1>5, <1>6, <1>7, <1>8 DEF Next, Read, Write

\* In the stream that is reset, too, nothing but a start leaves the sleeping reader
\* without its flag and without a permit.
THEOREM StartsAloneStrand == Spec => OnlyStartStrands
<1>1. IInv /\ [Next]_vars => (ReaderAnnounced /\ ~ReaderAnnounced' => Start)
  BY OthersAnnounce
<1> QED
  BY <1>1, InitIInv, NextIInv, PTL DEF Spec, OnlyStartStrands

\* Every operation of audio_stream.c keeps every variable in its type; in particular
\* the fill level and both positions stay inside the ring.
THEOREM StreamTypeOK == Spec => []TypeOK
<1>1. IInv => TypeOK
  BY DEF IInv
<1> QED
  BY <1>1, StreamInvariant, PTL

\* audio_stream_write never sleeps next to enough room, or in a stopped or reset
\* stream, without a permit to run; for every ring and request size.
THEOREM WriterNeverStranded == Spec => []WriterNotStranded
<1>1. IInv => WriterNotStranded
  <2> SUFFICES ASSUME IInv, wpc = "write_wait",
                      WriteSize <= BufSize - fill \/ state \cap {"STOPPED", "RESET"} # {}
               PROVE  write_sem > 0
    BY DEF WriterNotStranded
  <2>1. "WAIT_WRITABLE" \notin state
    BY ChunkBounds, StreamAssumption DEF IInv, FlagsTruthful, TypeOK
  <2> QED
    BY <2>1 DEF IInv, WriterAnnounced
<1> QED
  BY <1>1, StreamInvariant, PTL

\* In a stream that is never reset, audio_stream_read never sleeps next to enough
\* bytes, or in a finished or stopped stream, without a permit to run.
THEOREM ReaderNeverStranded == ASSUME ~Seekable
                               PROVE  Spec => []ReaderNotStranded
<1>1. IInv => ReaderNotStranded
  <2> SUFFICES ASSUME IInv, rpc = "read_wait",
                      ReadSize <= fill \/ state \cap {"FINISHED", "STOPPED"} # {}
               PROVE  read_sem > 0
    BY DEF ReaderNotStranded
  <2>1. "WAIT_READABLE" \notin state
    BY ChunkBounds DEF IInv, FlagsTruthful, TypeOK
  <2> QED
    BY <2>1 DEF IInv, ReaderAnnounced
<1> QED
  BY <1>1, StreamInvariant, PTL

\* In a stream that is never reset, reader and writer never wait for each other.
THEOREM StreamNoMutualWait == ASSUME ~Seekable
                              PROVE  Spec => []NoMutualWait
<1>1. IInv => NoMutualWait
  BY ChunksExclude, SemAssumption
     DEF IInv, FlagsTruthful, WriterAnnounced, ReaderAnnounced, NoMutualWait, TypeOK, Permits
<1> QED
  BY <1>1, StreamInvariant, PTL

\* The read that drains a finished stream without waking the writer leaves no writer
\* asleep without a permit.
THEOREM RestIsSafe == Spec => RestLeavesNoSleeper
<1>1. IInv /\ ReadRest => wpc # "write_wait" \/ write_sem > 0
  BY ChunksExclude DEF IInv, ReadRest, FlagsTruthful, WriterAnnounced, TypeOK
<1> QED
  BY <1>1, StreamInvariant, PTL DEF RestLeavesNoSleeper

\* A read comes back short only from a stopped stream or from a finished one that it
\* leaves empty.
THEOREM ShortReadMeansTheEnd == Spec => ShortReadIsTheEnd
<1>1. IInv /\ [Next]_vars =>
        (rpc = "read" /\ rpc' = "idle" /\ rleft' > 0
           => "STOPPED" \in state \/ ("FINISHED" \in state /\ fill' = 0))
  <2> SUFFICES ASSUME IInv, [Next]_vars, rpc = "read", rpc' = "idle", rleft' > 0
               PROVE  "STOPPED" \in state \/ ("FINISHED" \in state /\ fill' = 0)
    OBVIOUS
  <2> USE DEF IInv
  <2>1. CASE ReadChunk
    BY <2>1, ChunkBounds DEF ReadChunk, Deliver, TypeOK
  <2>2. CASE ReadRest
    BY <2>2 DEF ReadRest, Deliver, TypeOK
  <2>3. CASE ReadEnd
    BY <2>3 DEF ReadEnd, ring
  <2>4. CASE ReadStopped
    BY <2>4 DEF ReadStopped
  <2>5. CASE ReadCall \/ ReadBlock \/ ReadWake
    BY <2>5 DEF ReadCall, ReadBlock, ReadWake
  <2>6. CASE WriteCall \/ Write
    BY <2>6 DEF WriteCall, Write, WriteRefused, WriteChunk, WriteBlock, WriteWake,
       WriteRecheck, reader
  <2>7. CASE Start \/ Finish \/ Stop \/ Reset \/ Resume
    BY <2>7 DEF Start, Finish, Stop, Reset, Resume, reader
  <2>8. CASE UNCHANGED vars
    BY <2>8 DEF vars
  <2> QED
    BY <2>1, <2>2, <2>3, <2>4, <2>5, <2>6, <2>7, <2>8 DEF Next, Read
<1> QED
  BY <1>1, StreamInvariant, PTL DEF ShortReadIsTheEnd, Spec

--------------------------------------------------------------------------------
(***************************************************************************)
(* The stream implements the byte channel of ByteStream.  The contents of  *)
(* a ring of B cells as a sequence: f bytes from cell r on.                *)
(***************************************************************************)
InRing(B, g, r, f) == [i \in 1 .. f |-> g[(r + i - 1) % B]]

LEMMA CellAt == ASSUME NEW B \in Nat \ {0}, NEW r \in 0 .. B - 1, NEW k \in 0 .. B
                PROVE  /\ (r + k) % B \in 0 .. B - 1
                       /\ (r + k) % B = IF r + k < B THEN r + k ELSE r + k - B
<1>1. CASE r + k < B
  BY <1>1
<1>2. CASE r + k >= B
  BY <1>2
<1> QED
  BY <1>1, <1>2

LEMMA InRingSeq ==
  ASSUME NEW B \in Nat \ {0}, NEW r \in 0 .. B - 1, NEW f \in 0 .. B,
         NEW M, NEW g \in [0 .. B - 1 -> M]
  PROVE  /\ InRing(B, g, r, f) \in Seq(M)
         /\ Len(InRing(B, g, r, f)) = f
         /\ \A i \in 1 .. f : InRing(B, g, r, f)[i] = g[(r + (i - 1)) % B]
<1>1. ASSUME NEW i \in 1 .. f
      PROVE  g[(r + i - 1) % B] = g[(r + (i - 1)) % B] /\ g[(r + i - 1) % B] \in M
  <2>1. i - 1 \in 0 .. B /\ r + i - 1 = r + (i - 1)
    OBVIOUS
  <2>2. (r + (i - 1)) % B \in 0 .. B - 1
    BY <2>1, CellAt
  <2> QED
    BY <2>1, <2>2
<1> QED
  BY <1>1 DEF InRing

\* A cell counted from the position after n more bytes.
LEMMA CellAfter ==
  ASSUME NEW B \in Nat \ {0}, NEW r \in 0 .. B - 1, NEW n \in Nat, n <= B - r,
         NEW k \in 0 .. B, n + k <= B
  PROVE  (((r + n) % B) + k) % B = (r + (n + k)) % B
<1>1. n \in 0 .. B /\ n + k \in 0 .. B
  OBVIOUS
<1>2. /\ (r + n) % B \in 0 .. B - 1
      /\ (r + n) % B = IF r + n < B THEN r + n ELSE r + n - B
      /\ (r + (n + k)) % B = IF r + (n + k) < B THEN r + (n + k) ELSE r + (n + k) - B
  BY <1>1, CellAt
<1>3. (((r + n) % B) + k) % B =
        IF ((r + n) % B) + k < B THEN ((r + n) % B) + k ELSE ((r + n) % B) + k - B
  BY <1>2, CellAt
<1> QED
  BY <1>1, <1>2, <1>3

LEMMA ContentsInRing == /\ Contents = InRing(BufSize, buf, read_pos, fill)
                        /\ Contents' = InRing(BufSize, buf, read_pos, fill)'
  BY DEF Contents, InRing

\* the ring as it is between two steps
LEMMA RingTypes ==
  ASSUME TypeOK
  PROVE  /\ BufSize \in Nat \ {0} /\ fill \in 0 .. BufSize
         /\ read_pos \in 0 .. BufSize - 1 /\ write_pos \in 0 .. BufSize - 1
         /\ buf \in [0 .. BufSize - 1 -> Bytes]
         /\ Len(Contents) = fill
         /\ fill = 0 => Contents = <<>>
<1>1. /\ BufSize \in Nat \ {0} /\ fill \in 0 .. BufSize
      /\ read_pos \in 0 .. BufSize - 1 /\ write_pos \in 0 .. BufSize - 1
      /\ buf \in [0 .. BufSize - 1 -> Bytes]
  BY StreamAssumption DEF TypeOK, Cells
<1>2. Contents \in Seq(Bytes) /\ Len(Contents) = fill
  BY SMTT(30), <1>1, InRingSeq, ContentsInRing
<1> HIDE DEF Contents
<1>3. fill = 0 => Contents = <<>>
  BY <1>2, EmptySeq
<1> QED
  BY <1>1, <1>2, <1>3

\* A chunk taken out is the beginning of the contents and leaves the rest.
LEMMA TakeIsPrefix ==
  ASSUME TypeOK, NEW n \in 0 .. fill, n <= BufSize - read_pos
  PROVE  /\ [i \in 1 .. n |-> buf[read_pos + i - 1]]
              = SubSeq(InRing(BufSize, buf, read_pos, fill), 1, n)
         /\ InRing(BufSize, buf, (read_pos + n) % BufSize, fill - n)
              = SubSeq(InRing(BufSize, buf, read_pos, fill), n + 1, fill)
<1> DEFINE B     == BufSize
           r     == read_pos
           f     == fill
           g     == buf
           v     == (r + n) % B
           old   == InRing(B, g, r, f)
           new   == InRing(B, g, v, f - n)
           moved == [i \in 1 .. n |-> g[r + i - 1]]
<1>0. /\ B \in Nat \ {0} /\ r \in 0 .. B - 1 /\ f \in 0 .. B
      /\ n \in 0 .. f /\ n <= B - r /\ g \in [0 .. B - 1 -> Bytes]
  BY RingTypes
<1> HIDE DEF B, r, f, g
<1>1. v \in 0 .. B - 1
  <2>1. n \in 0 .. B
    BY ONLY <1>0
  <2> QED
    BY ONLY <1>0, <2>1, CellAt
<1>2. \A k \in 0 .. B : n + k <= B => (v + k) % B = (r + (n + k)) % B
  <2>1. n \in Nat
    BY ONLY <1>0
  <2> QED
    BY ONLY <1>0, <2>1, CellAfter
<1> HIDE DEF v
<1>3. /\ old \in Seq(Bytes) /\ Len(old) = f
      /\ \A i \in 1 .. f : old[i] = g[(r + (i - 1)) % B]
  BY ONLY <1>0, InRingSeq
<1>4. /\ new \in Seq(Bytes) /\ Len(new) = f - n
      /\ \A i \in 1 .. f - n : new[i] = g[(v + (i - 1)) % B]
  <2>1. \A k \in 0 .. B : /\ InRing(B, g, v, k) \in Seq(Bytes)
                          /\ Len(InRing(B, g, v, k)) = k
                          /\ \A i \in 1 .. k : InRing(B, g, v, k)[i] = g[(v + (i - 1)) % B]
    BY ONLY ZenonT(30), <1>0, <1>1, InRingSeq
  <2>2. f - n \in 0 .. B
    BY ONLY <1>0
  <2> QED
    BY ONLY <2>1, <2>2
<1>5. /\ moved \in Seq(Bytes) /\ Len(moved) = n
      /\ \A i \in 1 .. n : moved[i] = g[r + i - 1]
  <2>1. \A i \in 1 .. n : r + i - 1 \in 0 .. B - 1
    BY ONLY <1>0
  <2> QED
    BY <1>0, <2>1
<1> HIDE DEF old, new, moved
<1>6. moved = SubSeq(old, 1, n)
  <2>1. n \in Nat /\ \A i \in 1 .. n : old[i] \in Bytes
    BY ONLY <1>0, <1>3, ElementOfSeq
  <2>2. /\ SubSeq(old, 1, n) \in Seq(Bytes)
        /\ Len(SubSeq(old, 1, n)) = n
        /\ \A i \in 1 .. n : SubSeq(old, 1, n)[i] = old[i]
    BY ONLY <2>1, SubSeqProperties
  <2>3. ASSUME NEW i \in 1 .. n PROVE moved[i] = old[i]
    <3>1. i - 1 \in 0 .. B /\ r + (i - 1) < B /\ r + (i - 1) = r + i - 1 /\ i \in 1 .. f
      BY ONLY <1>0, i \in 1 .. n
    <3>2. (r + (i - 1)) % B = r + i - 1
      BY ONLY <1>0, <3>1, CellAt
    <3> QED
      BY <3>1, <3>2, <1>3, <1>5
  <2> QED
    BY ONLY <1>5, <2>2, <2>3, SeqEqual
<1>7. new = SubSeq(old, n + 1, f)
  <2>1. \A i \in n + 1 .. f : old[i] \in Bytes
    BY ONLY <1>0, <1>3, ElementOfSeq
  <2>2. /\ SubSeq(old, n + 1, f) \in Seq(Bytes)
        /\ Len(SubSeq(old, n + 1, f)) = f - n
        /\ \A i \in 1 .. f - n : SubSeq(old, n + 1, f)[i] = old[n + i]
    <3>1. /\ n + 1 \in Int /\ f \in Int /\ f - (n + 1) + 1 = f - n
          /\ (IF n + 1 <= f THEN f - (n + 1) + 1 ELSE 0) = f - n
          /\ \A i \in 1 .. f - n : (n + 1) + i - 1 = n + i
      BY ONLY <1>0
    <3>2. /\ SubSeq(old, n + 1, f) \in Seq(Bytes)
          /\ Len(SubSeq(old, n + 1, f)) = IF n + 1 <= f THEN f - (n + 1) + 1 ELSE 0
          /\ \A i \in 1 .. f - (n + 1) + 1 : SubSeq(old, n + 1, f)[i] = old[(n + 1) + i - 1]
      BY ONLY <2>1, <3>1, SubSeqProperties
    <3> QED
      BY ONLY <3>1, <3>2
  <2>3. ASSUME NEW i \in 1 .. f - n PROVE new[i] = old[n + i]
    <3>1. /\ i - 1 \in 0 .. B /\ n + (i - 1) <= B /\ n + i \in 1 .. f
          /\ n + (i - 1) = (n + i) - 1
      BY ONLY <1>0, i \in 1 .. f - n
    <3>2. (v + (i - 1)) % B = (r + (n + (i - 1))) % B
      BY ONLY <1>2, <3>1
    <3>3. new[i] = g[(v + (i - 1)) % B]
      BY <1>4
    <3>4. old[n + i] = g[(r + ((n + i) - 1)) % B]
      BY <1>3, <3>1
    <3> QED
      BY ONLY <3>1, <3>2, <3>3, <3>4
  <2> QED
    BY ONLY <1>4, <2>2, <2>3, SeqEqual
<1> QED
  BY <1>6, <1>7 DEF old, new, moved, v, B, r, f, g

\* A chunk stored behind the contents, in cells of its own, is appended to them.
LEMMA StoreAppends ==
  ASSUME TypeOK, RingConsistent, buf' \in [0 .. BufSize - 1 -> Bytes],
         NEW n \in Nat, n <= BufSize - fill, n <= BufSize - write_pos,
         NEW put \in Seq(Bytes), Len(put) = n,
         \A i \in 1 .. n : buf'[write_pos + i - 1] = put[i],
         \A c \in 0 .. BufSize - 1 : c \notin write_pos .. write_pos + n - 1 => buf'[c] = buf[c]
  PROVE  InRing(BufSize, buf', read_pos, fill + n)
           = InRing(BufSize, buf, read_pos, fill) \o put
<1> DEFINE B   == BufSize
           r   == read_pos
           w   == write_pos
           f   == fill
           g   == buf
           h   == buf'
           old == InRing(B, g, r, f)
           new == InRing(B, h, r, f + n)
<1>0. /\ B \in Nat \ {0} /\ r \in 0 .. B - 1 /\ f \in 0 .. B
      /\ n \in Nat /\ n <= B - f /\ n <= B - w
      /\ g \in [0 .. B - 1 -> Bytes] /\ h \in [0 .. B - 1 -> Bytes]
  BY RingTypes
<1>0a. /\ \A i \in 1 .. n : h[w + i - 1] = put[i]
      /\ \A c \in 0 .. B - 1 : c \notin w .. w + n - 1 => h[c] = g[c]
  OBVIOUS
<1>0b. w = (r + f) % B
  BY DEF RingConsistent
<1> HIDE DEF B, r, w, f, g, h
<1>1. /\ w \in 0 .. B - 1
      /\ w = IF r + f < B THEN r + f ELSE r + f - B
  BY ONLY <1>0, <1>0b, CellAt
<1>2. f + n \in 0 .. B
  BY ONLY <1>0
<1>3. /\ old \in Seq(Bytes) /\ Len(old) = f
      /\ \A i \in 1 .. f : old[i] = g[(r + (i - 1)) % B]
  <2>1. \A k \in 0 .. B : /\ InRing(B, g, r, k) \in Seq(Bytes)
                          /\ Len(InRing(B, g, r, k)) = k
                          /\ \A i \in 1 .. k : InRing(B, g, r, k)[i] = g[(r + (i - 1)) % B]
    BY ONLY <1>0, InRingSeq
  <2> QED
    BY ONLY <1>0, <2>1
<1>4. /\ new \in Seq(Bytes) /\ Len(new) = f + n
      /\ \A i \in 1 .. f + n : new[i] = h[(r + (i - 1)) % B]
  <2>1. \A k \in 0 .. B : /\ InRing(B, h, r, k) \in Seq(Bytes)
                          /\ Len(InRing(B, h, r, k)) = k
                          /\ \A i \in 1 .. k : InRing(B, h, r, k)[i] = h[(r + (i - 1)) % B]
    BY ONLY <1>0, InRingSeq
  <2> QED
    BY ONLY <1>2, <2>1
<1> HIDE DEF old, new
<1>5. /\ old \o put \in Seq(Bytes) /\ Len(old \o put) = f + n
      /\ \A i \in 1 .. f + n : (old \o put)[i] = IF i <= f THEN old[i] ELSE put[i - f]
  BY ZenonT(30), <1>3, ConcatProperties
<1>6. ASSUME NEW i \in 1 .. f + n PROVE new[i] = (old \o put)[i]
  <2> DEFINE c == (r + (i - 1)) % B
  <2>1. i \in 1 .. f + n /\ i - 1 \in 0 .. B
    BY ONLY <1>0, i \in 1 .. f + n
  <2>2. c \in 0 .. B - 1 /\ c = IF r + (i - 1) < B THEN r + (i - 1) ELSE r + (i - 1) - B
    BY ONLY <1>0, <2>1, CellAt
  <2>3. new[i] = h[c]
    BY <1>4
  <2>4. i \in 1 .. f => old[i] = g[c]
    BY <1>3
  <2> HIDE DEF c
  <2>5. CASE i <= f
    <3>1. c \notin w .. w + n - 1 /\ i \in 1 .. f
      BY ONLY <1>0, <1>1, <2>1, <2>2, <2>5
    <3>2. h[c] = g[c]
      BY ONLY <1>0a, <2>2, <3>1
    <3>3. (old \o put)[i] = old[i]
      BY ONLY <1>5, <2>1, <2>5
    <3> QED
      BY ONLY <2>3, <2>4, <3>1, <3>2, <3>3
  <2>6. CASE ~(i <= f)
    <3>1. i - f \in 1 .. n /\ c = w + (i - f) - 1
      BY ONLY <1>0, <1>1, <2>1, <2>2, <2>6
    <3>2. h[c] = put[i - f]
      BY ONLY <1>0a, <3>1
    <3>3. (old \o put)[i] = put[i - f]
      BY ONLY <1>5, <2>1, <2>6
    <3> QED
      BY ONLY <2>3, <3>2, <3>3
  <2> QED
    BY ONLY <2>5, <2>6
<1>7. new = old \o put
  BY ONLY <1>4, <1>5, <1>6, SeqEqual
<1> QED
  BY <1>7 DEF old, new, B, r, f, g, h

--------------------------------------------------------------------------------
(* A stream that was never started is empty, and a request inside a call is not. *)
RequestsInv == /\ "RUN" \notin state => fill = 0
               /\ rpc # "idle" => rleft > 0
               /\ wpc # "idle" => wleft > 0

LEMMA InitRequests == Init => RequestsInv
  BY DEF Init, RequestsInv

LEMMA NextRequests == IInv /\ RequestsInv /\ [Next]_vars => RequestsInv'
<1> SUFFICES ASSUME IInv, RequestsInv, [Next]_vars PROVE RequestsInv'
  OBVIOUS
<1> USE DEF RequestsInv
<1>0. TypeOK /\ (rpc # "idle" => "RUN" \in state)
  BY DEF IInv
<1>1. CASE ReadCall
  BY <1>1, StreamAssumption DEF ReadCall, ring, writer
<1>2. CASE ReadChunk
  <2>1. state' = state \ {"WAIT_WRITABLE"}
    BY <1>0, <1>2, WakeWriterEffect DEF ReadChunk
  <2>2. rpc' # "idle" => rleft' > 0
    BY <1>0, <1>2, ChunkBounds DEF ReadChunk, Deliver, TypeOK
  <2> QED
    BY <1>0, <1>2, <2>1, <2>2 DEF ReadChunk, writer
<1>3. CASE ReadRest
  BY <1>0, <1>3 DEF ReadRest, writer
<1>4. CASE ReadStopped \/ ReadEnd \/ ReadBlock \/ ReadWake
  BY <1>4 DEF ReadStopped, ReadEnd, ReadBlock, ReadWake, ring, writer
<1>5. CASE WriteCall
  BY <1>5, StreamAssumption DEF WriteCall, ring, reader
<1>6. CASE WriteChunk
  <2>1. "RUN" \in state'
    BY <1>0, <1>6, WakeReaderEffect DEF WriteChunk, WriteGoesOn
  <2>2. wpc' # "idle" => wleft' > 0
    BY <1>0, <1>6, ChunkBounds DEF WriteChunk, TypeOK
  <2> QED
    BY <1>6, <2>1, <2>2 DEF WriteChunk, reader
<1>7. CASE WriteRefused \/ WriteBlock \/ WriteWake \/ WriteRecheck
  BY <1>7 DEF WriteRefused, WriteBlock, WriteWake, WriteRecheck, WriteGoesOn, ring, reader
<1>8. CASE Start
  BY <1>8 DEF Start, reader, writer
<1>9. CASE Finish
  BY <1>0, <1>9, WakeReaderEffect DEF Finish, ring, reader, writer
<1>10. CASE Reset
  BY <1>10 DEF Reset, Empty, reader, writer
<1>11. CASE Stop \/ Resume \/ UNCHANGED vars
  BY <1>11 DEF Stop, Resume, vars, ring, reader, writer
<1> QED
  BY <1>1, <1>2, <1>3, <1>4, <1>5, <1>6, <1>7, <1>8, <1>9, <1>10, <1>11
     DEF Next, Read, Write

LEMMA EmptyContents == fill' = 0 => Contents' = <<>>
<1> SUFFICES ASSUME fill' = 0 PROVE Contents' = <<>>
  OBVIOUS
<1>1. Contents' = [i \in 1 .. 0 |-> buf'[(read_pos' + i - 1) % BufSize]]
  BY DEF Contents
<1> QED
  BY <1>1

\* The reader gets the oldest bytes.
LEMMA DeliverGets ==
  ASSUME IInv, NEW n \in 1 .. BufSize, n <= fill, n <= ReadSize,
         Deliver(n), UNCHANGED <<buf, wnext, ended>>
  PROVE  Chan!Next
<1>1. TypeOK
  BY DEF IInv
<1>2. n \in 0 .. fill /\ n <= BufSize - read_pos
  BY <1>1, RingTypes, ChunkBounds
<1>3. /\ [i \in 1 .. n |-> buf[read_pos + i - 1]]
           = SubSeq(InRing(BufSize, buf, read_pos, fill), 1, n)
      /\ InRing(BufSize, buf, (read_pos + n) % BufSize, fill - n)
           = SubSeq(InRing(BufSize, buf, read_pos, fill), n + 1, fill)
  BY <1>1, <1>2, TakeIsPrefix
<1>4. out' = out \o SubSeq(Contents, 1, n)
  BY <1>3, ContentsInRing DEF Deliver
<1>5. Contents' = SubSeq(Contents, n + 1, Len(Contents))
  <2>1. Contents' = InRing(BufSize, buf, (read_pos + n) % BufSize, fill - n)
    BY ContentsInRing DEF Deliver
  <2>2. Len(Contents) = fill
    BY <1>1, RingTypes
  <2> QED
    BY <1>3, <2>1, <2>2, ContentsInRing
<1>6. n <= Len(Contents)
  BY <1>1, RingTypes
<1>7. Chan!Get(n)
  BY <1>4, <1>5, <1>6 DEF Chan!Get
<1> QED
  BY <1>7 DEF Chan!Next

\* The writer's bytes come behind those that wait.
LEMMA WriteChunkPuts ==
  ASSUME IInv, wleft > 0, WriteChunk
  PROVE  Chan!Next
<1> DEFINE n   == WriteSize
           put == [i \in 1 .. n |-> (wnext + i - 1) % SeqMod]
<1>1. TypeOK /\ TypeOK' /\ write_pos = (read_pos + fill) % BufSize
  <2>1. IInv'
    BY WriterIInv DEF Write
  <2> QED
    BY <2>1 DEF IInv, RingConsistent
<1>2. /\ SeqMod \in Nat \ {0} /\ wnext \in Nat
      /\ n \in Nat /\ n <= BufSize - fill /\ n <= BufSize - write_pos
  <2>1. n <= BufSize - fill
    BY DEF WriteChunk
  <2>2. n \in Nat /\ n <= BufSize - write_pos
    BY <1>1, ChunkBounds
  <2>3. SeqMod \in Nat \ {0} /\ wnext \in Nat
    BY <1>1, StreamAssumption DEF TypeOK, Bytes
  <2> QED
    BY ONLY <2>1, <2>2, <2>3
<1>3. n \in 1 .. BufSize
  <2>1. n > 0
    BY SMTT(30), <1>1, RingTypes DEF WriteSize, Lesser, TypeOK
  <2> QED
    BY <1>1, <1>2, <2>1, RingTypes
<1>4. /\ buf' = [i \in Cells |-> IF i \in write_pos .. write_pos + n - 1
                                   THEN (wnext + i - write_pos) % SeqMod
                                   ELSE buf[i]]
      /\ fill' = fill + n /\ read_pos' = read_pos
      /\ wnext' = (wnext + n) % SeqMod /\ out' = out /\ ended' = ended
  BY DEF WriteChunk, reader
<1> HIDE DEF n
<1>5. put \in Seq(Bytes) /\ Len(put) = n
  <2>1. ASSUME NEW i \in 1 .. n PROVE (wnext + i - 1) % SeqMod \in Bytes
    <3>1. wnext + i - 1 \in Nat
      BY <1>2
    <3> QED
      BY <1>2, <3>1, ModRange DEF Bytes
  <2> QED
    BY <1>2, <2>1
<1>6. /\ BufSize \in Nat \ {0} /\ fill \in 0 .. BufSize
      /\ read_pos \in 0 .. BufSize - 1 /\ write_pos \in 0 .. BufSize - 1
      /\ buf \in [0 .. BufSize - 1 -> Bytes]
  BY <1>1, RingTypes
<1>7. buf' \in [0 .. BufSize - 1 -> Bytes]
  BY <1>1 DEF TypeOK, Cells
<1>8. /\ \A i \in 1 .. n : buf'[write_pos + i - 1] = put[i]
      /\ \A c \in 0 .. BufSize - 1 : c \notin write_pos .. write_pos + n - 1 => buf'[c] = buf[c]
  <2>1. ASSUME NEW i \in 1 .. n PROVE buf'[write_pos + i - 1] = put[i]
    <3>1. /\ write_pos + i - 1 \in 0 .. BufSize - 1
          /\ write_pos + i - 1 \in write_pos .. write_pos + n - 1
          /\ wnext + (write_pos + i - 1) - write_pos = wnext + i - 1
      BY ONLY <1>2, <1>6, i \in 1 .. n
    <3>2. buf'[write_pos + i - 1] = (wnext + (write_pos + i - 1) - write_pos) % SeqMod
      BY <1>4, <3>1 DEF Cells
    <3> QED
      BY <3>1, <3>2
  <2>2. ASSUME NEW c \in 0 .. BufSize - 1, c \notin write_pos .. write_pos + n - 1
        PROVE  buf'[c] = buf[c]
    BY <1>4, <2>2 DEF Cells
  <2> QED
    BY <2>1, <2>2
<1> HIDE DEF put
<1>9. InRing(BufSize, buf', read_pos, fill + n) = InRing(BufSize, buf, read_pos, fill) \o put
  BY <1>1, <1>2, <1>5, <1>7, <1>8, StoreAppends DEF RingConsistent
<1>10. Contents' = Contents \o put
  BY <1>4, <1>9, ContentsInRing
<1>11. Len(Contents) + n <= BufSize
  BY <1>1, <1>2, RingTypes
<1>12. Chan!Put(n)
  BY <1>4, <1>10, <1>11 DEF Chan!Put, put
<1> QED
  BY <1>3, <1>12 DEF Chan!Next

LEMMA ChannelInit == Init => Chan!Init
<1> SUFFICES ASSUME Init PROVE Chan!Init
  OBVIOUS
<1>1. Contents = <<>>
  BY InitIInv, RingTypes DEF Init, IInv
<1> QED
  BY <1>1 DEF Init, Chan!Init

LEMMA ChannelStep == IInv /\ RequestsInv /\ [Next]_vars => [Chan!Next]_(Chan!vars)
<1> SUFFICES ASSUME IInv, RequestsInv, [Next]_vars PROVE [Chan!Next]_(Chan!vars)
  OBVIOUS
<1>0. TypeOK
  BY DEF IInv
<1>1. UNCHANGED ring => Contents' = Contents
  BY DEF ring, Contents
<1>2. CASE ReadCall
  BY <1>1, <1>2 DEF ReadCall, writer, Chan!NewRead, Chan!Next
<1>3. CASE ReadChunk
  <2>1. ReadSize \in 1 .. BufSize
    <3>1. ReadSize > 0
      BY <1>0, <1>3, RingTypes DEF ReadChunk, RequestsInv, ReadSize, Lesser, TypeOK
    <3> QED
      BY <1>0, <3>1, RingTypes, ChunkBounds
  <2> QED
    BY <1>3, <2>1, DeliverGets DEF ReadChunk, writer
<1>4. CASE ReadRest
  <2>1. fill \in 1 .. BufSize /\ fill <= fill /\ fill <= ReadSize
    BY <1>0, <1>4, RingTypes, ChunkBounds DEF ReadRest
  <2> QED
    BY <1>4, <2>1, DeliverGets DEF ReadRest, writer
<1>5. CASE ReadStopped \/ ReadEnd \/ ReadBlock \/ ReadWake
  BY <1>1, <1>5 DEF ReadStopped, ReadEnd, ReadBlock, ReadWake, writer, Chan!vars
<1>6. CASE WriteChunk
  BY <1>6, WriteChunkPuts DEF RequestsInv, WriteChunk, WriteGoesOn
<1>7. CASE WriteCall \/ WriteRefused \/ WriteBlock \/ WriteWake \/ WriteRecheck
  BY <1>1, <1>7 DEF WriteCall, WriteRefused, WriteBlock, WriteWake, WriteRecheck, reader,
     Chan!vars
<1>8. CASE Start
  <2>1. ended \/ Contents = <<>>
    BY <1>0, <1>8, RingTypes DEF Start, RequestsInv
  <2>2. Contents' = <<>>
    BY <1>8, EmptyContents DEF Start, Empty
  <2> QED
    BY <1>8, <2>1, <2>2 DEF Start, reader, writer, Chan!Restart, Chan!Next
<1>9. CASE Finish \/ Stop
  BY <1>1, <1>9 DEF Finish, Stop, reader, writer, Chan!End, Chan!Next
<1>10. CASE Reset
  <2>1. Contents' = <<>>
    BY <1>10, EmptyContents DEF Reset, Empty
  <2> QED
    BY <1>10, <2>1 DEF Reset, reader, writer, Chan!Discard, Chan!Next
<1>11. CASE Resume \/ UNCHANGED vars
  BY <1>1, <1>11 DEF Resume, vars, ring, reader, writer, Chan!vars
<1> QED
  BY <1>2, <1>3, <1>4, <1>5, <1>6, <1>7, <1>8, <1>9, <1>10, <1>11 DEF Next, Read, Write

\* audio_stream.c hands every byte on once and in order, for every ring size and
\* every request size, whoever finishes, stops, starts or resets it meanwhile.
THEOREM StreamImplementsChannel == Spec => ImplementsByteStream
<1>1. Init => IInv /\ RequestsInv
  BY InitIInv, InitRequests
<1>2. IInv /\ RequestsInv /\ [Next]_vars => (IInv /\ RequestsInv)'
  BY NextIInv, NextRequests
<1> QED
  BY <1>1, <1>2, ChannelInit, ChannelStep, PTL DEF Spec, ImplementsByteStream, Chan!Spec
================================================================================
