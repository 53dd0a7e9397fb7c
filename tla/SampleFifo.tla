------------------------------- MODULE SampleFifo -------------------------------
(***************************************************************************)
(* plugins/soundtouch/FIFOSampleBuffer.c: the buffer between the stages of *)
(* the tempo plugin.  Samples are put behind the last and received from    *)
(* bufferPos on; a put first moves what is held to the beginning, or to a  *)
(* larger buffer.  A sample has a value for each channel.                  *)
(*                                                                         *)
(* The larger buffer is filled from the old one after that was freed: the  *)
(* allocator has left its contents alone, or it has not.                   *)
(***************************************************************************)
EXTENDS Integers, Sequences

CONSTANTS PageValues,    \* values of a page: the buffer grows in pages
          InitSamples,   \* samples the first buffer has room for
          MaxPut,        \* bound: samples of one put
          MaxHeld,       \* bound: values that are held
          Values         \* values of the samples; they come in a cycle

\* What is assumed of the constants; SoundPath assumes it.
FifoAssumption ==
  /\ PageValues \in Nat \ {0} /\ InitSamples \in Nat \ {0}
  /\ MaxPut \in Nat /\ MaxHeld \in Nat
  /\ Values \in Nat \ {0}

VARIABLES channels, samplesInBuffer, bufferPos,
          size,          \* sizeInBytes, in values
          buffer,        \* the values, from 0 on
          next,          \* the value that is put next
          content,       \* history: the values that were put and not received
          torn           \* history: what was held was freed and lost, or is looked for
                         \* at the place of another number of channels

fifo == <<channels, samplesInBuffer, bufferPos, size, buffer, next, content, torn>>

Garbage  == 0
Channels == {1, 2}

--------------------------------------------------------------------------------
\* the least number of pages that has room for this many values
RoundUp(values) == ((values + PageValues - 1) \div PageValues) * PageValues
Capacity        == size \div channels
\* the i-th value that is held, from 0 on
Begin(i)        == LET at == bufferPos * channels + i
                   IN  IF at < size THEN buffer[at] ELSE Garbage
Held            == samplesInBuffer * channels

\* Mutant: the samples are moved, but only one channel of them.
Rewound_Mono(i) == IF i < samplesInBuffer THEN Begin(i) ELSE buffer[i]

\* the buffer when what is held was moved to its beginning
Rewound(i) == IF i < Held THEN Begin(i) ELSE buffer[i]

\* the larger one; spoilt: what was freed has been overwritten
Grown(i, spoilt) == IF i < Held /\ ~spoilt THEN Begin(i) ELSE Garbage

\* ensureCapacity(count), then new values behind those held
Ensured(count, i, spoilt) ==
  IF count > Capacity THEN Grown(i, spoilt) ELSE IF bufferPos = 0 THEN buffer[i] ELSE Rewound(i)

Fresh(i) == ((next + i - 1) % Values) + 1

FifoInit == /\ channels \in Channels
            /\ samplesInBuffer = 0 /\ bufferPos = 0
            /\ size = RoundUp(InitSamples * channels)
            /\ buffer = [i \in 0 .. size - 1 |-> Garbage]
            /\ next = 1
            /\ content = <<>>
            /\ torn = FALSE

\* ptrEnd with room for slack samples, a copy of n and putSamples(n), which finds the
\* room.  putSamples2 is this with slack = n; the stages of the plugin that put what
\* they compute ask for slack and put what came of it.
Put(slack, n, spoilt) ==
  LET need == samplesInBuffer + slack
      old  == Held
      new  == n * channels
  IN  /\ n <= slack /\ Held + slack * channels <= MaxHeld
      /\ spoilt => need > Capacity /\ samplesInBuffer > 0
      /\ size' = IF need > Capacity THEN RoundUp(need * channels) ELSE size
      /\ buffer' = [i \in 0 .. size' - 1 |->
                      IF i >= old /\ i < old + new THEN Fresh(i - old)
                                                   ELSE Ensured(need, i, spoilt)]
      /\ bufferPos' = 0
      /\ samplesInBuffer' = samplesInBuffer + n
      /\ next' = Fresh(new)
      /\ content' = content \o [i \in 1 .. new |-> Fresh(i - 1)]
      /\ torn' = (torn \/ spoilt)
      /\ UNCHANGED channels

\* receiveSamples, of max samples or all there are; receiveSamples2 copies them first.
\* bufferPos stays when nothing is left.
Receive(max) ==
  LET num == IF max >= samplesInBuffer THEN samplesInBuffer ELSE max
  IN  /\ samplesInBuffer' = samplesInBuffer - num
      /\ bufferPos' = IF max >= samplesInBuffer THEN bufferPos ELSE bufferPos + num
      /\ content' = SubSeq(content, num * channels + 1, Held)
      /\ UNCHANGED <<channels, size, buffer, next, torn>>

Clear == /\ samplesInBuffer' = 0 /\ bufferPos' = 0
         /\ content' = <<>>
         /\ UNCHANGED <<channels, size, buffer, next, torn>>

\* adjustAmountOfSamples: the newest are given up
Adjust(num) == /\ num < samplesInBuffer
               /\ samplesInBuffer' = num
               /\ content' = SubSeq(content, 1, num * channels)
               /\ UNCHANGED <<channels, bufferPos, size, buffer, next, torn>>

\* setChannels: the values held are read as samples of the new width; bufferPos, a
\* number of samples, is not converted.
SetChannels(num) ==
  /\ channels' = num
  /\ samplesInBuffer' = Held \div num
  /\ content' = SubSeq(content, 1, (Held \div num) * num)
  /\ torn' = (torn \/ (num # channels /\ bufferPos # 0 /\ samplesInBuffer # 0))
  /\ UNCHANGED <<bufferPos, size, buffer, next>>

FifoNext ==
  \/ \E slack \in 0 .. MaxPut, n \in 0 .. MaxPut, spoilt \in BOOLEAN : Put(slack, n, spoilt)
  \/ \E max \in 0 .. MaxPut : Receive(max) \/ Adjust(max)
  \/ \E num \in Channels : SetChannels(num)
  \/ Clear

FifoSpec == FifoInit /\ [][FifoNext]_fifo

--------------------------------------------------------------------------------
(* Properties *)

\* Samples leave in the order they came, all of their channels: what is held is what
\* was put and not received, wherever it lies in the buffer and however often the
\* buffer was moved, grown, trimmed or read with another number of channels.  It is
\* so until a buffer that grew lost what was held (it is freed before it is copied),
\* or the channels changed behind the first sample.
FifoInOrder ==
  ~torn => /\ Len(content) = Held
           /\ samplesInBuffer > 0 => bufferPos * channels + Held <= size
           /\ \A i \in 1 .. Held : content[i] = Begin(i - 1)
================================================================================
