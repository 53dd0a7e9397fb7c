# A TLA+ model of the RK audio server

The repository is an audio server for Rockchip boards (Linux, RT-Thread,
FreeRTOS). An application creates a *player* or a *recorder*; each owns three
worker threads joined by message queues and byte streams. This directory holds
the TLA+ model of that core, the TLC runs that check it, and TLAPS proofs.

## 1. Inventory

| component | source | state it keeps | operations | what makes it correct |
|---|---|---|---|---|
| message queue | `common/audio_queue.c` | ring of items, `fill`, two positions, flags, two semaphores | send, receive, finish, stop, is_empty | first in first out, nothing lost or doubled; whoever sleeps is woken |
| byte stream | `common/audio_stream.c` | byte ring, flags RUN STOPPED FINISHED RESET, two semaphores | start, read, write, finish, stop, reset, resume | bytes once and in order; a finished stream is read to the end; no lost wakeup; no mutual wait |
| player | `player/player.c` | `state`, `playback`, `playback_start`, `start_time`, `pause_sem`, `stop_sem`, `state_lock`, `play_lock` | play, stop, device_stop, pause, resume, seek; threads `preprocess_run`, `decoder_run`, `playback_run` | the device gets the current track, whole and in order; a stop silences it; calls return |
| preprocessors | `player/file_preprocessor.c`, `http_preprocessor.c` | open file or socket | init, read, seek, destroy | deliver the target from the position asked for |
| decoders | `player/play_wav.c`, `play_pcm.c`, `play_mp3.c`, `play_amr.c` | position in the input | init, process, get_post_state | read to the end of the input, write all of it |
| decoder / encoder registry | `player.c`, `recorder.c` | a global list | register, unregister, list, deinit | one entry per type; used by the workers without a lock |
| recorder | `recorder/recorder.c` | as the player, in the other direction | record, stop; threads `capture_run`, `encoder_run`, `write_run` | what is captured reaches the file; a stop ends the recording |
| encoders, file writer | `recorder/record_wav.c`, `record_pcm.c`, `record_amr.c`, `file_writer.c` | bytes so far, header | init, process; init, write | the header fits the data |
| device, pcm | `common/playback_impl.c`, `capture_impl.c`, `audio_pcm.c` | global handles, `capture_lock` | open, start, read, write, stop, close | opened and closed in pairs, locks released |
| platform | `common/platform_linux.c`, `AudioConfig.c` | – | threads, semaphores, mutexes, files | semaphores count |
| plugins, codecs, third party | `plugins/`, `codec/`, `third-party/` | – | signal processing | not protocol code |

How the parts meet:

```
application --preprocess_queue--> preprocess_run --decode_queue-----> decoder_run --play_queue---> playback_run --> device
                                                 ==preprocess_stream==>           ==decode_stream==>
            decoder_run --preprocess_queue (seek), reset--> preprocess_run
            application --stop both streams, play_queue (end_session), pause_sem--> ... <--stop_sem-- playback_run

application --record_queue--> capture_run --encode_queue----> encoder_run --write_queue----> write_run --> file
                  device ---> capture_run ==record_stream===>             ==encode_stream==>
            application --finish record_stream, record_queue (STOP)-->    encoder_run, write_run --stop streams-->
```

Hard behaviours: every edge is a blocking hand-over with flags and a counting
semaphore; `player->state` and its neighbours are written by four threads, many
times without `state_lock`; a stop or a new play meets workers that are still
busy with the last track; a recording is ended by a finish that has to find the
stream started; a seek is a message and a reset, in that order; a
finished stream has a rest that wakes nobody. `PROJECT.json` lists the hazards
one by one, with the line where each bites.

## 2. Order of the work, and what it left

The parts were taken in the order of what they carry: the **message queue** and the
**byte stream** first, since every thread meets every other there, each with the
abstract channel it implements; then the **player** and the **recorder** as
compositions of workers over unit-level streams; then the two **devices**, whose
globals all players and recorders share; last what a track passes outside the
streams: the **http preprocessor**, the **mp3 and amr decoders**, and the **sample
buffer** of the tempo plugin. `BoundedChannel` and `ByteStream` are the abstract
specifications; `AudioDevices` and `SoundPath` put parts that share no state side by
side, so that one run checks them.

Left undone, with the reasons in section 7: flash mode of `write_run`, registries
and two players at once.

## 3. Modules

| module | models | proofs |
|---|---|---|
| `AudioSem` | the counting semaphore of the three platforms (`SemInit`, `SemMax`) | |
| `BoundedChannel` | what a queue promises | |
| `AudioQueue` | `audio_queue.c`, any number of senders and receivers | `AudioQueueProofs` |
| `ByteStream` | what a stream promises | |
| `AudioStream` | `audio_stream.c`, one reader, one writer, anybody stopping | `AudioStreamProofs` |
| `StreamUnits` | `audio_stream.c` once more, as pure operators on a sequence of units and a set of flags, for modules that compose streams | |
| `Player` | `player.c` with `play_wav.c` or `play_pcm.c` and `file_preprocessor.c` | `PlayerProofs` |
| `Recorder` | `recorder.c` with `record_wav.c` or `record_pcm.c` and `file_writer.c` | `RecorderProofs` |
| `CaptureDevice` | `capture_impl.c` over `audio_pcm.c`: several recorders, one device, one lock | in `AudioDevicesProofs` |
| `PlaybackDevice` | `playback_impl.c` over `audio_pcm.c`: several players, one device, no lock | `PlaybackDeviceProofs` |
| `AudioDevices` | the two devices side by side, the second in both builds | `AudioDevicesProofs` |
| `HttpSource` | `http_preprocessor.c`: several users of two globals and of one table of sockets | in `SoundPathProofs` |
| `Mp3Decoder` | `play_mp3.c` with the framing of `mp3_hal.c` | `Mp3DecoderProofs` |
| `AmrDecoder` | `play_amr.c` with `amr_dec_hal.cpp` | in `SoundPathProofs` |
| `SampleFifo` | `FIFOSampleBuffer.c` | in `SoundPathProofs` |
| `SoundPath` | http, the two decoders and the sample buffer side by side | `SoundPathProofs` |
| `MC...` | queue, stream, player, recorder and sound path for TLC | |

**Grain.** An action is one critical section of a lock, or one access to a
variable shared without a lock, with the thread-local work around it. The code
never blocks inside a section except `player_stop`, which holds `state_lock`
over two stream operations; `Player!StateLockFree` is that. Windows between an
unlock and the semaphore take are states of their own (`"send_wait"`,
`"read_wait"`, `"write_woken"`...), since that is where wakeups could get lost.

**AudioQueue.** Variables are the fields of `struct audio_player_queue`; `pc`
and `data` are the threads. `read_pos` is advanced by the sender, as in the code.
`Stop` keeps the code's test `!(state | STOPPED)`, which is never true: a queue
cannot be stopped, and `TypeOK` says so.

**AudioStream.** A request is moved in chunks that go whole or not at all, cut at
the end of the ring. Byte values count up modulo `SeqMod`, so a byte lost,
repeated or reordered is visible in `ImplementsByteStream`. `Start` may forget
the flag of a sleeping reader; in streams that are never reset its callers
guarantee that nobody sleeps there, in the stream that is, `OnlyStartStrands`
shows that a start is the only way.

**Player.** Bytes are units `[play, pos]`: which piece of which play's file. One
unit is one read of a decoder and one write of a preprocessor; a playback frame
is `FrameUnits` of them. `StreamUnits` supplies the streams: a call that would
sleep is disabled, which is sound because `AudioStream` shows that a sleeper is
woken whenever its call can return; the one case where this fails, a reader
forgotten by a start, is in the model as `dec.lost`. The start position is copied
for the decoder after its first seek (`dec.start`), so a play that comes later does not move it. Actions are named after
thread and step: application (`PlayCall` ... `Resume`), `Pre...`, `Dec...`,
`Pb...`. History variables: `heard` (what the device got of this play), `silent`
(a stop has returned), `cut` (this play was stopped or timed out), `overtaken`
(see below).

Abstracted in `Player`: the fields that `player_play` sets are set in one step
(`PlaySet`); formats, volumes, times, fades, resampling, mono/stereo copies,
SoundTouch; the ID3 skip (more `decoder_input` calls of the same kind);
the frames in which a forced stop fades out, which hold no unit of the
track, only copies of its last sample (`player.c:1054-1080`);
listeners; the 20 retries of a read are `TimeoutLimit`; `need_free` targets.
One application thread calls the player, so `play_lock` is always free; that a copy of the
target which cannot be allocated leaves it locked (`player.c:1328`) is left out.

**Recorder.** Units again, here tagged with their origin: `<<"data", r, i>>` is
the i-th unit captured in the r-th recording, `<<"header", i, s>>` a piece of a
wav header completed for s bytes. `CaptureUnits`, `FrameUnits` and `HeaderUnits`
give the sizes of a device frame, a writer frame and the header, so that the
header can be cut anywhere by the last two frames (`WrRest`). The file is the
sequence of its units; `WrHeader` overwrites its beginning, as the seek of
`file_writer_write_impl` does. The application waits for IDLE before it records
again, as the API asks (`recorder_wait_idle`); with `Impatient` it may give up a
`recorder_stop` while the workers are still busy. Actions: `RecordCall` ...
`StopWait`, `Cap...`, `Enc...`, `Wr...`. History variables: `stored` (units that
`record_stream` took), `stopping` (stopped while it was captured), `torn` (a
write whose result nobody looks at failed).

Abstracted in `Recorder`: formats and volumes; `record_time` and the
conversion of bytes to milliseconds, where the duration is a number of frames;
failing allocations are the failures of `MayFail`.

**CaptureDevice, PlaybackDevice.** The variables are the globals of the two files,
plus every mutex that was ever created (`locks`) and every pcm ever opened (`pcms`),
so that a stale pointer still names something. An action reads or writes a global once: where
C evaluates a handle, passes it on and another thread may free it meanwhile, there is
a state in between (`Pass` keeps the handle that was passed in `arg`). A use of a
freed object goes into `misused`; what the program does after that is undefined, so
the behaviour ends there. The capture threads of the recorders take the lock in
`open` and give it back in `close`; the application's thread comes in by
`recorder_close` or `player_close`, without an open, and by the volume calls. A pcm
keeps whether it is open, whether it was configured and what became of its buffer;
its parameters and data are left out. On FreeRTOS `playback_run` keeps the device
open (`StaysOpen`). The allocation of `g_config`, which nothing checks (`capture_impl.c:36`), succeeds.

**HttpSource.** `g_is_chunked` and `http_totalsize` are globals, `user` holds what each
preprocessor and its calls remember. The http library is external: an open fails or
gives the lowest free number; a read gives some of what is left of the body, 0, or
-1; a close takes a number, whosever it is. History fields of a user: `got`,
`disturbed` (another user wrote a global), `error`, `lost` (a seek failed, so
userdata is a number that was closed) and `foreign` (it used another's socket).

**Mp3Decoder, AmrDecoder.** A file is a sequence of units. For mp3 a frame has
`FrameUnits` of them, `read_buf` holds two frames, and a frame has a kind: decodes,
fails, has a broken header, the wrong format or the wrong layer; between frames lies
junk, before them a tag. What `mp3dec.c` makes of the samples, and the bit reservoir,
are left out, and with it a free-bitrate frame without a next header, of which only the
header is taken (`mp3dec.c:325`). A seek to a start position is one step here; what
happens between its message and its reset is in `Player`. For amr a unit is a mode byte or data, and data has the value it would
have if it were read as a mode byte. `Stop` may come at any time,
also between the read of an amr frame and the output of what it decodes to (`PutFrame`).

**SampleFifo.** `buffer` holds the values by their place, `bufferPos` and
`samplesInBuffer` count samples of all channels. `ensureCapacity` frees the buffer
before it copies what was held out of it; `spoilt` is the choice of the allocator,
which never fails (`FIFOSampleBuffer.c:213` only logs that it did).
History: `content`, what was put and not received, and `torn`.

## 4. Runs

| run | bounds | properties | shows |
|---|---|---|---|
| `queue_spsc` | 1 sender, 1 receiver, 2 messages, capacity 1, Linux semaphores | `SendersNotStranded`, `ReceiversNotStranded`, `ImplementsFairChannel`, `SendReturns` | no lost wakeup, the queue is a fair FIFO channel |
| `queue_mpsc` | 2 senders, 1 receiver | `ImplementsChannel`, `StoredIsReceived` | the shared WAIT flag of two senders does no harm to the messages |
| `stream_pipe` | ring of 3, reads of 1, 2, 4, writes of 2, 3, semaphores of at most 3 | `ReaderNotStranded`, `RestLeavesNoSleeper`, `ShortReadIsTheEnd`, `FinishedDrains`, `WriteReturns` | the stream that is never reset, with its progress |
| `stream_seek` | the same, with resets, FreeRTOS semaphores | `WriterNotStranded`, `OnlyStartStrands`, `ImplementsByteStream` | what a reset changes; with and without one it is a byte channel |
| `player_races` | 2 plays of 4 units, start positions 0 and 2, streams of 1 and 2 units, pauses, device stops, FreeRTOS semaphores | `HeardInOrder`, `StopSilences`, `WholeTrack`, `StartsAfterEnd` | the second play starts while the workers are anywhere in the first |
| `player_failures` | 1 play of 3 units that fit the stream, start positions 0 and 2, info_only or not, one timeout tolerated, Linux semaphores | `HeardInOrder`, `StopSilences`, `WholeTrack` | every open may fail, every read time out, a play may return too early: order, silence and completeness hold all the same |
| `player_live` | 2 plays of 3 units by `play_pcm`, Linux semaphores | `CallsReturn`, `RunEnds`, `StopSettles` | calls return, tracks end, stops settle |
| `recorder_files` | 2 recordings of up to 3 frames of 2 units, writer frames of 3, header of 2, wav or pcm, endless or 2 frames | `FileIsWhole`, `CallsReturn`, `RecordingEnds`, `StopEnds`, `IdleSettles` | the file is complete, its header cut from the right place; calls return, recordings end, workers settle |
| `recorder_failures` | 2 wav recordings of up to 2 frames, anything may fail, stops may give up | `OneRecording`, `FileInOrder` | recordings do not overlap or mix, whatever fails |
| `devices` | 2 recorders or 2 players, 3 opens, 1 call of the application, everything may fail | `CaptureExclusive`, `CaptureSafe`, `PlaybackSafe`, `OpenReturns` | exclusion, nothing freed is used, every open gets in |
| `sound_path` | mp3: 3 pieces, frames of 3 units in a buffer of 6, junk of 2, tags of 0, 3, 8, starts at 0, 4; amr: 4 frames of three modes; http: 2 users, a body of 2, 1 redirect, 1 seek; fifo: pages of 2 values, puts of up to 2 samples, 4 values held | `DecodedInOrder`, `BodyWhole`, `SocketsOwned`, `FifoInOrder`, `DecodersEnd` | what comes out is what went in; decoders return |
| `recorder_header` | 1 wav recording with samples of 2 bytes | `HeaderFits` (violated) | the size in the wav header is too large, see section 6 |

Why the bounds are enough: a ring of 3 with requests of 1, 2, 3 and 4 has every
relation of chunk, free space, fill level and end of the ring; the queues of the
program all have capacity 1, and two senders are all a queue ever has; two plays
are the least that lets a worker of one meet the stream of another, and three
units or more with streams of one or two make every thread wait for every other. Where
two plays meet (`player_races`) a file has four, so that two are left behind a seek to 2:
one more than `preprocess_stream` holds. Units
beyond the header, one frame and one short frame repeat what is there. In
`recorder_files` the data, 0 to 8 units, and two headers of 2 leave every possible
rest in a frame of 3: a header whole in the rest, whole in the last frame, and cut.
A device read at the bound (`MaxFrames`) lasts until `record_stream` no longer
runs, so an endless recording waits there for its stop.

In `devices` three opens let one thread open again what the other has closed, which is
where a stale handle or flag would show; the theorems of section 5 cover any number. In
`sound_path` the buffer holds two frames, as `read_buf` does, the last piece of a file may
lack a unit, and three pieces put each kind of piece before, between and behind
frames; a tag of 8 needs two reads. Four frames of amr change mode and come back. A
sample buffer of two or four values is grown, moved and read as mono and stereo. A behaviour of
`devices` or `sound_path` is about one part (`side`).

Every property has a mutant in `PROJECT.json`: the definitions called
`X_Something` above a definition `X`, a change a slip in the code could make,
under which TLC finds the property violated.

**Fairness.** Each worker thread, and a thread inside a call, runs when it can
(weak fairness per thread): they are preemptive threads of equal priority.
Nothing is assumed of the application between calls: it need not send, pause or
resume. A queue's receivers call again, because every worker loops for ever
around `audio_queue_receive`. In `devices` the capture threads and whoever closes run
(weak fairness), and every recording is ended some day, by its duration or a stop,
however many frames are read before (strong fairness of `EndRecording`). As the opens are
few, `OpenReturns` says nothing of a mutex that always prefers others. In `sound_path`
the thread that decodes runs (weak fairness of `Process`).

**Deadlock** is checked in the runs of the queue, the stream, the player and in
`recorder_files`. The players of the model never stop for good: an idle application
can always stop, or stop the device; so can an idle recorder's. Three runs do not
check it. In `recorder_failures` the capture thread may end (a failed allocation, or a
STOP judged by an uninitialized variable), after which a `recorder_stop` sleeps on
the full `record_queue`: the system may really stop there. In `devices` the calls are
bounded, and a lock left locked stops the other recorder; in `sound_path` a track
ends. `OpenReturns` and `DecodersEnd` say there what must not stop before.

### What the player is assumed not to meet

Three constants restrict the application or the schedule; each names behaviour
in which TLC shows the code to misbehave (section 6).

* `Tidy`: the application stops a PAUSED or failed player before it plays again.
* `Prompt` (only `player_live`): between the stop inside `player_play` and the
  next message the workers come to rest.
* `Impatient = FALSE`: 20 s are long enough for the workers to start a track.

`WholeTrack` exempts a play whose seek was `overtaken`: the preprocess thread
served it before the decoder, which had sent it, came to reset the stream. In the
two runs with two plays, more than `preprocess_stream` holds is left behind every seek, so
an overtaken seek cannot wipe out the end of the file. With 3 units and a start at 2 it
can: the decoder sleeps for ever, the next start forgets it, and TLC finds
`StartsAfterEnd` violated. `player_failures` does have such files, but one play only.

### What the recorder is assumed not to meet

In `recorder_files`, `Impatient = FALSE`: 3 s are enough for
the workers to end a recording that was told to end. A recording that goes on
because its stop came too early does outlast them (`StopWait`). No recording
there is given up twice, since that needs a second STOP in a full `record_queue`.
`StopEnds` speaks of the stops that find the stream started.

### What the properties of the last two runs exempt

Each exemption is a step of the code named in the model; without it TLC finds the
property violated (section 6).

* `devices`: two locks or a `recorder_close` (`Defeated`), an open that failed with
  the lock held (`failed`, only in `OpenReturns`), a second player on the playback
  device (`shared`) and a `player_close` (`closed`). What the application's own
  thread does to the device without the lock is never charged to the others.
* mp3: a move to a start position after the end was read (`deaf`), files with a
  stretch that fills the buffer without a frame (not `Dense`).
* amr: files that change modes (not `OneMode`), a stopped stream with another mode
  in the buffer (`Spins`).
* http: a user whose globals another one wrote (`disturbed`), a socket that failed
  (`error`: the code takes it for the end), everything after the first failed seek (`NoSeekFailed`).
* sample buffer: contents lost when the buffer grew, or channels changed behind the
  first sample (`torn`).

## 5. Proofs

`AudioQueueProofs` (for all senders, receivers, capacities, semaphores):
`QueueInvariant`, `QueueTypeOK`, `NoStrandedSenders`, `NoStrandedReceivers`,
`QueueNoMutualWait`. Assumed: `QueueAssumption`, `SemAssumption`.

"Asleep with room means a permit" is not inductive: nothing in it forbids a flag
that is on while there is room, and the next give would then be spent on a flag
that promises nothing. `IInv` adds that a flag left on tells the truth
(`FlagsTruthful`) and that a side asleep as a whole has its flag on or a permit
(`SleepersAnnounced`). The three properties follow from these without a further
step. The proof goes action by action.

`QueueImplementsChannel` (in the same module): every
step of `AudioQueue` is a step of `BoundedChannel` or a stutter. The mapping takes the
messages of the channel from the ring, from `write_pos` on, `fill` of them. It
needs `RingIsConsistent` besides `IInv`: `read_pos` lies `fill` places behind
`write_pos`, modulo the ring. A sequence of lemmas about such positions shows that a
store appends and a take removes the head; everything else leaves the ring alone.

`AudioStreamProofs` (for all ring sizes, request lengths, semaphores):
`StreamInvariant`, `StreamTypeOK`, `WriterNeverStranded`, `RestIsSafe`,
`ShortReadMeansTheEnd`, and for a stream that is not reset `ReaderNeverStranded`
and `StreamNoMutualWait`. `IInv` has the same two parts, plus that positions and
fill level agree modulo the ring (`RingConsistent`), which needs four lemmas on
`%`, and that a stream that ended shows it (`EndShows`). The exception in
`FlagsTruthful` is needed: a writer that leaves because another thread finished
the stream leaves its flag behind.

`StreamImplementsChannel` (no restriction on resets): every step of `AudioStream` is a
step of `ByteStream` or a stutter, where the content is the `data_len` cells of the
ring from `write_pos` on. A chunk of several cells is taken or stored at once, so the
lemmas speak of whole chunks: what is taken is a prefix of the content and leaves the
rest (`TakeIsPrefix`), what is stored is appended (`StoreAppends`). Besides `IInv` it
needs `RequestsInv`: a stream that was never started is empty, and a request inside a
call is not used up.

`StartsAloneStrand`, the same with resets: of all operations only `audio_stream_start`
leaves a sleeping reader without the flag or the permit that will wake it (`OthersAnnounce`
goes through the others). Whether a stream is ever started under a reader is what
`Recorder` and `Player` then have to show: `StreamsStartEnded`, `DecodeStartsEnded`.

`RecorderProofs` (for all sizes, durations, failures, any number of recordings):
`AtMostOneRecording`, `IdleMeansWritten`. Assumed: `RecorderAssumption`. That no
writer is at work when the recorder is IDLE is not inductive: the writer may be
about to take up a message, the encoder about to send it, and so on back to the
application. `OneRecording` says of each of the six places before the writer that
holding the recording excludes all later ones, and that IDLE excludes all of them;
each START moves the recording one place on, each failure drops it at the place
that sets IDLE. `Shape` adds that the records of the threads have their `pc`.
`StreamsStartEnded` is about the two streams of the recorder: `AudioStream!Start` takes
for granted that nobody sleeps in a stream when it is started, since a reader or
writer in an ended stream is on its way out. Inductive (`StreamsEnded`): whoever
starts a stream has left none of its runs open at any place before the start, and
a flag that ends a run goes only with the next start, as these streams are not reset.

`FilesAreInOrder` and, without failures, `FilesAreWhole` (in the same module) follow the
data of a recording to its file. `FileInOrder` needs to know where a unit can be:
`FileInv` says that the file, the units of the last write, the buffer of the writer
and what the encode stream still holds are, one after the other, a prefix of what the
encoder put out (`Whole`), and that the record stream holds the units that follow
those the encoder has read. Both are stated for each place the recording can have
reached, from the START on its way to the last write. An encoder that is late, and
stops or reads the stream of a recording that is not its own any more (section 6), is
the reason for `LateOk`: it may cut that stream, but it cannot put anything into it.
A cut drops what would have come, so the file stays in order and is only shorter;
without failures nobody is late and nothing is dropped (`WholeOk`). That two threads
use a ring at once and that chunks are taken in pieces is covered by lemmas on what
one copy takes and stores.

`PlayerProofs` (any sizes, failures, timeouts, stops, pauses and any number of plays;
assumed: `PlayerAssumption`) follows one track p, whatever happened to the tracks before:
`TrackInOrder`, `TrackFallsSilent` and `TrackIsWhole` are `HeardInOrder`, `StopSilences` and
`WholeTrack` for a track that begins when the workers are at rest (`BeginsAtRest`: no
play message is left, the three threads wait, the playback thread perhaps in the two
seconds in which the device is still open, and the player is not running; a play for
information only needs the device closed as well). The first track of a player begins
like that by itself (`NotYet`): `FirstTrackInOrder`, `FirstTrackStops` and
`FirstTrackIsWhole` need no such assumption. A later one may not, even with `Prompt` and
`Tidy`, as a decoder may sleep behind an overtaken seek for ever; and without them the
three properties are false (section 6). So the rest is what a caller has to wait for.

What the device got is the end of a chain: file, preprocessor, a stream that
may be reset, decoder, a stream that may be stopped, a frame. `TrackInv(p)` follows one
unit along it. A play for information only gives nothing (`OnlyInfo`); else the play
message is on its way (`OnTheWay`), or the decoder looks at the header and the start
position (`Preparing`), or it plays. `Flowing(p, i)` says that the next unit the decoder
reads, from what it has to come, is unit i of the file, and `Feed(p, i)` that this is so or
that a seek to i is on its way behind a reset which hides all that was read before;
`Playing` adds the units behind the decoder, down to the device. Whatever is stopped or
cut drops a tail, never a unit out of the middle, because no writer goes on in a stream
that a stop has ended. Streams that still hold units of an old track do no harm: they are
emptied by the start, which comes before the first of their new readers and writers.
`play_pcm` with a start position is excepted for its two seeks.

For a stop, `TrackStops` says that the track is RUNNING, PAUSED or STOP only inside its
session (`InSession`), that no seek or reset is pending once the decoder has put out a
unit (`Begun`), so that none of them can make an error of a track that plays, and
that a stop which found it running waits until the session is over. With no second
play message nothing is put out from then on. For the end of the file, `TrackWhole`
follows what is left of it instead of its units: in a track nobody cut, the last unit in
a finished preprocess stream is the last of the file (`Arriving`), what the decoder has
read and what the stream holds add up to the file (`Taking`), and a decoder that ends,
and a frame that comes short, have all of it behind them.

`DecodeStartsEnded` holds for any tracks, at rest or not; its
counterpart for the preprocess stream is false for a file that fits it, since a reset
takes the finished flag away again (section 6), and is checked where the file does not
fit (`StartsAfterEnd`).

`AudioDevicesProofs` (any recorders, opens, calls, failures; assumed:
`CaptureAssumption`), the capture device: `OneCapture` and `CaptureUsesAreSafe`. That two recorders
inside would need the same lock is not inductive by itself; `LockInv` says that
whoever is inside owns a lock that exists, and that without a defeat it is the one
the global names. On top of it, `UseInv`: the handle is NULL unless somebody is inside,
the pcm a call was given is the one the handle names, it is open until
`PcmClose`, its buffer is held until `PcmStop`, and the configuration is there as
long as it is used. What a
recorder inside relies on cannot change under it, because all other threads
that change it are inside as well, or have defeated the lock.

`PlaybackDeviceProofs` (any players, opens, failures, both builds; assumed:
`PlaybackAssumption`): `PlaybackIsSafe`. Until the device is shared or closed by the
application only one player is at work or has a configuration (`OneActive`); for
that one `UseInv` relates handle, `opened`, pcm and configuration at every place of the
code. `AppReads` adds that the application's thread only passes on handles.
`AudioDevicesProofs` ends with the program that has both devices, `DevicesAreSafe`:
it takes `PlaybackDeviceProofs` twice, for the build that closes the device and for
the one that keeps it open, whose invariant is the same, and shows that a step of
one device leaves the other one's invariant alone.

`Mp3DecoderProofs` (any sizes of a frame, of `read_buf` and of junk, any tag, start
position and number of pieces; assumed: `Mp3Assumption`): `Mp3FramesDecoded`. `FramesDecoded` speaks
of the end only. `Main` says what holds before: what is in the buffer is the part of
the file behind `Pos` (`Reading`), exactly the frames that are wanted and begin before
`Pos` were put out, in order (`Put`), and no frame that can be found behind `Pos` began before
it (`Clean`). The second of these needs the third: a decoder that went on in the middle
of a frame would still find frames, but not those that are expected. Two facts of
the code carry the steps. A buffer that is full holds the beginning of a frame far enough
in front to be there in full (`FullHasFrame`, from `Dense`); so `NoSync` and `Underflow` lose
nothing while there is more to read. And what a decode leaves begins behind the
frame, or at a header that is no frame (`TakenIs`). All of it rests on how a file is laid
(`Laid`): its parts count up, its numbers too, and only the last frame may be cut. This
is what `Units` builds from any pieces (`UnitsLaid`): an induction along `FlattenSeq`, done with the
least element of the set of lengths where it fails (`LeastElement`), as no induction
theorem with an operator as its parameter can be used here.

`SoundPathProofs` has the other three parts and the whole.

*The sample buffer* (any page, first buffer, puts, receives; assumed:
`FifoAssumption`): `FifoKeepsOrder`. `InPlace` is the property itself and the
places of the values; every operation keeps part of the content from some sample on
(`PartKeeps`), and a put, which moves or grows, appends (`PutKeeps`, with
`RoundUpEnough` for the room the pages leave).

*The http preprocessor* (any users, body, reads): `UsersKeepTheirSockets` (nothing assumed)
and `TracksAreWhole` (assumed: `HttpAssumption`).
The property says that an open socket is remembered by its user; inductive is that
the sockets of a user are exactly the one it holds at that place of the code (`Holds`).
Every step leaves that socket, opens one where it holds none, or closes
it (`StepKeeps`); a failed seek is where this ends, since it remembers one it closed.
That a track is whole holds only at its end. Inductive is what leads there: for a user
nobody disturbed, what it got and what is left in its socket add up to the body,
and the two globals tell what is left; whoever writes a global disturbs all others.

*The amr decoder* (any sizes of the modes, any number of frames; assumed:
`AmrAssumption`): `AmrFramesDecoded`. In a file of one mode every reading begins at a boundary
(`Boundary`): the frames behind it are those that were put out, and the next unit, if
there is one, is the mode byte of the next. A frame there in full leads to the next
boundary (`WholeFrame`), one that is cut to the error (`CutFrame`). Only who is not stopped is at
a boundary; a stopped decoder reads nothing more, and the frame it may still put out was
read before. That a file is laid so is an induction over its frames (`AmrUnitsLaid`).

*The whole* (assumed: `PathAssumption`): `FramesInOrder` and `PartsKeepTheirs` for `PathSpec`, whose
invariant is the one of each part. A step is of one part only and leaves the others
as they are; the decoders share their variables, so theirs holds on their side only.

Only model-checked: `HeardInOrder`, `StopSilences` and `WholeTrack` for a track that begins
while a worker is still busy with the old one; the preprocess stream's half of
`StartsAfterEnd`; and everything under fairness, which the proof system cannot express
(`ENABLED`).

## 6. What was found while modelling

**A finding.** `record_wav_process` counts bytes and passes them to
`wav_header_complete(head, int samples)` (`record_wav.c:52,59`,
`audio_misc.c:37`), which multiplies by the bytes of a sample: the header of a
recorded wav file claims two (mono) or four (stereo, 16 bits) times its data. The
other caller, `playback_dump.c:72,98`, counts samples. Run `recorder_header`.

For the rest no document or comment of the repository promises otherwise, so these
are notes. Those about the player, the devices and the decoders were each seen in a TLC
counterexample, but for the one marked as read only.

* `player_preprocess_seek` (`player.c:1366-1370`) sends the seek before it resets
  the stream. If the preprocess thread serves it first, RESET stays on and the
  rest of the file is ignored. If the file fits `preprocess_stream`, the reset
  also clears FINISHED and the decoder sleeps for ever; the next play's start
  then forgets it. If the end of the file comes between the reset and the seek,
  FINISHED stays behind the resume (`audio_stream.c:275-302`): what is written
  after the seek is ignored, and the track ends in ERROR.
* Without `Prompt`, a PLAY that arrives before the old read loop has ended is
  dropped (`player.c:347-363`), and an old decoder can stop the new play's
  stream, mark it ERROR, or send its PLAY.
* Without `Tidy`, `player_device_stop(wait)` on a paused player never returns,
  and a stale ERROR lets `player_play` return at once, so that tracks overlap.
* A play for information only that comes within the two seconds after a track is put out
  like any other: the playback thread, its device still open, goes on with it without
  looking at `playback` (`player.c:1174,1028`).
* A decoder that fails while the last track is paused overwrites PAUSED; the
  playback thread then waits for a `pause_sem` nobody gives.
* `play_pcm` with a start position sends two seeks in a row; the resume of the
  first may clear the reset of the second (`play_pcm.c:32`).
* `audio_queue_stop` can stop nothing (`audio_queue.c:148`).
* A `recorder_stop` that comes before `capture_run` has started the stream is
  forgotten (`recorder.c:757,564`): the recording goes on, the call gives up after
  3 s. A second such stop sleeps on `record_queue`, which still holds the first
  STOP, until the recording ends by itself.
* `capture_run` tests `encode_msg.type` where `msg.type` is meant
  (`recorder.c:622`): a STOP before the first START is judged by an uninitialized
  value, and may end the thread for good.
* An encoder that learns late that the writer failed stops `record_stream`
  (`recorder.c:501`) when the next recording may already use it: that one is cut
  short and reported as a success.
* After a failed allocation in `recorder_record` the recorder is RUNNING for ever
  (`recorder.c:719`).
* IDLE is announced before the file is closed (`recorder.c:382,390`), and none of
  the last writes is looked at (`recorder.c:316,336,338,375`).
* Two recorders that open first at the same time create a `capture_lock` each
  (`capture_impl.c:19`) and both get in. `recorder_close` stops and closes the device
  from the application's thread and unlocks a lock it never took
  (`recorder.c:804`). A failed open returns with the lock held (`capture_impl.c:55`):
  the next open waits for ever.
* The playback device has no lock: a second player, or `player_close`, frees the pcm
  another one is about to use (`playback_impl.c:16`).
* An mp3 track whose end was read before its first frame was decoded is silent when
  it begins at a start position: `want_read_bytes` stays 0 (`play_mp3.c:180`). A frame cut
  by the end of `read_buf` is taken for the last one (`mp3dec.c:363`).
* Two corrections to the models came from proofs that did not go through. A tag whose header
  has been read is passed over unit by unit when it is no longer than that header, so
  `Dense` counts that unit among those without a frame. And the amr decoder may be
  stopped between the read of a frame and its output, which is then refused
  (`play_amr.c:196`); the two were one step before.
* `read_bytes < 0` in `play_amr.c` compares a `size_t` (`play_amr.c:147`): on a stopped stream the
  decoder may read the same mode byte over and over and never return. A frame of
  another mode is read over by the size of the first mode (`play_amr.c:173`).
* The count of what is left of an http body is a global of all users
  (`http_preprocessor.c:19`). A seek whose init fails leaves the number of a closed
  socket in userdata, and `preprocess_run` reads and closes whoever has that number
  next (`http_preprocessor.c:213`). The -1 of a failed chunk read is passed on as a size.
* `ensureCapacity` copies what is held out of the buffer it has just freed
  (`FIFOSampleBuffer.c:210`); `setChannels` converts the count but not `bufferPos` (line 103).
* `processor_cfg` and `decoder_cfg` (`player.c:24`) are one for all players: two tracks that begin
  at the same time share target, type and sizes. Read only: `Player` is one player.
* Read only, not modelled: the flash mode writes its buffer after the last frames
  and the header cut off them (`recorder.c:316,369`), and with duration 0 compares
  with `temp_size - frame_size` in unsigned arithmetic (`recorder.c:345`).

## 7. Not modelled

`PROJECT.json` lists every component with its status. The reasons:

* **Registries of decoders and encoders**: a list that is built by the create
  functions before a worker exists. Read only: `player_unregister_decoder` reads the first
  element of a list that may be empty.
* **Flash mode of `write_run`** (targets that begin with `A:`): a second write
  path for one board, over raw flash sectors; read, see section 6.
* **Destroy operations**: they free queues and streams while the threads that use
  them do not end; the model has no state for freed queues.
* **Two players or recorders at once** meet in the devices and the http preprocessor, which
  are modelled with several users; the product of two whole pipelines is out of TLC's reach.
* **Amr encoder**: towards `encoder_run` it does what `record_pcm` does, around a codec.
* **Volume control, card list, file types, tags**: sequential settings and pure functions.
* **Other device back ends**: builds for other boards, driver calls only.
* **Resampler, fades, equalizer, the rest of SoundTouch**: arithmetic on samples,
  with no protocol; their correctness is numerical.
* **Codecs and third-party code** under `codec/` and `third-party/`, vendored. They
  and the signal processing are by far the most of the source, so the modelled lines
  are a small share of the whole, but nearly all of `common/`, `player/` and
  `recorder/` that is not I/O.
