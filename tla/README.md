# Verification of camera_vvt

camera_vvt takes video from a Jetson camera and sound from a microphone,
encodes both and pushes them as one RTMP stream to a server whose address it
looks up first. It logs through spdlog, whose source is part of the repository.
This directory holds TLA+ models of the program and of the logging library, the
TLC configurations that check them, and proofs of their main properties.

    tlc -workers 2 -config RtmpLink.cfg RtmpLink     model-check a module
    tlapm LinkAndStart_proofs.tla                    check the proofs of a module

Paths below are those of the repository (`src/src/...`, `src/include/...`).

## 1. Inventory

| Component | Source | State it keeps | Operations |
|---|---|---|---|
| RTMP link | `LibRtmpTool.cpp`, main's connect loop | `rtmp` (pointer and object), `mutex`, `m_url` | connect, close, `SendVideoSpsPps`, `SendH264Packet`, `SendPacket`, `SendAACHeader`, `SendAACData` |
| Pushing threads | `rtmp_push_librtmp.cpp` | `pushing_vid`, `pushing_aud`, `vid_pts`, `aud_pts`, fps counters | pop, gate, parse, timestamp, wait for the other's flag, send, free |
| Media queues | globals in `main.cpp`, `libpcm_aac.cpp` | `video_buf_queue`, `pcm_cache_queue`, `audio_buf_queue_faac`, a mutex each, `get_audio` | push, `size()` without the mutex, front and pop |
| PCM capture | `libpcm_aac.cpp` | `pcmbuf`, `pcmoffset` | `stream_read_callback` |
| AAC encoding | `libpcm_aac.cpp`, `FAACAudioEncFun` | the faac handle | `Process`, `PCM2AACCallback` |
| Video capture | `ConsumerThreadTool.cpp` | encoder planes, `bufferIndex`, `m_gotError`, dmabuf fds | acquire, queue, dequeue, destroy, end of stream, the dequeue callback |
| NAL unit parser | `ReadOneNaluFromBuf` | none | find SPS, PPS and the slice |
| Timestamps | the middle of the pushing threads | `start_tv`, `vid_pts`, `aud_pts` | from the capture time, and counted |
| Start-up | `main.cpp`, `execute`, the callbacks of the sound server | the order of it all | look up, init, connect, create threads |
| URL look-up | `ProTool.cpp` | none | HTTP request, JSON |
| ALSA recording | `Raspberry_Pi_Record.cpp` | a device handle | open, read, close (never selected) |
| Loggers, registry | `include/spdlog`: `registry.h`, `logger_impl.h`, `dist_sink.h` | loggers by name, global settings, levels, handlers, the time of the last error | create, drop, set, log, flush, handle an error |
| Asynchronous logger | `async_log_helper.h`, `mpmc_blocking_q.h` | a bounded queue, the worker, the time of the last flush | log, flush, the worker's loop, the destructor |
| File sinks | `file_sinks.h`, `step_file_sink.h`, `file_helper.h` | the open file, its size, when to change it | write, rotate, restart |
| Log patterns | `pattern_formatter_impl.h`, `ansicolor_sink.h` | the compiled pattern | compile, format, colour |
| Format library | `fmt/bundled`: `format.h`, `printf.h` | a buffer that grows | `{}` and printf formats, numbers, padding |
| fps prints | `main.cpp` | counters | print |

How they interact. Six threads matter. The encoder's dequeue thread calls
`encoderCapturePlaneDqCallback`, which pushes to `video_buf_queue`. The
PulseAudio thread calls `stream_read_callback`, which sets `get_audio` and
pushes to `pcm_cache_queue`; the AAC thread takes from it and pushes to
`audio_buf_queue_faac`. The two pushing threads take from the outer queues and
share the one RTMP link. main connects, sends the AAC header and then creates
the pushing threads, so that it never uses the link at the same time as they do.
The sound server's thread may end the process from its callbacks at any time,
even in the middle of the start. All of them log: to the loggers of the
registry, whose sinks have a mutex each. A sink may throw; an asynchronous
logger has a thread of its own between the callers and the sinks.

What is hard: two unsynchronised flags in front of a mutex; a mutex that is
initialised again while it is held; a pointer that is read before the mutex is
locked; a link that is lost at any send, and rebuilt by whichever thread
noticed; `size()` of a queue read in the middle of a push; a gate opened by
another thread; arithmetic on offsets in a fixed buffer; a start in which every
step may fail and some failures are ignored; a condition notified after its
mutex is released; settings changed while they are used; exceptions between the
steps of a write; writers that keep a pointer into a buffer while it grows.
`PROJECT.json` lists each of these hazards at its line with the properties aimed
at it.

What makes each component correct:

* Link: one user at a time; never a send through a dead object; a flag that
  goes up comes down; configuration before media; a lost link comes back.
* Queues: nothing is lost, repeated or reordered; no pop of an empty queue; no
  race on the container; everything is settled in the end.
* PCM capture: no overflow; no backlog; the stream is intact.
* Video capture: no buffer queued twice, no fd destroyed twice, the end of the
  stream reaches the encoder once and the last buffers are drained.
* Parser: its search never reads outside the buffer; it finds the first slice
  and the parameter sets before it.
* Timestamps: packets are as far apart as they were captured, as far as an unsigned
  int can say it.
* Start-up: a thread that runs finds what it uses; the start ends.
* Loggers: settings reach those they are for; a message that is not written is
  reported; the report is dropped only near another one.
* Asynchronous logger: accepted messages reach the sinks in order, each once;
  a flush that is asked for comes; the destructor returns with all written.
* File sinks: what is on the disk stays there, the sinks of the program recover
  from a failure; a file holds what its name says.
* Formats: the line is what pattern, format string and arguments say, whatever
  room the buffer has.

## 2. The modules and the code

### RtmpLink (and ExclusiveLink)

`pc[t]` is the next step of thread t: `video`, `audio` or `main`. The steps
follow the code: `Spin`, `Raise`, `Prepare`, ..., `Lower` are the bodies of the
pushing threads; `ReadStreamId`, `IsConnected`, `Lock`, `Delivered` or `Failed`,
`Close`, `Alloc`, `ConnectFails` or `ConnectSucceeds`, `Unlock` are the path
through a sender. The four senders share that path: `msg[t]` says what is being
sent, and the places where the senders differ test it (`SendVideoSpsPps` does
not ask `RTMP_IsConnected` and does not reconnect). A keyframe is two packets,
`"sps"` then `"keyframe"`.

`rtmp` is the pointer together with the state of the object: `null`, `freed`
(left behind by a failed connect), `fresh` (allocated, not connected), `up`,
`closed`. `sent` is what the server has seen of decoder configuration in the
current session. `word` is the futex word of the mutex: glibc's normal mutex
takes 0 to 1, marks 2 when someone sleeps, and wakes one sleeper when it unlocks
a 2. `pthread_mutex_init` writes 0. This much of the lock is needed because the
code initialises it while it is held: what then happens to a sleeper is decided
by the futex word and nothing else.

Undefined outcomes are choices: reading a freed object may give any answer or
end the process (`Crash`); asking `RTMP_IsConnected` of an object under
construction may answer either way.

Coarser than the code: freeing the object and clearing `rtmp` are one step of
`Close`; the atomic exchange of the lock and the futex wait after it are one
step of `Lock`; `ConnectSucceeds` joins the end of the handshake with
`pthread_mutex_init`. Packet contents, sizes and timestamps are left out.
`RTMP_SendPacket` closes the socket when its write fails, as librtmp does.

ExclusiveLink says in a page what the flags, the mutex and the senders are for:
one user at a time, who alone changes the link. RtmpLink is shown to implement
it under a mapping that reads the user off the labels.

### MediaPipeline (and MediaChannel)

Three queues, each with one producer and one consumer, and five threads: the
AAC thread is the consumer of one queue and the producer of the next. Testing
the size (`Poll`), locking, and taking are separate steps. While the producer
is inside `push` the size may be read as anything, so `Poll` may then succeed
although the queue is empty.  A unit's `kind` tells what the code does with it:
a buffer of video with a slice, without one, or the empty one at the end of the
stream. Sending is a single step here and always returns; when it does is
RtmpLink's subject. `push_flag` is true from the start and nothing clears it, so
the branches for a cleared `push_flag` are left out. The pushing threads are
created after the connection: here they simply do not step until then.

MediaChannel is the promise of a queue: what is captured is settled in order,
each unit once, by being handed on or dropped. MediaPipeline implements it three
times over, once for each queue.

### PcmCapture

The bytes of the microphone's stream are numbered, so that loss, repetition and
reordering can be seen. `ReadFragment(n)` is one round of the loop in
`stream_read_callback`: copy behind `pcmoffset`, and if that makes a chunk, push
its bytes and move the rest to the front. It is one step since nobody else
touches `pcmbuf`. Two things are assumed of PulseAudio and named in
`SizeAssumption`: a fragment is at most a chunk (the program asks for fragments
of 1024 bytes; a chunk is 2048), and it holds data. `pa_stream_peek` may also
report a hole, with a NULL pointer, which the code would copy from; holes are
outside the model.

### VideoCapture (and FrameFlow)

`pc` follows the consumer thread: `create` and `give` are `threadInitialize`,
`pick` to `eos` one round of `threadExecute`'s loop, `drain` the wait for the
dequeue thread, `failed` every early return. `dq` follows the dequeue thread and
the callback. The encoder is modelled from how it is used (external): it takes
output buffers in order, fills one capture buffer for each, and may fail at any
time (`working`). A dmabuf is an fd; `Fds` are the numbers the kernel hands out,
and a number is free again as soon as its dmabuf is destroyed.

Taken into account: a failed creation of the encoder is ignored; a failed
`createNvBuffer` leaves `fd` at -1 and `qBuffer` then fails; every `qBuffer` may
fail; a frame without the native interface ends the process; `abort()` makes
every waiting call on the encoder fail. A blocking `dqBuffer` fails only when
the encoder does not work. The buffer that ends the stream carries the number of
a dmabuf that has been destroyed, or -1; whether the driver accepts it is left
open. The dmabufs still queued when the stream ends are never destroyed: at
most `MAX_ENCODER_FRAMES`, which `FramesBounded`, a part of `BuffersSafe`, allows.
The pixels drawn under `DO_CPU_PROCESS`, which is off, are left out.

FrameFlow is the promise: frames are read in the order of their capture, each
while its dmabuf exists and is no other frame's, and come out once each in that
order, the end of the stream last. It knows neither planes nor buffers.
VideoCapture implements it; what waits are the dmabufs of `input`, what has
been read is counted from the capture plane, the callback and `out` together.

### NaluParser

A buffer is built from `units` by `Bytes`; the parser works on the bytes, and
the properties compare its result with the units. `Match` is one round of the
search, `Search` the whole of it, and it serves the outer loop and the two inner
ones. What lies beyond the buffer (`beyond`) is part of the state, since the
code tests `index < len` only at the head of its loops. The length of a
parameter set that nothing follows is never set in a `NaluUnit` that is not
initialised either: the copy may then end the process or copy anything, so
`Sps` and `Pps` may crash.

The inputs are what the encoder puts out: NAL units behind start codes of two or
three zeros and a one, whose bodies hold no start code and do not end in zero
(`BodiesAssumption`). Annex B allows more zeros. The code steps over a start
code with four or five of them, finds it with six or seven, and so on in fours;
this is outside the model. `spsdata` and `ppsdata` are arrays of `Capacity` (100)
bytes that the code copies into without a look at their size: a parameter set that is
longer overruns its array, and the model stops there (`"overrun"`). `StopsOnSets` says
that only such a set before the slice does it.

### StartUp

main is one long sequence of steps most of which may fail. The module writes it
as that sequence: each function is the list of what it builds (`GetRTMPUrlInfo`,
`PcmInit`, `AacInit`, `Execute`), each entry with what becomes of a failure -
the process ends, it crashes, the failure is ignored, or the step is tried
again. The actions `Succeed`, `Ignored`, `Exit`, `Crashed` walk along it. Beside
main runs the sound server's thread (`PaConnect`, `ContextReady`, `StreamReady`,
`Fragment`, `ServerLost`), whose callbacks end the process (`CallbackEnds`,
`ContextFailed`). `Needs` says what each thread uses from its first steps on.
Its specification is named `StartSpec`, and PcmCapture's `StreamSpec`, so that one
module of proofs can hold these two components and RtmpLink.

### SoundStart

StartUp and PcmCapture together. The sound server's thread delivers fragments as soon
as its stream is ready, while main is still starting: a `Fragment` of StartUp is a
`ReadFragment` of PcmCapture. Chunks are taken only once main has created the AAC
thread, and no more once the process is gone. `OwnStep` are the steps of the start
that the capture has no part in.

### AsyncLog (and MessageLog)

`pc[t]` follows a thread that logs, through `push_msg` and `enqueue` (or
`enqueue_nowait`); `wpc` the worker's loop. Both conditions of `mpmc_bounded_queue`
are modelled as they are used: the test and the sleep are one step under the mutex,
the notification a step of its own after it, and a sleeper may wake without one.
`hand[t]` is the item being put into the queue: an urgent message is followed by a
flush, which is a second item and may wait for room again. `Takers` are the sinks
whose level lets a message pass (`should_log`); those in `Picky` let only the urgent
ones. A taker may throw at a message, any sink at a flush (`MaxFaults`). A message
that cannot be formatted reaches no sink, as if all its takers threw. The owner
destroys the logger when no one else uses it any more, which is what the library asks
of its user.

MessageLog is the promise: what is accepted is settled in order, each message
once, given to each sink that does not throw, and the log closes with nothing
left. AsyncLog implements it.

### FileSinks

One module for three sinks, since they share `file_helper` and their properties;
`kind` says which, and each has its constructor in `Init`. A call runs under the
sink's mutex and is one step, whose outcomes are where it may fail: opening (after
five tries), removing, renaming, writing. `HalfRotated` is the set of directories a
failed rotation leaves. The clock counts in hours, say, and local time may jump once
(`Jump`).

What is written stays in the FILE's buffer first: `buffered` counts the last messages
of the open file that are still there. The C library writes the buffer out when it is
full, and at `fflush` and `fclose`, whose results the code does not look at
(`file_helper.h:71`, `:78`), so what is lost then is lost without an exception.
`Losses` is how many messages of the buffer a call may lose, `Cost` the fault that it
takes, and `Drained` the directory after it. A message written in part counts as lost.
A failed `fwrite` throws, and may take earlier messages with it (`Write`). `Restart`
ends the process, in order or with its buffer, and starts it again.

Of the two ways to compute a file's name only that with the time of day is modelled;
the one with the date alone is not used by the program. The step sink is followed with
`delete_empty_files` either way. After a failed open its `fwrite` goes to a null
pointer (`crashed`), or its next rename throws for good. A message's own time is taken
before its caller waits for the sink's mutex; `written` is the time of the sink's
call, which is the one that the sinks act on.

### Loggers (and MCLoggers)

What runs with the registry's or a sink's mutex held is one step. The way of a
message through a synchronous logger is not: `Format`, `Sink` once for each
sink, `Sunk`, `SinkFlushes`, and from each of them an exception leads to the
error handler. `_default_err_handler` reads the time of the last error, sets it and
prints in three steps (`LookAtTime`, `SetErrorTime`, `PrintError`), between which other
threads may do the same. `set_error_handler` of the registry goes through the loggers without
the mutex; from the moment another thread creates, drops or uses what it touches
the behaviour is undefined, and `raced` records it.

`own` notes which settings of a logger were made for it alone, so that what a
global setting ought to have reached can be told.

### NumberLayout, BraceFormat, PrintfFormat

Pure operators, each module on top of the one before. NumberLayout has the
growing buffer and the writers of numbers, strings and characters: they reserve
an area, keep a pointer into it and write digits leftwards. A pointer carries
the generation of the storage it points into, so that a write after the buffer
has grown shows as lost. BraceFormat has argument lists, named arguments and the
scanner of `{}` strings, which is a pointer into a string that ends with a
terminator; PrintfFormat has the conversions and the scanner of printf strings.
Errors are exceptions with the library's words. An `int` has `Bits` bits, and a
`long long` twice as many (`BitsAssumption`: 4 to 32, for at most 64).

What a number should look like is `IntLayout` and `DoubleLayout`: its digits by place
value, its prefix, its padding. `IsWhole` compares the buffer with them. `DigitsLate` and
`MovedLate` name the two cases in which the code loses digits (section 4): there only
the buffer's extent is asked for.

### PatternFormatter, Timestamps

`compile_pattern` with every flag, the formatters with their clock arithmetic,
and the colouring of a line between two marks. A line is a sequence of pieces:
a character, a name or a padded number. The date of a day is a constant,
`Calendar`, since it is the C library's to know. `HourTold` says which hour `%I` and `%p`
tell together; midnight is an exception of its own in it (section 4).

Timestamps is the arithmetic of `vid_pts`, over the times of the buffers. `vid_pts` is
a `long`, and `SendH264Packet` takes it as an `unsigned int`: `Stamp` is the remainder
by `UIntRange` (2^32). `Tells` says what such a stamp can mean. `Scans`, `Lines` and
`Stamps` are what the loops hold after each round: functions of the number of rounds.

### Inputs, MCSequential

The inputs of the sequential algorithms, and the properties of what comes out. In
Inputs a behaviour puts together a pattern, a list of capture times or the
specification of a number's layout, a part at a time, or holds a message; what
patterns and messages are made of, the numbers, their specifications and the buffers
they are appended to are constants, so that the theorems are about all of them.
MCSequential gives them values and adds the buffers of the encoder (NaluParser's own
actions), and the format strings, specifiers and directives of the format library. The
reference definitions that the results are compared with stand beside the algorithms,
in their modules (`FlagsFound`, `TimesFollow`, `MarkedWrapped`, `Dated`, `IsWhole`).

### Other files

The modules that end in `_proofs` hold the proofs: those of RtmpLink, PcmCapture, StartUp
and SoundStart are in LinkAndStart_proofs, those of the parser, the patterns and the
timestamps in Sequential_proofs, and those of the numbers in Numbers_proofs, which
goes on from there. Definitions marked
"(Mutant: ...)" are what a plausible mistake would make of the definition after
them; no specification uses them. They show that each property can fail.

## 3. Runs

| Run | Module, cfg | What it shows |
|---|---|---|
| rtmp_link | RtmpLink, RtmpLink.cfg | one user at a time, no send through a dead object, a sleeper has a waker or was forgotten by a reconnect, configuration before media, `PushEnds`, `ImplementsExclusiveLink` |
| link_lost_for_good | RtmpLink, LinkLostForGood.cfg | finding: `LinkRecovers` fails |
| lost_wakeup | RtmpLink, LostWakeup.cfg | finding: `PushReturns` fails |
| header_lost | RtmpLink, HeaderLost.cfg | finding: `AacAfterHeader` fails |
| media_pipeline | MediaPipeline, MediaPipeline.cfg | the queues are safe, the gate opens once, one leak at most, the three channels are implemented, every unit is settled |
| video_capture | VideoCapture, VideoCapture.cfg | the buffers are safe, `ImplementsFrameFlow`, the output is complete, the error path and both threads end |
| sequential | MCSequential, Sequential.cfg | the parser, the log patterns, the timestamps and the format library compute what their reference definitions say |
| async_log | AsyncLog, AsyncLog.cfg | both overflow policies, the last flush, `ImplementsMessageLog`, `EverythingJoins` |
| file_sinks | FileSinks, FileSinks.cfg | what has left the buffer stays, the sinks recover, and what each kind of file holds |
| loggers | MCLoggers, Loggers.cfg | settings reach their loggers, a miss is reported, a report is dropped only within a minute of a line |
| error_rate | MCLoggers, ErrorRate.cfg | finding: `OneReportAMinute` fails |
| sound_start | SoundStart, SoundStart.cfg | threads find what they use, a running program is whole, the start ends; meanwhile and after it no overflow and no backlog, the stream is intact |

Bounds.

* RtmpLink: `MaxFaults = 3` losses of the link. One is enough for each finding;
  a second can hit the reconnecting thread's next send, a third the thread that
  waited meanwhile. Failed connection attempts and units are not bounded.
* MediaPipeline: three buffers of video let one unit be in a producer's hands,
  one in the queue and one in the consumer's; two chunks of sound still put one
  behind another in each of the two queues they pass.
* SoundStart: chunks of 4 bytes, a buffer of 8 and fragments of 1 to 4 reach
  every remainder, and 16 bytes fill four chunks, all of them before the AAC thread is
  created or any of them after it; the buffer is the smallest that the theorem allows.
  The start is finite without a bound. `PcmType = "pulse"` is what main sets.
* VideoCapture: the consumer has two of the three output buffers, so that it
  waits for the encoder from the third frame on, and the fourth frame reuses a
  buffer and a dmabuf's number already used twice. The end of the stream may come
  after any frame.
* NaluParser: three units put one before and one behind a parameter set. The
  types are slices (5; type 1 takes the same path), SEI (6), SPS and PPS. Bodies hold
  two zeros before an escape byte, or a zero and a one, behind other bytes or not. Beyond
  the buffer there may be a start code or the rest of one. That is each way for
  the look-ahead to run into the next unit. `Capacity = 4` is shorter than the longest
  parameter set and longer than the others.
* Formats: `Bits = 12` stands for the 32 of an `int`: numbers still have more
  digits than the width and precision tried, and hexadecimal more than two.
  `MAX_PACKED_ARGS = 2` stands for 16, so that an argument list is on either
  side of it. Patterns of up to four out of seven characters hold a flag between
  two literals and a `%` at the end. The buffers that numbers go to are empty, full, and
  have room for some of the widths, so that each layout grows in some and not in others.
  The other inputs are listed in MCSequential.
  `UIntRange = 2^16` stands for 2^32; the capture times exceed it and go back.
* AsyncLog: a queue of two items, two threads, two calls (by one of them or one
  each), two sinks, one of them for urgent messages only, and two faults. The
  queue is full while both threads want to put something in, an urgent message
  may fit without its flush, and one sink may throw while the other does not, or
  both.
* FileSinks: the second message fills a file behind its header, five fill it
  twice and rotate past the last of two old files; the clock runs over two
  rotations of the day; two faults hit both halves of a rotation, or lose a buffer
  and then fail the write after it.
* Loggers: two threads, two names, three levels and three calls: create, set and log,
  in any order. Time passes the window twice. For `error_rate` two calls do: each
  thread fails once. Threads and names are interchangeable, and the properties do not
  tell them apart, hence the symmetry.

Deadlock is not checked where the system may stop: the process may die, a
thread may sleep for good (a finding), sources, calls and inputs are bounded.
It is checked for AsyncLog, whose last state, after the destructor, steps on
for ever.

Fairness. Weak fairness of each thread's steps: they are ordinary threads and
every sleep in their loops is timed. Strong fairness of `ConnectSucceeds`, and
in StartUp of `Succeed`: the retry loops are unbounded, so what is asked is that
a server that can be reached again and again is reached; failing attempts would
otherwise never end. `FlowSpec` adds that units keep coming and that the spin
loops are won now and then; it is the most favourable environment, used only to
show that even there a lost link stays lost. In VideoCapture the two threads and
a working encoder are fair, and `acquireFrame` returns, with a frame or with the
end. In MediaPipeline only the threads are fair, not the sources: nothing
promises that the camera or the microphone goes on. In AsyncLog each call is
made and goes on when it can, and so does the worker; no sleeper is promised to
wake without a notification.

## 4. Findings

1. A link lost while SPS and PPS are being sent is never reconnected
   (`SendVideoSpsPps`, `LibRtmpTool.cpp:237`): librtmp closes the socket, and
   `RTMP_IsConnected` then keeps the other senders from the send that would
   fail and reconnect.
2. `LibRTMP_Connect` initialises the mutex (`LibRtmpTool.cpp:43`) that the
   reconnecting thread holds. A thread asleep on it is forgotten, its flag
   stays up, and the other thread spins on that flag for ever. Both threads can
   be inside the senders because the flags are tested and set in two steps.
3. After a reconnect the AAC header is not sent again; AAC frames go to a
   session that has no configuration for them (`LibRtmpTool.cpp:431`).
4. The default error handler of a logger prints "with the max rate of 1
   message/minute" (`logger.h:132`). It compares the time of the last error
   (`logger_impl.h:323`) and sets it (`:327`) without a lock: two threads that fail
   together both find it old and both print.

The mutex opened in the middle of the critical section (2) does not by itself
let two threads into the link. The other thread may lock the new mutex at once,
and the reconnecting thread's unlock then frees a mutex that the other one
holds; but by that time the first thread is on its way out, and the other's
flag, still up, keeps it from coming back. `LinkExclusive` therefore holds, by
the flags in one half of the cases and by the mutex in the other. This is the
least obvious fact about the code, and the reason for proving it.

What a reader of the code may not expect, and the models follow. These are not
runs of their own; the definitions say them where they arise.

* `%%` in a log pattern prints two percent signs, and `%I` prints 00 at midnight
  although its comment says "1-12" (`pattern_formatter_impl.h:194`). At noon it prints
  12, as it should. `LineDatesTheMessage` excepts the hour after midnight, and no other.
* A video packet's timestamp is a `long` cut to an `unsigned int`: it starts anew every
  2^32 ms, which is 49.7 days, and a clock set back behind the first buffer's puts a
  packet 2^32 ms ahead, not back.
* "Throw spdlog_ex exception on errors" (`file_helper.h:10`) does not hold for `fflush`
  and `fclose`, whose results nobody looks at: messages are lost in silence then. A
  failed `fwrite` throws once, however many buffered messages it loses.
* The registry says "This class is thread safe" (`registry.h:11`), but its
  `set_error_handler` goes through the loggers without the mutex; `SettingsReachAll`
  excepts the error handler once that has met another access.
* The step sink does not recover: once it failed to open a file, a write goes to a null
  pointer or every later call throws. `FilesKeep` therefore speaks of recovery for the
  rotating and the daily sink only.
* In the bundled format library: a centred double is lost when the buffer has
  to grow; with a precision and left alignment digits go to storage
  that was freed; a left-aligned double is padded with blanks whatever the fill;
  nan and inf go to the left by default; centred integers with a precision are padded
  as if aligned right; `%06.3d` of -42 puts the zeros before the sign, and `0` wins
  over `-`; `%lu` of a negative `int` keeps 32 bits; `%Ld` of a `char` prints it
  twice (a missing `return`, `printf.h:330`); `%c` of a null pointer prints `(nil)`.
  The buffer's growth matters: which of these happens depends on where in the
  buffer the field begins.
* `vid_pts` is printed with `sprintf` into `char[10]`, which 10^9 ms, eleven and
  a half days, overflow. A start in second 0 of the clock counts as no start.
* `push_flag` is never cleared, so its branches are dead.
* Were `PcmType` "alsa", the AAC thread would use `pcm_queue`, which nobody then
  makes: `ThreadsFindWhatTheyUse` fails for that value.
* The daily sink computes its next rotation with the summer-time state of the
  moment: `OneDayPerFile` fails for `Jump = 1`. Its theorem is about days
  without a change of the clock (`Jump = 0`), and says so.

## 5. What is proved

For every value of the constants that satisfies the assumptions named in the
modules. Each proof has an inductive invariant, whose conjuncts are named.

RtmpLink (`MaxFaultsAssumption`: the bound is a natural number). The invariant
has layers, each resting on those before it:

* control: types, each label with the messages and flags that go with it, main
  alone before the pushers begin (`Control`);
* exclusion (`Exclusion`): while one pusher uses the link the other does not,
  and if the futex word is 0 meanwhile (because the mutex was initialised or
  unlocked under its holder) the other is idle, spinning or lowering its flag;
* the object: what `rtmp` may be given who is at which label;
* the race: a pointer that can crash a reader exists only while a reconnect is
  under way, and then a reader means that both flags are up;
* the sleepers: one is recorded in the word, with the other thread inside, or the word
  is 0, and then the other has reconnected and not yet used the new link;
* the undisturbed phase (`faults = 0`): configuration precedes media.

`LinkExclusive` is not inductive by itself: from a state in which one thread
sends, the word is 0 and the other is about to lock, the next step breaks it;
that no such state is reachable takes `Exclusion`, which in turn needs the
labels, flags and messages of `Control`. From the
invariant follow the theorems `TypeCorrect`, `Exclusivity`, `LiveObject`,
`CrashesNeedARace`, `ObjectsKept`, `WakeupsAccounted`, `ConfigComesFirst`, and, with
one step lemma on the mapping, `Implementation`.

MediaPipeline (`BoundsAssumption`). `Places` says who holds which lock at which label;
`Waits` that a consumer past the size test has a unit waiting, or one just being
pushed, which only it can take away; `Counts` numbers the units: those settled, the
one held, those queued and the one offered follow each other without a gap up to
`made`. `Gate` and `Ends` tie the gate and the empty buffer at the end of the stream
to the labels. `QueuesSafe` follows from `Places` and `Waits`. `Waits` alone is not
inductive: it needs that nobody else pops, which is `Places`. That every step moves at
most one unit of each queue (`Moves`) gives `Counts` and the refinement
`ChannelsImplemented` alike. `GateOpens` and `OneLeak` complete the safety of the
module.

PcmCapture (`SizeAssumption`). The invariant is the conjunction of the type,
`NoBacklog` and `StreamIntact`. Two lemmas on sequences of chunks (a push at the
end, a take at the front) and one on the copy into `pcmbuf` carry the step.
`NoOverflow` follows from `NoBacklog`: less than a chunk waits, a fragment adds
at most a chunk, and the buffer holds two. `SoundStartKeepsBoth` carries this, and what
is proved of StartUp, to SoundStart: each of its steps is one of the component's, or
leaves it alone.

VideoCapture (`SizesAssumption`). `Planes` counts the capture buffers between
the encoder and the callback; `Order` says that the frames behind each other in
the output, in the callback's hand, encoded and in the input are consecutive and
end with the last acquired or the end of the stream (`FramesInOrder`). `Buffers`
follows the output buffers: those in the input are the driver's, the one in the
consumer's hand is in use by nobody else, live dmabufs are in different buffers.
`BuffersKept` follows; without `Holding`, the part about the consumer's hand, a
buffer could be queued twice in one step. The refinement `FramesFlow` has a lemma for
each action (`DequeueFlow` to `PushOutFlow`) and rests on `Seen`, what FrameFlow sees
of a state. It needs two more facts: no frame anywhere is numbered beyond those
acquired (`Bounded`; `Order` alone allows one with the end of the stream's place), and the
encoder of a process that is gone stands still (`Stopped`).

StartUp (`PcmType = "pulse"`, which is what main sets; the findings above say what
happens otherwise). main is shown to be a table of 27 steps (`MainIs`), joined from its
functions piece by piece. `StartInv` says that only what is optional has failed, that
the URL is there from the connection on, and that the sound thread lives only where
it was created. A thread that runs was created at a known place of the table, so
that all it needs stands before it and has not failed: `StartUpIsOrdered`. `RunsWhole`
is the same at the table's end.

AsyncLog (`LogAssumption`). `Flow` accounts for every message: by a count along
the queue, starting from those settled and the one with the worker, each accepted one
is in exactly one place or settled, and each urgent one has its flush behind it
in one of them or was flushed. From it follow `PoliciesKept` and the
refinement `LogImplemented`. `Stopped` says what the destructor finds, whence
`FlushedAtJoin`.

FileSinks (`FileAssumption`: sizes, the number of old files and faults are
arbitrary). Each sink has its own invariant, since they share only the file
helper.

* `Recovering` (daily): without an open file it is already time for the next, so
  that the next message opens one.
* `Daily` (daily, `Jump = 0`): every file holds messages of one day, the open
  file's day lasts up to `_rotation_tp`. `OneDay` follows. The hypothesis is needed,
  as the finding about summer time says.
* `Rotating`: `Shelf` orders the files (a message in an older file was logged
  before every message in a younger one, none is there twice, each file keeps to
  its size), `_current_size` is at least what the open file holds, and without an
  open file it is more than `MaxSize`, so that the next message rotates again.
  `Keeps`, until something fails, adds that the files' numbers run from 0 without a
  gap and that a message is held if an older one is. A rotation moves whole
  files up by one and drops the last; that this keeps the order while any of its
  steps may fail in the middle is the longest part (`Relocated`).
* `Stepping`: one temporary file, the current one, and the header first in each.
  `InTurn` adds that names are given in the order of time, so that a file is never renamed
  over another: this is what `Jump >= 0` is assumed for.

From these follow `OneDay`, `FilesAreKept`, `KeepsTheLatest` and
`StepFilesAreComplete`. For `FilesAreKept` a lemma for each sink follows every message
that has left the buffer through a step, the failures in its middle included.

Loggers (`LoggerAssumption`). `Reach`: in the middle of a registry-wide
`set_error_handler`, the loggers behind the iteration already have the handler.
`Earned`: a logger's `last_err`, once set, is the time of a line that is printed or that
a thread past `SetErrorTime` is about to print (`Lines`), so an error dropped inside the
window is near one. `Reaching` and `Earning`
follow. `Delivered` follows each message through its thread's labels: at the n-th
sink the sinks before it have the message or refuse its level, while flushing they
have it flushed up to there, and a message is carried by one thread only.
`EveryMissReported`, which speaks of messages whose `log()` is over, is not
inductive without it: the step that ends a call must know what the earlier ones
did. Members of the `dist_sink` come and go meanwhile; that the first one stays
first until it is removed makes the statement about it hold. `Reporting` follows.

The sequential algorithms. Their loops are recursive functions, and the theorems
hold for inputs of any length. Induction is one lemma (`Induction`), taken from
the well-foundedness of the naturals and used for a set of numbers in place of
a predicate. `Unrolling` and `Unrolled` say what a function defined from n - 1 is at n,
`Searching` the same of a search that goes upwards and may jump.

* Timestamps (`TimesAssumption`, `UIntRangeAssumption`): `VideoFollows`, for every
  sequence of pairs of integers, clocks set back included. The start time is that of
  the first buffer whose clock is not at second 0, and never changes after it; the
  order of packets follows where the time since then is not negative and within the
  unsigned int.
* PatternFormatter: `PatternsAreRead`, for patterns over any set of characters.
  The invariant of the scan is that what it has emitted, followed by what it has
  collected, is the meaning of the characters so far, and that its flag is up
  exactly after an odd number of percent signs.
* Lines and their colours (`WordsAssumption`: no word or character is a colour code;
  `MessagesAssumption`: clocks past the epoch, time zones of whole minutes, every
  day in the calendar; `CalendarAssumption`): `ColoursWrap`, for patterns over any
  set of characters that has no code in it, and `LinesDate`, for any message. The
  state that is carried from formatter to formatter is the text and the range of the
  colour: each formatter appends a text that the line before it has no part in
  (`OneFormat`), the range stays inside the text, and only the marks and `%+` move it
  (`Stays`). So the text between two single marks is that of the formatters between
  them (`MarkedSpans`). For `%+`, `Draws` follows a pattern character by character and
  says what line stands behind it; that of the comment's pattern, two or so
  characters at a time, ends at what full_formatter writes.
* NaluParser (`TypesAssumption`: five bits of type, start codes of two or three zeros
  and a one; `BodiesAssumption`, emulation prevention: no start code inside a unit, no
  zero at its end; `BeyondAssumption`): `UnitsAreFound`. The heart is `Searches`: from
  any place inside a unit that follows its first byte the search comes to the next
  unit's start code, whole, or to the end of the buffer. Since a round of the search
  may step over up to four bytes, this needs that no round begins inside a start code:
  a zero that is not part of one is followed by another byte before the unit ends.
  `Parsing` then says which unit the parser has come to and that the parameter sets
  copied so far are the last ones before it.

* Numbers (`BitsAssumption`; `NumbersAssumption`: a value lies within its type, a
  buffer holds what it has in use, the digits of a double are there and do not begin with a
  blank): `NumbersAreWhole`, for any numbers, widths, precisions and buffers.
  That a number fits the room counted for it takes two facts. `count_digits` multiplies the
  length in base two by 1233 and shifts by 12, which is near enough to the logarithm
  for 64 bits: the estimate is right or one too low, and the table settles which
  (`Logarithm`, `Counted`). And the digits, made in pairs from the end, with a
  separator after every third, or by shifts, are those of the positional numeral
  (`ByPlacesNext`). `Holds` then says that a buffer is what it was with a text
  after it, whatever the storage has become; reserving, growing, writing through a
  pointer that is up to date and printing behind the sign's place keep it. A pointer
  taken before the buffer grows is up to date in all layouts but `DigitsLate` and
  `MovedLate`; that there are no others is what the theorem adds to the finding.

RtmpLink, MediaPipeline, VideoCapture and AsyncLog also have a theorem `TypeCorrect`,
and PcmCapture `StreamTypeCorrect`, that the variables keep their types; TLC's runs do not
check these apart.

Only model-checked:

* all liveness (`PushEnds`, `AllSettled`, `AllEncoded`, `BothEnd`,
  `EverythingJoins`, `StartUpEnds`), which is beyond the prover;
* `FieldsFindTheirArguments`, `SpecifierIsObeyed` and `DirectivePrints`, the properties
  of BraceFormat and PrintfFormat, whose scanners are recursive operators and
  therefore outside what the prover reads.

## 6. Not modelled, and what is left

Not modelled:

* ALSA recording and playback: the program never selects them.
* `GetVideoSpsPps` and `CURL_Get_Json_And_parse2`: never called. Of the URL
  look-up only the outcomes are modelled, as steps of StartUp: the rest is one
  HTTP request and the fields of a JSON answer.
* The console, system-log and platform sinks: each is one call of the system.
* In the format library: arguments of a user's own type, wide characters, dates,
  streams, file wrappers, and the templates that pick a type at compile time.
* The printed frame rates: counters that nothing depends on.
* The camera's, the encoder's and librtmp's insides: external, modelled from
  how the code uses them.

Left for later:

1. MediaPipeline's send replaced by RtmpLink's path, so that the growth of the
   queues during a reconnect, and the stop after a lost wake-up, show in the
   queues.
2. The scanners of BraceFormat and PrintfFormat as functions of the position, so
   that their properties can be proved as the pattern's are.

| Module | Composes | Abstract specification |
|---|---|---|
| RtmpLink | | ExclusiveLink |
| MediaPipeline | | MediaChannel, three times |
| AsyncLog | | MessageLog |
| VideoCapture | | FrameFlow |
| PcmCapture, StartUp, FileSinks, Loggers | | their invariants |
| SoundStart | StartUp, PcmCapture | their specifications |
| NaluParser, Timestamps, PatternFormatter, NumberLayout, BraceFormat, PrintfFormat | | reference definitions beside them |
| MCSequential | the sequential modules | |
