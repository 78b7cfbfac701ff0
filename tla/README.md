# A TLA+ model of DROS2, the LWA data recorder

DROS2 (`src/DROS2`) receives UDP packets from the digital processor of a radio
telescope at line rate, spreads them over consumers (recordings, a spectrometer,
a live buffer) and obeys commands from the station's monitor and control system
(MCS).  Beside it stand two tools: `Msender` sends commands and judges the
answers, `DataSource2` sends test data.  This directory models them in TLA+,
checks the models with TLC on small instances and proves the safety of the receive
buffer, its producer and recorder, the scheduler, the process around them and the
smaller parts with TLAPS.  Paths below are relative to `src/DROS2` unless they begin
with the name of a tool.

## The system

### Parts

| Part | Code | State | Operations | Module |
|---|---|---|---|---|
| Ticket buffer | `Streaming/TicketBuffer.h` | free pool, tickets with a reference count, geometry, subscriber list | `nextFreeTicket`, `notifyFill`, `returnEmpty`, `reset`, `uninit`; `subscribe`, `unsubscribe`, `put`, `reGet` | `TicketBuffer` |
| Subscriber threads | `Streaming/QueuedSubscriber.h`, `SubscriberThread.h` | queue of tickets, known geometry, place in `run()` | `getNext`, `onTicketAvailable`, `onReset`, `onNewGeometry`, `run` | `TicketBuffer` |
| Receiver | `Actors/Receiver.h` | current and new format, socket | receive loop, vote on the format, reset, `packetBurn` | `Receiver` |
| Recording | `Streaming/FileWriter.h`, `Operations/RecordOperation.h` | stop, limit and error flags, byte count, file | hooks of the writer thread, scheduler callbacks, `doCancel` | `FileWriter` |
| Spectrometer | `Streaming/Plugin.*`, `Spectrometer/`, `Operations/SpectrometerOperation.h` | blocks in five lists, tickets in and out, accumulators | frames into blocks, blocks into spectra, accumulation, stop | `Spectrometer`, `Stokes` |
| Live buffer | `LiveBuffer/` | captures that keep tickets, trigger, configuration | BUF commands, capture, transmit, stop | `LiveBuffer` |
| Scheduler | `Actors/Schedule.cpp`, `OpsQueue.h`, `Operations/*.h` | sorted queue, current operation, four `notified...` flags, `nextEvent` | `run`, `scheduleOperation`, `isTimeSlotFree`, `cancelOperation`, `doAbort` | `Schedule` |
| Copy and dump | `Operations/CopyOperation.h`, `DumpOperation.h` | offsets, files still to be written | `threadOpRun` | `Transfer` |
| Time | `System/Time.h`, `TimeKeeper.cpp` of the tools | none | stamps and slots, day numbers | `TimeSlots`, `Calendar` |
| Storage | `System/Storage.*`, `File.h`, `Folder.h`, `Scripts/StorageControl.sh` | mounts, drive objects, open files, listings | up, down, create, open, put, watch | `Storage` |
| System and messaging | `System/System.cpp`, `Actors/MessageListener.*`, `MessageProcessor.cpp`, `ResponseSender.h`, `Messaging/` | the singletons, requests to stop, wait queues | boot, run, shutdown, one branch per command, answers | `Control` |
| Staged buffers | `Buffers/GenericBuffer.*`, `ObjectBuffer.hpp` | a ring with one index per stage | `nextIn`, `doneIn`, `nextStage`, `doneStage`, `reset` | `StagedBuffer`, `Pipeline` |
| Datagrams | `Common/CommonICD.h`, `Messaging/Message.h`, `Msender/Message.cpp`, `Response.cpp` | none | pack, validate, read back | `Messages` |
| Msender | `Msender/main.cpp`, `Socket.cpp` | options, socket, verdict | one run from command line to exit status | `Commander` |
| DataSource2 | `DataSource2/source` | frame generators, bytes sent | `next`, the sending loop | `FrameSource` |

### How they interact

The receiver thread takes a ticket from the pool, fills it from the socket and
posts it.  Every subscriber thread gets the same ticket in its own queue; the
last `put()` returns it to the pool.  When the data format changes the receiver
resets the buffer: it takes back what is queued, waits until what is in use has
come back, re-cuts the memory and tells the subscribers the new geometry.  A
recording is a subscriber thread started, stopped and joined by the scheduler
thread; the spectrometer is a subscriber of the receive buffer and itself the
buffer a recording subscribes to; the live buffer keeps references beyond the
delivery.  The listener thread queues commands for the message processor, which
schedules operations, opens files and sends storage up and down, and queues
answers for the response sender.  The scheduler runs one operation at a time
through four callbacks (window start, execution start, execution stop, window
stop); some operations have a thread of their own.  On shutdown the main thread
stops the processor, the responder, the receiver and the scheduler, and last the
storage.

### What is hard, and what makes each part correct

- *Ticket buffer*: subscribers come and go, put tickets and keep them while the
  producer posts or resets.  Correct when no ticket is lost, shared or released
  early, nothing is in use while the geometry changes, subscribers see posts in
  order in the geometry they were told, and a reset ends.
- *Receiver*: the mode changes in the middle of a batch, a reset may fail, and it
  is stopped while it waits.  Correct when it compares packets with the frame size
  of the buffer, follows a lasting change and stops.
- *Recording*: it is stopped from another thread at any moment.  Correct when the
  join ends, the file is closed, the metadata has the operation's verdict, and a
  ticket's data does not change while it is written.
- *Spectrometer*: frames are lost, late and out of order, and two threads and the
  computing threads hand blocks on.  Correct when a spectrum has each of its frames
  once, spectra follow each other, and a stop gives all tickets back.
- *Live buffer*: a command, a reset and a stop meet a capture at any stage.
  Correct when references balance, a capture is contiguous, and nothing is held up.
- *Scheduler*: what one thread read is stale when it acts on it; callbacks are
  driven by a clock that SYN may set; cancellation races with the start of an
  operation's thread.  Correct when the queue is sorted and free of conflicts,
  one operation works at a time, callbacks come once, in order and not early,
  every accepted recording ends and shutdown gets through.
- *System, storage*: UP and DWN take minutes in a thread of their own, commands
  come twice, power fails.  Correct when the default drive is never a deleted
  object, no file has two writers, and shutdown ends with storage last.
- *Pure parts*: time stamps of two fields, rings, packed fields, SIMD shuffles.
  Correct when they agree with the plain definition.

`PROJECT.json` lists the hazards at their lines, with the properties that cover
them.

## The modules

### TicketBuffer

The buffer with one producer and any number of subscriber threads.  Variables
have the names of the fields (`freeTickets`, `refCnt`, `numTickets`, `invalid`,
`subscribers`, `tickets`); `phase` is where the producer is inside the buffer's
code and `pc` where a subscriber is in `SubscriberThread::run`.  `live` is the
set of allocated `Ticket` objects, `fmt` the geometry a ticket was initialised
for.  `kept`, `posted` and `stamp` are bookkeeping: references taken by `reGet`,
the number of posts, and which post a ticket's data come from.

Steps follow the locks.  `useTicket` holds the list mutex over its whole loop but
each delivery is a step of its own, because a subscriber can put a ticket while
the next one has not got it yet; `__invalidate` likewise takes one subscriber's
mutex at a time and puts its tickets one by one.  A subscriber holds its own
mutex while it processes a ticket (`pc = "busy"`), which is what makes the
producer wait in `flushLock`.  `__resize` is split into allocation (which may
fail), ticket creation and destruction, initialisation and notification.
`ref_cnt` is a `size_t`, so it counts modulo `RefMod`.

Left out: the `disconnected` state of `QueuedSubscriber`, which only `Plugin::stop`
raises, after the writer has left; the ticket proxies; memory contents.

### Receiver

Extends `TicketBuffer` and replaces its free producer by `Receiver::run`.  What the
thread finds out about a batch is local to it, so inspection and the resulting
call (post, drop, change of format) are one step; `reset` is the buffer's own.  A
batch is a short sequence of packets, each the mode it was sent in, empty or of a
length no format has; the vote, its order of candidates and ties, and the choice of
the format by the last packet of the winning family are as in the code.  The sender
changes mode at any moment, and packets of the old mode come before the new.
`doAbort` interrupts the thread and `packetBurn` wakes it from `recvmmsg`.

### FileWriter

Extends `TicketBuffer`: one of its subscribers, `Writer`, follows the hooks of
`FileWriter` instead of the generic loop, and the `RecordOperation` that owns it
is run by the scheduler thread.  `onTicketReceived` is three steps (check, write,
put), because the stop flag is raised by another thread between them.
`writeTicket` is abstracted to how many tickets' worth of bytes it counts and
whether it fails; a short write of a contiguous ticket overruns by up to
`MaxOverrun`.  `time_limit_reached` is left out, since `Time::compare` never
reports it (see below).  An STP between `doExecutionStop` and `doWindowStop` tags the file
a second time.  `CanStop = FALSE` is the case that the operation ends
after its writer did, as when the size limit comes before the end of the slot.

### Spectrometer and Stokes

`Spectrometer` is the plugin around the block bookkeeping: the master thread takes
frames out of tickets (`Plugin::getNextIn` and `doneIn`) and inserts them into the
block of their interval; the slave thread starts a full block, waits for its
computing threads and hands the spectrum on (`getNextOut`, `doneOut`).  Blocks move
between `free`, `filling`, `startable`, `computing` and `dropped`; each of these but
`filling` is an `ObjectBuffer`.  Samples are not represented: a block records which
frames it got.  `op` follows `SpectrometerOperation` from window start to the end
of `doShutdown`, whose sleeps wait for nothing and are therefore plain
interleaving.  A thread of a block may fail to be created.  If it is the first one, the
block is an error, and the slave takes the recorder down with the pointers
(`header`, `data`) its error path follows, which nothing ever sets (`finishError`).  If it
is a later one, the slave cancels for ever in a loop that never changes its counter
(`CreatingForEver`), and a stop waits for it in vain.  `Working` is neither; the liveness
properties say where they are claimed without it.

`Stokes` is the arithmetic of a block: the six accumulators with their SIMD
operations, over integers, run share by share by the computing threads on a common
output frame.  The FFT is FFTW's and taken as given.

### LiveBuffer

The subscriber thread with its captures, the transmitter thread, BUF commands and
the trigger's two flags.  One pass of the loop in `onTicketReceived` is one step,
except `acquire_buffer`, whose accesses to the queues it shares with the transmitter
are steps of their own.  A BUF command applies its groups one after the other, each
under the mutex, and stops at an invalid one.  The build keeps assertions, so a
failing one ends the process.  `shutdown` waits for a transmitter that has set `_started`;
one that has not (`tx = "new"`) is not waited for and finds later that it is not to
run.  The part exists only in builds with
`DROS_LIVE_BUFFER`.

### TimeSlots and Calendar

`TimeSlots` has the functions of `Time.h` that order stamps and slots, with
`MILLIS_PER_DAY` and the width of `size_t` as constants; `MCTimeSlots` states them
against intervals of a linear time line: `compare` and `overlaps` of two slots (a slot
that never ends overlaps everything), padding, and `compare` of a slot and a stamp, which
is exact at the slot's start and blind to its end.  `Calendar` has the day number formula over
the civil calendar, and a stamp made of two reads of a clock that ticks between
them.

### Schedule

The scheduler, its queue, the operations and the commands.  Every method of
`Schedule` holds the mutex throughout and is one step; the scheduler's loop is
two steps (`getState`, then `doWait` or one call of `doBusy`), and so are REC and
FMT in the message processor, because nothing protects what they read first.
Operations are told apart by what they do to the scheduler: `REC` (and SPC),
`TST`, `SYN`, `FMT` (and DEL), `CPY` (and DMP).  `notified` counts the four
flags, which are raised in order.  A null or wrongly cast pointer that is used
takes the process down (`loop = "crashed"`); `doBusy` on the idle operation is
undefined behaviour and may or may not.  `calls` counts the callbacks an
operation has had.  The clock is a linear count, read as a stamp; SYN may step it.

### Transfer

The thread of CPY and DMP.  A byte is its position in the tag file.  Reads and
writes may be short, fail, or ask to be repeated; the end of a file reads as "try
again".  `DumpOperation` leaves `extfile` and `current_file` uninitialised: the model
starts the counter with any value of `Garbage`, and the pointer null or wild; following a
wild one ends the process before any file is returned.  `lseek` of a position within an
open regular file is taken to succeed; a copy for which it failed would log that and read
on from where it is.

### Storage and Control

`Storage` is the mount table, the drive objects of the last scan, the files that are
open and the threads that watch folders.  An object is a drive and the scan that
found it; it dangles once that scan's objects are deleted.  `Control` extends it to
the whole process: boot, the three messaging threads and their queues, every
command, the operations as far as they hold files and drives, signals, shutdown in
its order, restart, and a crash after which the saved configuration is read again.
A command is one step, since one thread handles them all and every storage query
holds the storage lock; going up or down is the asynchronous thread's own step.
Whether a slot is free or a request fits is a choice here.  Commands may arrive at
any time and any number of times, as UDP delivers them.

A file carries the command that opened it, so that one left open can be traced.  A CPY
or DMP that is refused with files open, because it does not fit or because one of its
outputs cannot be made, cleans up after itself (`transferFails`); `leaked` are the files of
one that STP dropped while it waited, which nobody returns.
`wiped` remembers the outputs a format removed while their operations still had them
open.  REC asks for a free slot and not whether a format is in progress: the format
empties the drive under the file, and a repetition of the REC creates the same path
again.  That two operations write one path is excluded only outside `wiped`.

### StagedBuffer and Pipeline

`StagedBuffer` is the ring of `GenericBuffer` with the modular index arithmetic of
its macros; filling and working on an object happen outside any lock, between
`next...` and `done...`.  `Pipeline` is what it promises: a line of queues, one per
stage, that objects pass in order and unchanged.  `StagedBuffer` maps its ring to
such a line (`INSTANCE Pipeline WITH`, `RingIsPipeline`).

### Commander, Messages and FrameSource

`Commander` is Msender against the recorder's listener, processor and responder
over a network that may lose and repeat datagrams, with two runs at a time that
compete for a port.  SHT and EXT bring the recorder down some time after their answer
has been sent; INI and signals are left to `Control`.  `Messages` follows one command and its answer as sequences of
characters through packing, validation and reading on both sides, with small field
widths.  `FrameSource` has the generators of DataSource2 and its loop with the rate
governor, for any table size `-N` admits: with 0 it divides by zero (`noTable`), with 1
time tags are not whole.

`MCParts` runs all parts that need no composition (`Transfer`, `StagedBuffer`,
`Stokes`, `MCTimeSlots`, `FrameSource`, `Commander`, `Calendar`, `Messages`) in one
model: a behaviour is a behaviour of one of them.

Definitions whose comment says "Mutant of" are not part of a specification.  Each
is a plausible mistake in the definition that follows it, and with it in place the
property named beside it in `PROJECT.json` fails.

## The runs

Where a run checks a conjunction, the definition names its parts; each part has a
comment of its own in the module.

| Run | Instance | States | Shows |
|---|---|---|---|
| `ticket_buffer` | 2 tickets, 2 subscribers, geometries of 2 and 1 tickets, 3 posts, 1 extra reference | 215 thousand | `RefCountExact`, `Conservation`, `ResetQuiesced`, `GeometryAgrees`, `InOrder`, `NothingLeftBehind`; `TicketsReturn`: resets end and tickets come back |
| `receiver` | 3 tickets, 1 subscriber, modes DRX, TBS4 and TBS12, 1 post, 1 change of mode | 160 thousand | `FormatSound`: the frame size in force is the buffer's; `Follows`; `ReceiverStops` |
| `file_writer_limit` | 2 tickets, a writer and another subscriber, 3 posts, limit of 2 tickets | 436 thousand | `RecordingSound`: exact counts and stable data in a recording that ends by itself |
| `file_writer_stop` | the same, 1 post, stops and cancellations at any moment | 356 thousand | `WriterSettled`, `VerdictStands`; `StopTerminates` |
| `file_writer_double_put` | the same, 2 posts | | *violated*: a ticket is pooled while in use |
| `schedule` | 2 operations, all commands, 13 ms over two midnights | 4.1 million | `QueueSound`, `OneAtATime`, `CallbackProtocol`, `NeverEarly` |
| `schedule_live` | 2 recordings, STP and shutdown | 186 thousand | `ScheduleProgress`: recordings end, shutdown gets through |
| `schedule_crash` | REC and STP | | *violated*: the scheduler uses a null pointer |
| `control` | 2 internal and 1 external drive, 28 commands, 3 inputs (commands, signals, crashes), queues of 1 | 535 thousand | `DefaultDrive`, `FilesAccounted`, `LifeSound`; `ControlProgress` |
| `spectrometer` | 2 blocks, 2 tunings, 2 frames a cell, 21 feeds of 3 blocks: lost, swapped, late, shifted, retuned and bad frames | 132 thousand | `SpectraSound`, `SpectraFollow`; `ShutdownReturnsTickets`, `SpectrometerProgress` |
| `live_buffer` | 3 tickets, 2 captures, 4 deliveries, 2 frame sizes, 2 of 4 BUF commands | 423 thousand | `CapturesSound`, `CaptureIsContiguous`; `LiveBufferProgress` |
| `parts` | the bounds of `Parts.cfg` | 103 thousand | see below |

`parts` checks `TransferSound` (bytes copied once, in order, into the right chunk,
and all files given back), `RingImplements` (the refinement, and that nobody's object
changes while it is worked on), `SpectrumSound` (every accumulator equals the
definition of its products for a transform of 16 points on 4 threads, with 2
integrations), `SlotsAreIntervals` (all pairs of slots over three days of 5 ms, and each
slot against the stamp at which another begins),
`SourceSound` (time tags come whole and in order, the rate is kept), `VerdictSound`
(a PASS means the run read an answer to its own command, and SHT and EXT do not bring the
recorder down unannounced), `ClockSound`, `DatagramsUnderstood` and `PartsEnd` (a transfer and a
run of Msender end).

**Bounds.**  Two subscribers are enough for one to put a ticket while another has
not got it, and for the producer to flush one while the other drains; the two
geometries make the pool grow and shrink, and three posts exceed both.  References
never reach `RefMod`, so a count that wraps round shows as an error.  The receiver
has the three tickets its own check demands, a change between families and one
within TBS, whose widths one family shares.  In `schedule` two operations give one
current and one queued, or two queued of which the later may arrive first, with
every pair of kinds; an insertion in the middle would need a third.  The slots
touch, nearly touch, cross midnight and have no length.  In `control` three inputs
are, for example, DWN, UP and a command in between, or a command, a crash and its
repetition; commands of `MCRare` come first only, the others at any time.  Feeds have
12 frames, three blocks where two fit, so that the pool of blocks runs out; no frame
comes twice (see below).  Two captures and three tickets let one capture be sent
while the other fills and the pool runs dry.  The widths of `Messages` are such that
numbers and data fill a field, fit exactly, and overflow the buffer by one; a day number
that fills its field makes the command unreadable, which `CommandUnderstood` excepts by
name (`DayFills`).  The tables of `FrameSource` have 0 to 4 frames.

Deadlock is checked for the ticket buffer and the file writer.  The other systems
may really stop: they end, crash, or wait for an input whose bound is used up.

**Fairness.**  Threads run under a preemptive scheduler, so a step that stays
possible is taken: weak fairness for each thread's own steps.

- `TicketBuffer`: the producer inside the buffer's code (not its calls: it may block
  in `recvmmsg`) and each subscriber that has work.  The file writer has strong
  fairness because it competes for the list mutex with a producer that may lock it
  again and again.
- `Receiver`: its steps and the subscribers; strong fairness for receiving a batch
  of the sender's, or after `packetBurn` of empty packets, because the source
  streams without end and the socket is read between other batches.
- `Schedule`: the loop, the abort, the clock, a command begun, an operation's thread.
- `Control`: main, the storage and watch threads, processor, responder, operations.
- `Spectrometer`, `LiveBuffer`: both threads, the computing threads, the writer's
  `put`, delivery of what was received, and a stop that has begun.  That a thread can be
  created is not assumed, and a slave that cancels for ever has no step to be fair to.
- `Transfer` and `Commander`: the thread, each program and each recorder step; the
  network may still lose what it may lose.

Nothing makes MCS send a command, a subscriber start or stop, or an incomplete
capture give back its tickets.  `TicketsReturn` is therefore about tickets nobody
keeps by `reGet`, and `ResetWaitsForCapture` says that only a capture being filled
holds a reset up.  The `AbortEnds` part of `ScheduleProgress` is checked for recordings only, which their
`doCancel` makes done; `doAbort` never gets past a queued operation of another kind.

## Where code and documentation differ

Two runs show it; the findings in `PROJECT.json` quote the sentence.

1. `FileWriter::onTicketReceived` lacks a `return` after its first `put()`, so a
   ticket is pooled while it is in use (`file_writer_double_put`).
2. `doWait` uses the front of a queue that may have been emptied since `getState`
   (`schedule_crash`).

The modules state further sentences that the code does not keep.  They are not
among the runs; adding one to the cfg of the run named here shows a counterexample.

| Statement | Run | What the code does |
|---|---|---|
| `Schedule!NoTimeConflict` | `schedule_crash` | `isTimeSlotFree` and `insert` do not look at the operation in progress |
| `Schedule!StoppedIsHalted` | `schedule_live`, command TST | `TestOperation` overrides methods nobody calls, so cancelling it never makes it done |
| `MCTimeSlots!TooLateIsReported` | `parts` | `Time::compare` of slot and stamp compares with a slot that never ends |
| `Control!IniRestores` | `control`, as a PROPERTY | INI after DWN or a failed scan does not bring the drives back |
| `Control!BufferOutlivesRecordings` | `control` | `__shutdown` deletes the receive buffer before it aborts the schedule, whose recording still puts its tickets and unsubscribes there |
| `LiveBuffer!AssertionsHold` | `live_buffer` | a reclaimed capture trips `assert(_n == 0)`, or the buffers do not add up on stop |
| `Spectrometer!StalledFrameIsKept` | `spectrometer` | `getNextIn` moves on although the frame before stalled |
| `Spectrometer!FailedBlocksAreReturned` | `spectrometer`, as a PROPERTY | `run_slave` writes the errors of a failed block through `header` and zeroes `data`, both NULL since `initBlockSetup` |
| `Stokes!LengthIsSupported` | `parts`, with K = 48 | SPC accepts lengths that are no power of two, for which `freq ^ K/2` runs over the frame |
| `Calendar!StampIsExact` | `parts`, as a PROPERTY | day and milliseconds of a stamp are two reads; midnight between them makes it a day old |
| `FrameSource!OneFrameIsEnough` | `parts` | with `-N 1` both polarisations are the one frame, and the other modes never leave their first time tag |
| `FrameSource!SendsGenerated` | `parts` | in 8-bit mode `f_drx`, never set, is sent |
| `Commander!AcceptedIsTested` | `parts` | `-expectedAccepted` takes one character where the readme has a word |
| `Messages!BinaryStatusKept` | `parts` | the status beside a binary comment loses its last character |

Seen while modelling, each visible in the module it concerns:

- *Control*: REC checks the slot without padding and inserts it with; a boot without
  drives leaves storage "up"; STP of a queued CPY or DMP leaks its open files; SEL
  answers R whatever happened; REC is accepted while FMT runs; CPY's "existing files
  are overwritten" meets `O_EXCL`; a watch thread can be told to end before it
  raises its own running flag and then never ends (`Stuck`).
- *Commander*: invalid and misaddressed commands are dropped without a word; GET is
  answered twice; a reference number used again lets a late answer pass for the new
  one, so `PassIsMine` assumes distinct ones (`OwnReference`).
- *Spectrometer*: as many incomplete blocks in a row as there are blocks stall the
  input for good; when a thread but the first of a block cannot be created the slave
  cancels for ever and the stop hangs; a frame that comes twice is counted twice; when one tuning alone
  is retuned the block keeps the code it had.
- *LiveBuffer*: only the first chunk of a capture is sent.
- *Receiver*: a change of width within TBS is never followed; a changed DRX filter
  updates `newFormat` without a reset.

## What is proved

Every theorem holds for all values of the constants that satisfy the named
assumptions of its module.  `PROJECT.json` lists the results; the invariants behind
them were checked by TLC before they were proved.

**The buffer** (`TicketBufferProofs`), for every finite set of
tickets and subscribers, every set of geometries and all bounds.  Assumed: finite
sets, a null ticket that is no ticket, geometries that give at least one ticket and
at most as many as there are, a word wide enough for all references.

- `TypeCorrect`: `Spec => []TypeOK`.
- `EndedThreadsLeaveNothing`: `Spec => []NothingLeftBehind`, by the inductive
  invariant `ListInv`: list membership corresponds to the place in `run()`, and what
  the producer has still to visit is a suffix of the list, which nobody can change
  while it holds the mutex.
- `CountIsExact`, `TicketsAreConserved`, `ResetIsQuiesced`: the conjunction `RefInv`
  is inductive.  `RefCountExact` alone is not: that `put` decrements what it should
  rests on no subscriber having a ticket twice, which rests on a pooled ticket being
  nobody's, which rests on the count.  `RefInv` therefore carries, per ticket, the
  *set* of its users (`UsesOnce`), that `refCnt` is its size (`CountsUsers`), that the
  pool, the producer and the users partition the live tickets (`Pooled`), and that all
  is quiet from the end of `__invalidate` to the end of `__resize` (`Calm`).
- `GeometryIsKnown`: `Spec => []GeometryAgrees`, from `RefInv` and `GeomInv`.
- `PostsStayInOrder`: `Spec => []InOrder`.  `OrderInv` adds what ties a list to the
  producer: the ticket under delivery has the stamp `posted`, those who wait for it
  end at the post before, and a ticket in use keeps its stamp, which is `RefInv`
  again.

**The recording** (`FileWriterProofs`), on top of the buffer's invariants.

- `WriterSettledAlways`, `VerdictStandsAlways`: with any stop and cancellation, by
  `WriterInv`, which ties the writer's place in its hooks to its place in `run()`
  (`PlaceAgrees`) and to the stages of the operation (`LifeInv`).
- `RecordingRefinesBuffer`: `FWSpec => Spec` if nobody stops the recording
  (`~CanStop`).  Every step of the writer is one of a generic subscriber, or
  stutters.  With a stop it is false, as `file_writer_double_put` shows: one
  ticket is put twice.  The hypothesis is that of the run `file_writer_limit`.
- `RecordingSoundAlways`, from the refinement and the buffer's theorems, with
  `TakenInOrder` (what is queued comes after what is being written) and
  `BytesBounded`.

**The receiver** (`ReceiverProofs`).  `ReceiverRefinesBuffer`: `RxSpec => Spec`, so that
every theorem about the buffer is one about the receiver's buffer.
`FormatSoundAlways`: `RxSpec => []FormatSound`.  The invariant has to say what the code
leaves implicit: after a reset that failed `currentFormat` is *not* the buffer's, but
then the buffer is invalid and has no ticket to compare with (`RxGeometry`).

**Time and the scheduler.**

- `SlotsAreIntervalsAlways` (`ScheduleProofs`): comparison and padding of slots are
  those of intervals of the time line, and overlap is but for a slot that never ends,
  which overlaps everything; a stamp compares as early exactly when it is before the
  start of the slot, and never as late.  For every length of a day and every
  word, for slots that fit in a word with their padding (`SlotAssumption`, which the
  run has TLC evaluate).
- `QueueSoundAlways`, `OneAtATimeAlways`, `CallbackProtocolAlways` (`ScheduleProofs`):
  for any set of operations, commands and slots, and whatever sums wrap round.  The
  queue's order is inductive because `insert` puts an operation where both neighbours
  compare as before and after it, which needs that `compare` is transitive on padded
  slots even where their sums wrap.  `WorkInv` says which flags go with which thread
  and status, so that `doBusy` lets go of an operation only when it has ended.
- `NeverEarlyAlways` assumes `SaneTimes`: recordings, with their windows, and the clock
  keep clear of both ends of a word.  With 64-bit milliseconds any real date does;
  without it a wrapped `start - Window` makes a callback early.

`ScheduleProofs` extends `MCTimeSlots`, which states what the slots are measured
against; its assumption about the two slots of that run is used for
`SlotsAreIntervalsAlways` only.

**The process** (`ControlProofs`), for any drives, any set of commands, arriving at any
time and any number of times, and signals, restarts and crashes at any moment.
Assumed: drives have different numbers, a drive's number can be a volume name, and a
command has the fields of its type (`StorageAssumption`, `ControlAssumption`).
`CtlInv` is inductive, and each theorem takes its part of it.

- `ControlDefaultDrive`: `Spec => []DefaultDrive`.  That the cached pointer does not
  dangle is not inductive: going down and up deletes every object, so the pointer must be
  null by then.  `DefaultInv` says that a default is remembered only while storage is
  usable, that it is an internal drive of the scan in force, and that it is the selected
  one while names are unique.  `forgetDefault`, part of a DWN, is what keeps it.
- `ControlFilesAccounted`: `Spec => []FilesAccounted`.  A new output cannot be one of
  another operation because `O_EXCL` finds it on the drive (`PresentInv`), unless
  something removed it there: a format, which `wiped` records, or a deletion.  A
  deletion removes nobody's output (`DelInv`) because it is accepted only when nothing
  else is scheduled, and of the operations accepted so there is one at a time
  (`SoleInv`).  `PresentInv` and `DelInv` hold only while commands are handled: an INI
  that flushes empties the drive later, when no output is created any more.  `OwnerInv` ties
  a file to the command it was opened for, from which `TransferFilesReturned` follows:
  what the clean-up of a refused transfer or its operation did not return is in `leaked`.
- `ControlLifeSound`: `Spec => []LifeSound`.  `PhaseInv` lists what is left when each
  thread has ended, in the order of the shutdown; `AliveInv` says that without a DWN
  over operations each one that needs storage has it.

The attempt to prove `NoSharedOutput` without `wiped` failed for a good reason: the
statement was false, and held in the run only as long as the run's commands had no FMT
of an internal drive.  The command is now among them.

**The staged buffer** (`PartsProofs`).  `RingImplementsAlways`: for any number
of stages and objects the ring with its modular indices implements `Pipeline`
(`RingIsPipelineAlways`), a stage's object does not change while it is worked on,
and the stages are disjoint arcs.  The invariant `SbInv` measures every index by its
distance from the last one: distances do not increase from stage to stage, so an
arc's length is a difference and nothing depends on where the ring wraps.  `Held` of
`Pipeline`, a recursive function, equals the distance of the input index
(`HeldIsAhead`), by a least counterexample instead of induction.

**Copy and dump** (`PartsProofs`).  `TransferSoundAlways`: `TrSpec => []TransferSound`,
for any requests whose range lies in their file (`TransferAssumption`), any transfer
size and any value the counter `current_file` may begin with.  `TrInv` is inductive: the
files are taken in their order and one is open only while it is written (`ShapeInv`,
`PlaceInv`), the files joined are the range up to `curTagOffset` (`BytesInv`), what was
not put back is what is open or queued (`PutsInv`), and without an error or a stop
every file begun earlier has its size (`ProgressInv`).  `PlaceInv` also says that
nothing was taken or written while the pointer `extfile` is not set, which confines the
crash to a dump that never began a chunk.  That appending to the last file in use appends to
`FlattenSeq` of all (`FlattenGrows`) is again by a least counterexample.

**Msender** (`PartsProofs`).  `VerdictSoundAlways`: `CmSpec => []VerdictSound`, for any
number of runs with any command lines, any patience, and any number of lost and
repeated datagrams; `NoRun` is no run (`CommanderAssumption`).  `CmInv` adds who has the
port (`ClientInv`) and that every answer, queued or on its way, is to a command that was
acted on or refused for its length (`AnswerInv`): an answer read late, or the second
to a GET, is still an answer to that command, and the reference number tells whose.

**The live buffer** (`LiveBufferSteps`, which has the invariant and the steps of commands,
of the stream and of filling, and `LiveBufferProofs`, which has the others and the
theorems), for any number of tickets and captures, any
BUF commands, and deliveries, resets and a stop at any moment.  `LiveBufferAssumption`:
a ticket is delivered with frames in it, which `onTicketReceived` asserts, and a BUF
allows no more captures than the model has names for.  `LbInv` is inductive:

- *where*: until an assertion fails, a capture is in the one place its state names
  (`PlaceInv`), and `count_cap_buffs` is not below the captures there are (`CountInv`), so
  that there is a name for a new one.  The thread acquires a capture only while it has
  none (`ThreadInv`), and the triggers it will service are set.
- *what*: a capture refers to no ticket twice, its chunks are a chain, and while it is
  sent `commit` counts the references that were returned (`CaptureInv`).
- *next*: a ticket in the queue is in no capture, and the one in `onTicketReceived` is in
  the capture being filled only when nothing is left of it (`FreshInv`).  `FillInv` says
  that such a capture ends where the next frame of the stream begins.  A reset drops
  tickets from the queue and would break this; it only ends when no capture that is
  being filled has a chunk, because a chunk is a reference.
- *references*: `RefInv` counts them, one for each capture that holds the ticket.

`LbCapturesSound`: `LbSpec => []CapturesSound`.  `LbContiguous`: `LbSpec =>
[]CaptureIsContiguous`.  What `onUninit` returns equals what the captures hold because a
chain has no more chunks than tickets were delivered (`KeptHold`).  `CaptureInv` also has that a
free capture has `n > 0`: `takeFree` fails the assertion of `set_rule` whenever it is
reached (`TakeFreeKeeps`), not just in the run's instance.

Only model-checked: the modules without a theorem (`Spectrometer`, `FrameSource`,
`Calendar`, `Messages`); and every liveness property, since liveness under fairness is out of the
prover's reach.  What `Messages` computes with folds over character sequences would
need induction over data, which is too.  `Stokes` uses `Bitwise`, which a module with
theorems cannot.

## Plan

Theorems still worth having: `SpectraSound` and `SpectraFollow` of `Spectrometer`.

## Not modelled

- `SimpleRingBuffer`, `ParcelQueue`, `ParcelMemQueue`, `SimpleRecorder` and
  `BaseRecorder`: nothing that is built makes one.
- `SpectrogramViewer`: an offline program around a third-party gnuplot interface
  that reads a file and draws.
- Logging, shell commands, hardware reports and the wording of MIB entries: input
  and output without state of their own.  Of RPT, `Control` keeps that it looks up the
  default drive.
- The bytes of files, file attributes, formatting with parted and mkfs, the scripts
  of SYN, the test signals of DataSource2, the FFT.
- The single-instance lock of `main`, and a crash between truncating and writing the
  configuration file.
- Inside a step: a `realloc` in `__resize` that succeeds for one array and fails for
  the next, the bytes of a short `writev` (its count is modelled), and milliseconds of
  a REC that exceed a day.
- Two hazards in `PROJECT.json` have no property, since the code does not keep the
  one there would be: an overlap with the operation in progress (`NoTimeConflict`), and a
  thread of a block that cannot be created (`FailedBlocksAreReturned`).
