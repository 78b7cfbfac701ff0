---------------------------- MODULE Spectrometer ----------------------------
(***************************************************************************)
(* DrxSpectrometer and the Plugin it is built on, the block bookkeeping of *)
(* Spectrometer, and the SpectrometerOperation that runs and stops them.   *)
(*                                                                         *)
(* The master thread takes frames from the tickets of the receive buffer   *)
(* and unpacks each into the block of its time interval.  A block that has *)
(* all its frames is handed to the slave thread, which has it transformed  *)
(* into a frame of an output ticket.  Blocks wander between five lists:    *)
(* free, filling, startable, computing and dropped.                        *)
(*                                                                         *)
(* Every list but filling is an ObjectBuffer with one producer and one     *)
(* consumer (module StagedBuffer), so an operation on it is one step.      *)
(* Samples are not represented: a block records which frames it was given. *)
(***************************************************************************)
EXTENDS Naturals, Sequences, SequencesExt, FiniteSetsExt

CONSTANTS
  Nb,             \* blocks
  FramesPerCell,  \* inputFramesPerCell: K * L / DRX_SAMPLES_PER_FRAME
  Samples,        \* DRX_SAMPLES_PER_FRAME
  Tuning, Pol,
  Format,         \* "drx" and "drx8": what the frames of the run may be
  Feeds,          \* the sequences of tickets the source may deliver
  OutTickets,     \* tickets of the output buffer
  OutFrames,      \* cnt_alloc of an output ticket
  Unset           \* FREQ_CODE_UNINITIALIZED

ASSUME SpectrometerAssumption ==
  /\ {Nb, FramesPerCell, Samples, OutTickets, OutFrames} \subseteq Nat \ {0}
  /\ Format \subseteq {"drx", "drx8"}

VARIABLES
  fmt,        \* the format of the frames
  feed,       \* tickets the source has still to deliver
  tickets,    \* queue of the QueuedSubscriber
  in,         \* the TicketTracker of the input: t, next, done
  curFrame,   \* whether run_master's curFrame is not NULL
  bs,         \* the DrxBlockSetup of every block
  free, filling, startable, computing, dropped,
  last,       \* lastFilledBlockSetup, or Unset when it is not good
  minTimeTag,
  bInfo,      \* per block "idle", "running", "done" or "error"
  out,        \* the TicketTracker of the output
  outFree,    \* free tickets of the output buffer
  written,    \* spectra of the tickets that were passed on
  pending,    \* spectra finished in the current output ticket
  master, slave,       \* program counters; "crashed" takes the recorder down
  flags,      \* those of doneReceiving, doneProducing, interrupted that are set
  op          \* how far SpectrometerOperation is

inVars    == <<feed, tickets, in, curFrame>>
blockVars == <<bs, free, filling, startable, computing, dropped, last, minTimeTag, bInfo>>
outVars   == <<out, outFree, written, pending>>
spVars    == <<fmt, inVars, blockVars, outVars, master, slave, flags, op>>

Block    == 1 .. Nb
Cell     == Tuning \X Pol
PerBlock == FramesPerCell * Cardinality(Cell)
NoTicket == [t |-> <<>>, next |-> 0, done |-> 0]
NoBlock  == [state |-> "UNUSED", tag0 |-> 0, tagN |-> 0, phase |-> 0,
             freq |-> [t \in Tuning |-> Unset], got |-> <<>>]
ComputeMax == 2   \* MAX_SIMULTANEOUS_BLOCKS_PROCESSING + 1

SpInit ==
  /\ fmt \in Format
  /\ feed \in Feeds
  /\ tickets = <<>> /\ in = NoTicket /\ curFrame = FALSE
  /\ bs = [b \in Block |-> NoBlock]
  /\ free = [i \in Block |-> i]
  /\ filling = <<>> /\ startable = <<>> /\ computing = <<>> /\ dropped = <<>>
  /\ last = Unset /\ minTimeTag = 0
  /\ bInfo = [b \in Block |-> "idle"]
  /\ out = NoTicket /\ outFree = OutTickets /\ written = <<>> /\ pending = <<>>
  /\ master = "run" /\ slave = "start" /\ flags = {}
  /\ op = "scheduled"

Alive     == master # "crashed" /\ slave # "crashed"
Runs      == Alive /\ op \notin {"scheduled", "gone"}
HaveInput == in.t # <<>>

-----------------------------------------------------------------------------
(* Plugin, input side: tickets and their frames.                           *)

\* TicketBuffer delivers a ticket: QueuedSubscriber::onTicketAvailable.
deliver ==
  /\ Runs /\ feed # <<>>
  /\ tickets' = Append(tickets, Head(feed))
  /\ feed' = Tail(feed)
  /\ UNCHANGED <<fmt, in, curFrame, blockVars, outVars, master, slave, flags, op>>

\* The tracker and the queue once peekNextIn or getNextIn made sure that
\* there is a current ticket; empty tickets are put back at once.
Tracked ==
  LET waiting == SelectSeq(tickets, LAMBDA t : t # <<>>)
  IN  IF HaveInput THEN [in |-> in, tickets |-> tickets]
      ELSE IF waiting = <<>> THEN [in |-> NoTicket, tickets |-> <<>>]
      ELSE [in |-> [t |-> Head(waiting), next |-> 0, done |-> 0],
            tickets |-> Tail(waiting)]

\* getNextIn has a frame to return when its ticket is not used up.
HasNext(tr) == tr.t # <<>> /\ tr.next < Len(tr.t)

\* Plugin::doneIn: the ticket is put back when all its frames are done or,
\* with release, when the ones taken are.
doneInKeep(tr, release) ==
  IF tr.t = <<>> \/ tr.done >= tr.next THEN tr
  ELSE IF release /\ tr.done + 1 = tr.next THEN NoTicket
  ELSE [tr EXCEPT !.done = @ + 1]

doneIn(tr, release) ==
  IF tr.t = <<>> \/ tr.done >= tr.next THEN tr
  ELSE IF tr.done + 1 = Len(tr.t) \/ (release /\ tr.done + 1 = tr.next) THEN NoTicket
  ELSE [tr EXCEPT !.done = @ + 1]

-----------------------------------------------------------------------------
(* The master thread: frames into blocks.                                  *)

frameIsLegal(f) == f.tag # 0 /\ f.tun \in Tuning

Step         == Samples             \* timeTagStep, for a decFactor of 1
stepPhase(f) == f.tag % Step

compare(f, b) == CASE f.tag < bs[b].tag0 -> "before"
                   [] f.tag > bs[b].tagN -> "after"
                   [] OTHER              -> "in"

Match(f, setup) == setup.freq[f.tun] \in {f.freq, Unset} /\ setup.phase = stepPhase(f)
blockMatch(f, b) == Match(f, bs[b])

Span == Step * (FramesPerCell - 1)

\* initBlockSetup: a block takes over the setup of its predecessor, and its
\* interval is a whole number of blocks away from the predecessor's; without
\* one it begins with the frame.
initBlockFresh(f, pred) ==
  [NoBlock EXCEPT !.state = "FILLING", !.tag0 = f.tag, !.tagN = f.tag + Span,
                  !.phase = stepPhase(f), !.freq[f.tun] = f.freq]

initBlockSetup(f, pred) ==
  IF pred = Unset THEN
    [NoBlock EXCEPT !.state = "FILLING", !.tag0 = f.tag, !.tagN = f.tag + Span,
                    !.phase = stepPhase(f), !.freq[f.tun] = f.freq]
  ELSE LET blocksOn == ((f.tag - pred.tag0) \div Step) \div FramesPerCell
           first    == pred.tag0 + blocksOn * FramesPerCell * Step
       IN  [pred EXCEPT !.state = "FILLING", !.tag0 = first, !.tagN = first + Span,
                        !.got = <<>>]

\* unpack: the frame goes to its place in its cell.
unpack(f, setup) ==
  [setup EXCEPT !.freq[f.tun] = IF @ = Unset THEN f.freq ELSE @,
                !.got = Append(@, [cell |-> <<f.tun, f.pol>>, pos |-> (f.tag - setup.tag0) \div Step])]

FullEarly(setup) == Len(setup.got) >= PerBlock - 1
Full(setup)      == Len(setup.got) = PerBlock

nextTimeTagNone(setup)       == 0
nextTimeTagAfterBlock(setup) == setup.tagN + FramesPerCell

\* The frame completes block filling[i]: the blocks before it are dropped.
startableAt(i, full) ==
  LET b       == filling[i]
      flushed == SubSeq(filling, 1, i - 1)
  IN  /\ dropped' = dropped \o flushed
      /\ minTimeTag' = nextTimeTagAfterBlock(full)
      /\ last' = IF Len(filling) = 1 THEN full ELSE last
      /\ startable' = Append(startable, b)
      /\ filling' = SubSeq(filling, i + 1, Len(filling))
      /\ bs' = [c \in Block |-> IF c = b THEN [full EXCEPT !.state = "STARTABLE"]
                                ELSE IF c \in Range(flushed) THEN [bs[c] EXCEPT !.state = "DROPPED"]
                                ELSE bs[c]]
      /\ UNCHANGED <<free, computing, bInfo>>

\* The first filling block that does not end before the frame, if any.
NotBefore(f)  == {i \in 1 .. Len(filling) : compare(f, filling[i]) # "after"}
Landing(f)    == Min(NotBefore(f))
Compatible(f) == {i \in 1 .. Len(filling) : blockMatch(f, filling[i])}

Dropped(f) ==
  \/ f.tag < minTimeTag
  \/ /\ NotBefore(f) # {}
     /\ compare(f, filling[Landing(f)]) = "before" \/ Landing(f) \notin Compatible(f)

Stalls(f) ==
  /\ f.tag >= minTimeTag
  /\ IF NotBefore(f) = {} THEN free = <<>>
     ELSE ~Dropped(f) /\ Len(startable) > Nb

insertExisting(f) ==
  LET i == Landing(f)
      u == unpack(f, bs[filling[i]])
  IN  /\ NotBefore(f) # {} /\ ~Dropped(f) /\ ~Stalls(f)
      /\ IF Full(u) THEN startableAt(i, u)
         ELSE /\ bs' = [bs EXCEPT ![filling[i]] = u]
              /\ UNCHANGED <<free, filling, startable, computing, dropped, last, minTimeTag, bInfo>>

insertNew(f) ==
  LET b    == Head(free)
      pred == IF Compatible(f) # {} THEN bs[filling[Max(Compatible(f))]]
              ELSE IF last # Unset /\ Match(f, last) THEN last
              ELSE Unset
  IN  /\ NotBefore(f) = {} /\ ~Dropped(f) /\ ~Stalls(f)
      /\ bs' = [bs EXCEPT ![b] = unpack(f, initBlockSetup(f, pred))]
      /\ last' = Unset
      /\ filling' = Append(filling, b)
      /\ free' = Tail(free)
      /\ UNCHANGED <<startable, computing, dropped, minTimeTag, bInfo>>

\* One turn of run_master's loop that finds a frame.  getNextIn takes the
\* next frame of the ticket, also when the frame before it stalled.  With
\* the 8-bit format curFrame keeps the frame that was first peeked at.
Looks == Runs /\ master = "run" /\ "interrupted" \notin flags
Left  == "doneReceiving" \in flags

\* The end of a turn: a thread that is told to leave is done with curFrame.
endTurn(tr, keeps) ==
  /\ in' = IF Left /\ keeps THEN doneIn(tr, TRUE) ELSE tr
  /\ curFrame' = (keeps /\ ~Left)
  /\ master' = IF Left THEN "stopped" ELSE "run"

handleFrame ==
  LET tr    == Tracked.in
      f     == tr.t[tr.next + 1]
      taken == [tr EXCEPT !.next = @ + 1]
  IN  /\ Looks /\ (curFrame \/ ~Left) /\ HasNext(tr)
      /\ tickets' = Tracked.tickets
      /\ \/ /\ ~frameIsLegal(f) \/ Dropped(f)
            /\ endTurn(doneIn(taken, Left), fmt = "drx8")
            /\ UNCHANGED blockVars
         \/ /\ frameIsLegal(f)
            /\ insertExisting(f) \/ insertNew(f)
            /\ endTurn(doneIn(taken, Left), fmt = "drx8")
         \/ /\ frameIsLegal(f) /\ Stalls(f)
            /\ endTurn(taken, TRUE)
            /\ UNCHANGED blockVars
      /\ UNCHANGED <<fmt, feed, outVars, slave, flags, op>>

\* A turn for which the ticket has no frame left while curFrame is still
\* set: the result of getNextIn is used unchecked, except for 8-bit frames.
noFrame ==
  /\ Looks /\ (curFrame \/ ~Left) /\ ~HasNext(Tracked.in)
  /\ tickets' = Tracked.tickets
  /\ IF curFrame /\ fmt = "drx"
     THEN master' = "crashed" /\ in' = Tracked.in /\ UNCHANGED curFrame
     ELSE endTurn(Tracked.in, curFrame)
  /\ UNCHANGED <<fmt, feed, blockVars, outVars, slave, flags, op>>

leaveMaster ==
  /\ Looks /\ Left /\ ~curFrame
  /\ master' = "stopped"
  /\ UNCHANGED <<fmt, inVars, blockVars, outVars, slave, flags, op>>

masterAborted ==
  /\ Runs /\ master = "run" /\ "interrupted" \in flags
  /\ master' = "stopped"
  /\ UNCHANGED <<fmt, inVars, blockVars, outVars, slave, flags, op>>

-----------------------------------------------------------------------------
(* The slave thread: full blocks into spectra.                             *)

Producing == "doneProducing" \notin flags

slaveStops ==
  /\ Runs /\ slave = "start"
  /\ computing = <<>> /\ ("interrupted" \in flags \/ ~Producing)
  /\ slave' = "stopped"
  /\ UNCHANGED <<fmt, inVars, blockVars, outVars, master, flags, op>>

\* Plugin::getNextOut: a frame of the current output ticket or of a new one.
CanGetOut == IF out = NoTicket THEN outFree > 0 ELSE out.next < OutFrames

\* The head of one queue of blocks to the tail of another.
canMove(from, room) == from # <<>> /\ room > 0
doMove(from, to)    == from' = Tail(from) /\ to' = Append(to, Head(from))

\* Spectrometer::startBlock makes a thread for every cell.  When the first
\* one cannot be made the block is an error, if cancelling a thread that does
\* not exist is survived.  When a later one cannot be made, its cancelling is
\* repeated while i # 0, and nothing changes i.
threadsMade(b)  == bInfo' = [bInfo EXCEPT ![b] = "running"]
firstFailed(b)  == bInfo' = [bInfo EXCEPT ![b] = "error"]
CreatingForEver == IF Cardinality(Cell) > 1 THEN {"spinning", "crashed"} ELSE {"crashed"}

\* First third of a turn of run_slave: start a block, in a frame taken from
\* the output ticket.
startBlock ==
  /\ Runs /\ slave = "start"
  /\ computing # <<>> \/ ("interrupted" \notin flags /\ Producing)
  /\ IF canMove(startable, ComputeMax - Len(computing)) /\ Producing /\ CanGetOut
     THEN LET b == Head(startable)
          IN  /\ out' = [t |-> <<"out">>, next |-> out.next + 1, done |-> out.done]
              /\ outFree' = IF out = NoTicket THEN outFree - 1 ELSE outFree
              /\ \/ /\ threadsMade(b) \/ firstFailed(b)
                    /\ bs' = [bs EXCEPT ![b].state = "PROCESSING"]
                    /\ doMove(startable, computing)
                    /\ slave' = "check"
                 \/ /\ slave' \in CreatingForEver
                    /\ UNCHANGED <<bInfo, bs, startable, computing>>
     ELSE slave' = "check" /\ UNCHANGED <<bInfo, bs, startable, computing, out, outFree>>
  /\ UNCHANGED <<fmt, inVars, free, filling, dropped, last, minTimeTag, written, pending,
                 master, flags, op>>

\* The FFT threads of a block meet at their two barriers; the last sets done.
doFft(b) ==
  /\ Runs /\ bInfo[b] = "running"
  /\ bInfo' = [bInfo EXCEPT ![b] = "done"]
  /\ UNCHANGED <<fmt, inVars, bs, free, filling, startable, computing, dropped, last, minTimeTag,
                 outVars, master, slave, flags, op>>

\* Plugin::doneOut: passed on to the subscribers when it is full or, with
\* release, when no frame of it is in the making.
Spectrum(b)  == [tag0 |-> bs[b].tag0, tagN |-> bs[b].tagN, freq |-> bs[b].freq,
                 phase |-> bs[b].phase, got |-> bs[b].got]
WriterIsUp   == op = "up"

doneOutHold(b) ==
  /\ out' = [out EXCEPT !.done = @ + 1]
  /\ pending' = Append(pending, Spectrum(b))
  /\ UNCHANGED <<written, outFree>>

doneOut(b) ==
  LET ready == out.done + 1 = OutFrames \/ (~Producing /\ out.done + 1 = out.next)
  IN  IF ready
      THEN /\ out' = NoTicket
           /\ pending' = <<>>
           /\ written' = IF WriterIsUp THEN written \o Append(pending, Spectrum(b)) ELSE written
           /\ outFree' = IF WriterIsUp THEN outFree ELSE outFree + 1
      ELSE /\ out' = [out EXCEPT !.done = @ + 1]
           /\ pending' = Append(pending, Spectrum(b))
           /\ UNCHANGED <<written, outFree>>

resetBlockSetup(b) == bs' = [bs EXCEPT ![b] = NoBlock]

isDoneOrError(b) == bInfo[b] \in {"done", "error"}

\* Spectrometer::waitBlock and resetBlock: its threads are joined and its
\* cells are empty.
resetBlock(b) == bInfo' = [bInfo EXCEPT ![b] = "idle"]

OldestDone == computing # <<>> /\ isDoneOrError(Head(computing))

\* Second third: the oldest computing block, when it is done.
finishBlock ==
  /\ Runs /\ slave = "check"
  /\ ~(OldestDone /\ bInfo[Head(computing)] = "error")
  /\ slave' = "clean"
  /\ IF OldestDone
     THEN LET b == Head(computing)
          IN  /\ doneOut(b)
              /\ resetBlockSetup(b)
              /\ resetBlock(b)
              /\ doMove(computing, free)
     ELSE UNCHANGED <<outVars, bs, bInfo, computing, free>>
  /\ UNCHANGED <<fmt, inVars, filling, startable, dropped, last, minTimeTag, master, flags, op>>

\* A block that is an error has its errors written to its header and its
\* data zeroed, but header and data of a block are never set.
finishError ==
  /\ Runs /\ slave = "check"
  /\ OldestDone /\ bInfo[Head(computing)] = "error"
  /\ slave' = "crashed"
  /\ UNCHANGED <<fmt, inVars, blockVars, outVars, master, flags, op>>

\* Last third: one of the dropped blocks is recycled.
recycleKeep ==
  /\ dropped' = Tail(dropped)
  /\ UNCHANGED <<bs, free>>

recycle == resetBlockSetup(Head(dropped)) /\ doMove(dropped, free)

cleanDropped ==
  /\ Runs /\ slave = "clean"
  /\ slave' = "start"
  /\ IF dropped # <<>> THEN recycle ELSE UNCHANGED <<bs, dropped, free>>
  /\ UNCHANGED <<fmt, inVars, filling, startable, computing, last, minTimeTag, bInfo, outVars,
                 master, flags, op>>

\* The writer puts an output ticket back.
writerPuts ==
  /\ Runs
  /\ outFree + (IF out = NoTicket THEN 0 ELSE 1) < OutTickets
  /\ outFree' = outFree + 1
  /\ UNCHANGED <<fmt, inVars, blockVars, out, written, pending, master, slave, flags, op>>

-----------------------------------------------------------------------------
(* SpectrometerOperation: doWindowStart, and doShutdown with doCancel,     *)
(* doExecutionStop and doWindowStop.  The half-second sleeps between its   *)
(* steps do not wait for anything.                                         *)

\* The plugin and the writer are made and started, or one cannot be made
\* and the operation is done.
doWindowStart ==
  /\ op = "scheduled"
  /\ op' \in {"up", "gone"}
  /\ UNCHANGED <<fmt, inVars, blockVars, outVars, master, slave, flags>>

\* STP before the window: nothing is up that would have to be stopped.
cancelQueued ==
  /\ op = "scheduled"
  /\ op' = "gone"
  /\ UNCHANGED <<fmt, inVars, blockVars, outVars, master, slave, flags>>

stopWriter ==
  /\ Runs /\ op = "up"
  /\ op' = "writerStopped"
  /\ UNCHANGED <<fmt, inVars, blockVars, outVars, master, slave, flags>>

stopReceiving ==
  /\ Runs /\ op = "writerStopped"
  /\ flags' = flags \cup {"doneReceiving"} /\ op' = "receivingStopped"
  /\ UNCHANGED <<fmt, inVars, blockVars, outVars, master, slave>>

stopProducing ==
  /\ Runs /\ op = "receivingStopped"
  /\ flags' = flags \cup {"doneProducing"} /\ op' = "producingStopped"
  /\ UNCHANGED <<fmt, inVars, blockVars, outVars, master, slave>>

doAbort ==
  /\ Runs /\ op = "producingStopped"
  /\ flags' = IF master = "stopped" /\ slave = "stopped" THEN flags
              ELSE flags \cup {"interrupted"}
  /\ op' = "joining"
  /\ UNCHANGED <<fmt, inVars, blockVars, outVars, master, slave>>

\* Plugin::stop and onReset, once both threads are joined: the tickets of
\* either side go back to where they came from.
returnTicketsOut ==
  /\ out' = NoTicket /\ pending' = <<>>
  /\ outFree' = IF out = NoTicket THEN outFree ELSE outFree + 1
  /\ tickets' = <<>>
  /\ UNCHANGED in

returnTickets ==
  /\ in' = NoTicket /\ tickets' = <<>>
  /\ out' = NoTicket /\ pending' = <<>>
  /\ outFree' = IF out = NoTicket THEN outFree ELSE outFree + 1

stopPlugin ==
  /\ Runs /\ op = "joining" /\ master = "stopped" /\ slave = "stopped"
  /\ returnTickets
  /\ op' = "gone"
  /\ UNCHANGED <<fmt, feed, curFrame, blockVars, written, master, slave, flags>>

Master == handleFrame \/ noFrame \/ leaveMaster \/ masterAborted
Slave  == slaveStops \/ startBlock \/ finishBlock \/ finishError \/ cleanDropped
Stop   == stopReceiving \/ stopProducing \/ doAbort \/ stopPlugin

SpNext ==
  \/ deliver \/ Master \/ Slave \/ writerPuts
  \/ \E b \in Block : doFft(b)
  \/ doWindowStart \/ cancelQueued \/ stopWriter \/ Stop

\* Both threads are busy loops and the computing threads never block for
\* good.  The tickets that were received are delivered, and an operation that
\* has begun its shutdown goes through with it; that one begins is not
\* assumed.  Nothing is assumed of the creation of threads: it may fail at any
\* block, and a slave that cancels for ever has no step to be fair to.
SpFairness ==
  /\ WF_spVars(deliver) /\ WF_spVars(Master) /\ WF_spVars(Slave) /\ WF_spVars(writerPuts)
  /\ \A b \in Block : WF_spVars(doFft(b))
  /\ WF_spVars(Stop)

SpSpec == SpInit /\ [][SpNext]_spVars /\ SpFairness

-----------------------------------------------------------------------------
(* Properties.                                                             *)

Lists == <<free, filling, startable, computing, dropped>>

\* Every block is in exactly one list and in the state that list stands for;
\* a free block holds nothing, which insert and initBlockSetup assert.
SpTypeOK ==
  /\ \A b \in Block :
       LET at == {i \in 1 .. 5 : b \in Range(Lists[i])}
       IN  Cardinality(at) = 1
  /\ \A i \in 1 .. 5 : IsInjective(Lists[i])
  /\ \A b \in Range(free) : bs[b] = NoBlock /\ bInfo[b] = "idle"
  /\ \A b \in Range(filling)   : bs[b].state = "FILLING"   /\ ~Full(bs[b])
  /\ \A b \in Range(startable) : bs[b].state = "STARTABLE" /\ Full(bs[b])
  /\ \A b \in Range(computing) : bs[b].state = "PROCESSING"
  /\ in.done <= in.next /\ in.next <= Len(in.t)
  /\ outFree \in 0 .. OutTickets

\* The spectra that leave the plugin, in the order they leave, cover
\* disjoint intervals that follow each other.
SpectraInOrder ==
  LET all == written \o pending
  IN  \A i, j \in 1 .. Len(all) : i < j => all[i].tagN < all[j].tag0

\* No spectrum is made of a block that lacks a frame, and each of its cells
\* has every position once.  A block is counted full by the number of its
\* frames, so this is said of feeds in which no frame comes twice.
SpectraWhole ==
  \A i \in 1 .. Len(written) :
    LET s == written[i]
    IN  {s.got[k] : k \in 1 .. Len(s.got)} = [cell : Cell, pos : 0 .. FramesPerCell - 1]

\* A spectrum takes a whole number of blocks' time after the one before it
\* as long as the setup of the beam does not change.
SpectraAligned ==
  \A i \in 2 .. Len(written) :
    written[i].freq = written[i - 1].freq /\ written[i].phase = written[i - 1].phase =>
      (written[i].tag0 - written[i - 1].tag0) % (Step * FramesPerCell) = 0

\* Blocks are in one list each, and what they become is whole.
SpectraSound == SpTypeOK /\ SpectraWhole

\* Spectra follow each other on the time line, in the raster of the blocks.
SpectraFollow == SpectraInOrder /\ SpectraAligned

\* A frame that stalls is kept until it can be inserted: insert takes no
\* action on it, and the next frame waits.
StalledFrameIsKept == Alive /\ in.next - in.done <= 1

\* Two ends of the program that the code reaches when it cannot make a thread
\* or a frame is missing (noFrame): the recorder is down, or the slave cancels
\* for ever.  What follows is claimed where it does neither, or as far as it
\* holds nonetheless; FailedBlocksAreReturned says what should be.
Working == Alive /\ slave # "spinning"

\* The operation that has begun its shutdown ends, with all tickets returned
\* to both buffers.  Plugin::stop joins a slave that cancels for ever in vain.
ShutdownReturnsTickets ==
  op \notin {"scheduled", "up"} ~>
    (~Working \/ (op = "gone" /\ in = NoTicket /\ tickets = <<>> /\ out = NoTicket))

\* Only a frame that finds no free block holds up the tickets behind it; while
\* the slave cancels for ever they are taken until the stop that hangs.
InputIsConsumed ==
  tickets # <<>> ~> \/ tickets = <<>> \/ in.next > in.done
                    \/ ~Alive \/ (~Working /\ master = "stopped")

\* A block that has all its frames is computed while the writer takes what
\* the plugin has for it.
FullBlocksAreComputed ==
  \A b \in Block : b \in Range(startable) ~> (b \in Range(computing) \/ ~WriterIsUp \/ ~Working)

\* What the code means to do with a block whose threads could not be made:
\* its spectrum is passed on with its errors set and the block is free again.
\* It does not hold: finishError.
FailedBlocksAreReturned ==
  \A b \in Block : (b \in Range(computing) /\ bInfo[b] = "error") ~>
                     (b \in Range(free) \/ master = "crashed")

\* Data move on: tickets are consumed and full blocks computed.
SpectrometerProgress == InputIsConsumed /\ FullBlocksAreComputed
=============================================================================
