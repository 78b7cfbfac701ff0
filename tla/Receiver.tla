------------------------------ MODULE Receiver ------------------------------
(***************************************************************************)
(* The receiver thread (Actors/Receiver.h), the producer of the ticket     *)
(* buffer, with the formats it tells apart (Data/DataFormat.cpp).          *)
(*                                                                         *)
(* It fills a ticket with a batch of packets.  A batch whose packets all   *)
(* have the frame size of the current format is posted; any other packet   *)
(* makes it look closer, vote on the new format and reset the buffer to    *)
(* it.  What it finds out about a batch is local to the thread, so the     *)
(* inspection and the call that it leads to are one step.                  *)
(*                                                                         *)
(* The sender switches between modes; packets of the old mode come before  *)
(* those of the new one.  System stops the thread by doAbort() and then    *)
(* packetBurn(), which fills the socket with empty packets.                *)
(***************************************************************************)
EXTENDS TicketBuffer

CONSTANTS
  Mode,          \* what is sent: packet types, the widths of TBS told apart
  FrameSize,     \* [Mode -> Nat], the length of a packet
  DefaultMode,   \* DataFormat::defaultFormatName
  NoMode,        \* no winner of the vote
  BufSize,       \* INITIAL_BUFFER_SIZE
  TransferSize,  \* IDEAL_TRANSFER_SIZE
  MaxSwitch      \* bound: changes of mode in one behaviour

\* An empty packet, and one of a length no format has.
Empty   == "empty"
Oddball == "oddball"

VARIABLES
  rx,            \* where run() is
  currentFormat, \* the mode whose frame size a packet must have
  newFormat,     \* the mode to reset to
  interrupted,   \* isInterrupted(), raised by doAbort()
  externallyClosed,
  link, old,     \* the mode that is sent, the one before it
  switches       \* how often it has changed

rxVars  == <<rx, currentFormat, newFormat>>
envVars == <<interrupted, externallyClosed, link, old, switches>>
rvars   == <<vars, rxVars, envVars>>

\* The families of the vote (IDX_...): TBS of any width is one.
Family(m) == IF m \in {"TBS4", "TBS8", "TBS12"} THEN "TBS" ELSE m

\* Mutant of Candidates: the loop ends before the DRX counts.
CandidatesShort == <<Empty, "TBS", "TBT", "COR">>

\* In the order of the loop that finds the winner; oddballs do not stand.
Candidates == <<Empty, "TBS", "TBT", "COR", "DRX", "DRX8">>

GeomOf(m) == [size |-> BufSize, framesize |-> FrameSize[m],
              framesPerTicket |-> TransferSize \div FrameSize[m]]

\* What __doReset asks of the new dimensions before it touches the buffer.
acceptable(m) ==
  /\ FrameSize[m] > 0 /\ BufSize > 0 /\ TransferSize > 0
  /\ TransferSize <= BufSize
  /\ BufSize \div ((TransferSize \div FrameSize[m]) * FrameSize[m]) >= 3

\* INITIAL_BUFFER_SIZE and IDEAL_TRANSFER_SIZE suit every known format.
ASSUME FormatAssumption ==
  /\ DefaultMode \in Mode
  /\ NoMode \notin Mode
  /\ \A m \in Mode : acceptable(m) /\ GeomOf(m) \in Geom
  /\ MaxSwitch \in Nat

-----------------------------------------------------------------------------
(* Looking at a batch.                                                     *)

msg_len(p) == IF p \in Mode THEN FrameSize[p] ELSE IF p = Empty THEN 0 ELSE -1

allFit(b) == \A i \in DOMAIN b : msg_len(b[i]) = FrameSize[currentFormat]

votes(b, f) == {i \in DOMAIN b : Family(b[i]) = f}

\* The family with the most packets other than that of the ticket, the first
\* in the list of those with as many; NoMode if there is none.
winner(b) ==
  LET n(j)  == IF Candidates[j] = Family(currentFormat) THEN 0
                 ELSE Cardinality(votes(b, Candidates[j]))
      J     == DOMAIN Candidates
      W     == {j \in J : n(j) > 0 /\ \A k \in J : /\ n(k) <= n(j)
                                                   /\ n(k) = n(j) => j <= k}
  IN  IF W = {} THEN NoMode ELSE Candidates[CHOOSE j \in W : TRUE]

\* The last packet of the winning family says which format it is.
lastSeen(b, f) == b[CHOOSE i \in votes(b, f) : \A j \in votes(b, f) : j <= i]

\* What a batch leads to: post it, drop it, or change the format.
Fits(b)    == allFit(b)
Dropped(b) == ~allFit(b) /\ winner(b) \in {NoMode, Empty}
Changes(b) == ~allFit(b) /\ winner(b) \notin {NoMode, Empty}

-----------------------------------------------------------------------------
(* The thread.  A step of its own needs the buffer to have returned.       *)

At(p) == rx = p /\ phase = "idle"

\* __doReset: the buffer's reset() ...
doReset(from, to) ==
  /\ At(from)
  /\ invalidate(GeomOf(newFormat))
  /\ rx' = to
  /\ UNCHANGED <<currentFormat, newFormat, envVars>>

\* Mutant of resetDone: the receiver goes on with the old format.
resetDoneOld(from) ==
  /\ At(from)
  /\ UNCHANGED <<vars, currentFormat, newFormat, envVars>>

\* ... and what follows it, whether it succeeded or not.
resetDone(from) ==
  /\ At(from)
  /\ currentFormat' = newFormat
  /\ UNCHANGED <<vars, newFormat, envVars>>

\* initialize(): reset to the default format, then open the socket.
initialize == doReset("new", "opening")

openSocket == resetDone("opening") /\ rx' \in {"loop", "abort"}

\* The head of the loop.
loopHead ==
  /\ At("loop")
  /\ rx' = IF interrupted \/ externallyClosed THEN "final" ELSE "ticket"
  /\ UNCHANGED <<vars, currentFormat, newFormat, envVars>>

\* Spin for a ticket, giving up only when interrupted.
getTicket ==
  /\ rx = "ticket"
  /\ nextFreeTicket
  /\ rx' = "recv"
  /\ UNCHANGED <<currentFormat, newFormat, envVars>>

\* Mutant of giveUp: a buffer without memory is not noticed.
giveUpEmpty ==
  /\ At("ticket")
  /\ ~invalid /\ freeTickets = <<>>
  /\ interrupted
  /\ rx' = "abort"
  /\ UNCHANGED <<vars, currentFormat, newFormat, envVars>>

giveUp ==
  /\ At("ticket")
  /\ invalid \/ freeTickets = <<>>
  /\ interrupted
  /\ rx' = "abort"
  /\ UNCHANGED <<vars, currentFormat, newFormat, envVars>>

\* recvmmsg is interrupted, times out or fails.
recvNothing ==
  /\ rx = "recv"
  /\ returnEmpty
  /\ rx' \in {"loop", "abort"}
  /\ UNCHANGED <<currentFormat, newFormat, envVars>>

\* The batches recvmmsg may return: what is left of the old mode, then the
\* new mode; a stray packet last; empty ones once packetBurn() sends them.
\* Every header names a mode: setNewFmtDrx() and setNewFmtTbs() never refuse.
Batch ==
  LET n == 1..fmt[held].framesPerTicket
      Kinds == {link, old, Oddball} \cup (IF externallyClosed THEN {Empty} ELSE {})
  IN  {b \in UNION {[1..k -> Kinds] : k \in n} :
         \A i, j \in DOMAIN b : i < j /\ b[j] = old => b[i] = old}

Arrived(b) == old' = IF \E i \in DOMAIN b : b[i] # old THEN link ELSE old

receivePost(b) ==
  /\ Fits(b)
  /\ notifyFill
  /\ rx' = "loop"
  /\ Arrived(b)
  /\ UNCHANGED <<currentFormat, newFormat, interrupted, externallyClosed, link,
                 switches>>

\* Mutant of receiveDrop: the ticket is not returned.
receiveDropKeep(b) ==
  /\ Dropped(b)
  /\ rx' = "loop"
  /\ Arrived(b)
  /\ UNCHANGED <<vars, currentFormat, newFormat, interrupted, externallyClosed,
                 link, switches>>

receiveDrop(b) ==
  /\ Dropped(b)
  /\ returnEmpty
  /\ rx' = "loop"
  /\ Arrived(b)
  /\ UNCHANGED <<currentFormat, newFormat, interrupted, externallyClosed, link,
                 switches>>

receiveChange(b) ==
  /\ Changes(b)
  /\ returnEmpty
  /\ newFormat' = lastSeen(b, winner(b))
  /\ rx' = "reset"
  /\ Arrived(b)
  /\ UNCHANGED <<currentFormat, interrupted, externallyClosed, link, switches>>

receive(B) ==
  /\ rx = "recv"
  /\ \E b \in B : receivePost(b) \/ receiveDrop(b) \/ receiveChange(b)

\* Batches of the sender's packets only, or of packetBurn()'s.
SentBatch == {b \in Batch : \A i \in DOMAIN b : b[i] = link}
BurnBatch == {b \in Batch : \A i \in DOMAIN b : b[i] = Empty}

changeFormat == doReset("reset", "resetting")
formatChanged == resetDone("resetting") /\ rx' = "loop"

\* ABORT_RECEPTION: uninit(), then finalize().
abortReception ==
  /\ At("abort")
  /\ uninit
  /\ rx' = "uninit"
  /\ UNCHANGED <<currentFormat, newFormat, envVars>>

finalize ==
  /\ \/ At("final")
     \/ rx = "uninit" /\ phase = "dead"
  /\ rx' = "done"
  /\ UNCHANGED <<vars, currentFormat, newFormat, envVars>>

-----------------------------------------------------------------------------
(* The other threads.                                                      *)

doAbort ==
  /\ rx \notin {"new", "opening"}
  /\ ~interrupted
  /\ interrupted' = TRUE
  /\ UNCHANGED <<vars, rxVars, externallyClosed, link, old, switches>>

packetBurn ==
  /\ interrupted
  /\ ~externallyClosed
  /\ externallyClosed' = TRUE
  /\ UNCHANGED <<vars, rxVars, interrupted, link, old, switches>>

switchMode(m) ==
  /\ switches < MaxSwitch
  /\ link = old
  /\ m # link
  /\ link' = m
  /\ switches' = switches + 1
  /\ UNCHANGED <<vars, rxVars, interrupted, externallyClosed, old>>

SubscriberNext ==
  /\ \/ \E s \in Sub : subscribe(s) \/ SubscriberStep(s) \/ leaveLoop(s)
                         \/ reGet(s)
     \/ \E t \in Ticket : putKept(t)
  /\ UNCHANGED <<rxVars, envVars>>

-----------------------------------------------------------------------------
RxInit ==
  /\ Init
  /\ rx = "new"
  /\ currentFormat = DefaultMode
  /\ newFormat = DefaultMode
  /\ interrupted = FALSE
  /\ externallyClosed = FALSE
  /\ link \in Mode
  /\ old = link
  /\ switches = 0

\* What the thread does by itself; receive needs packets.
RxStep ==
  \/ initialize \/ openSocket \/ loopHead \/ getTicket \/ giveUp
  \/ changeFormat \/ formatChanged \/ abortReception \/ finalize
  \/ BufferStep /\ UNCHANGED <<rxVars, envVars>>

RxNext ==
  \/ RxStep \/ receive(Batch) \/ recvNothing
  \/ SubscriberNext
  \/ doAbort \/ packetBurn \/ \E m \in Mode : switchMode(m)

RxSpec == RxInit /\ [][RxNext]_rvars

(***************************************************************************)
(* Fairness: the threads go on while they can, and System follows its      *)
(* doAbort() by packetBurn(), which sends empty packets until the thread   *)
(* is done.  That data come again and again, strays and interruptions      *)
(* between them or not, is the sender's doing, who streams without a pause *)
(* while the telescope observes.                                           *)
(***************************************************************************)
RxFairness ==
  /\ WF_rvars(RxStep)
  /\ SF_rvars(receive(SentBatch))
  /\ SF_rvars(receive(BurnBatch))
  /\ WF_rvars(packetBurn)
  /\ \A s \in Sub : WF_rvars(SubscriberStep(s) /\ UNCHANGED <<rxVars, envVars>>)

RxFairSpec == RxSpec /\ RxFairness

-----------------------------------------------------------------------------
(* Properties.                                                             *)

\* Type correctness of the receiver's own state.
RxTypeOK ==
  /\ rx \in {"new", "opening", "loop", "ticket", "recv", "reset", "resetting",
             "abort", "uninit", "final", "done"}
  /\ {currentFormat, newFormat, link, old} \subseteq Mode
  /\ {interrupted, externallyClosed} \subseteq BOOLEAN
  /\ switches \in 0..MaxSwitch
  /\ rx = "recv" <=> phase = "filling"

\* The size a packet is compared with is the size of the frames of the ticket
\* it was received into, after any sequence of resets, failed ones included:
\* currentFormat, which only the receiver has, and the buffer's geometry never
\* disagree about a ticket that is being filled or is in use.
FormatIsGeometry ==
  /\ rx = "recv" => fmt[held] = GeomOf(currentFormat)
  /\ \A t \in Ticket : refCnt[t] > 0 /\ rx # "resetting" =>
                         fmt[t] = GeomOf(currentFormat)

\* The receiver follows the sender: once the mode stays the same the buffer
\* is in the end laid out for its family and stays so, unless an allocation
\* fails or the receiver ends.
Follows ==
  \A m \in Mode :
    <>[](link = m) =>
      <>[](invalid \/ rx \in {"final", "done"} \/ Family(currentFormat) = Family(m))

\* Shutdown gets past the receiver: after doAbort() and packetBurn() it is
\* done, wherever it was, in recvmmsg, in a reset that waits for subscribers,
\* or spinning for a ticket of a pool that is empty or could not be allocated.
ReceiverStops == interrupted ~> rx = "done"

\* The receiver's state is consistent in itself and with the buffer's.
FormatSound == RxTypeOK /\ FormatIsGeometry
=============================================================================
