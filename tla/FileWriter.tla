----------------------------- MODULE FileWriter -----------------------------
(***************************************************************************)
(* A recording in progress: the FileWriter thread (Streaming/FileWriter.h) *)
(* and the RecordOperation that owns it (Operations/RecordOperation.h),    *)
(* beside the other subscribers of a TicketBuffer.                         *)
(*                                                                         *)
(* The writer is one of the subscriber threads of TicketBuffer: where that *)
(* module lets a thread leave its loop at any time and puts a ticket in    *)
(* one step, this one follows the writer's own hooks.  The scheduler       *)
(* thread stops the recording from outside: it raises manually_stopped,    *)
(* waits half a second, interrupts the thread, joins it and writes the     *)
(* file's verdict.                                                         *)
(***************************************************************************)
EXTENDS TicketBuffer

CONSTANTS
  Writer,       \* the subscriber that is a FileWriter
  SizeLimit,    \* size_limit, in tickets; 0 is none
  MaxOverrun,   \* bound: tickets' worth of bytes a bad retry adds
  CanStop       \* the operation may end while its writer is running

ASSUME WriterAssumption ==
  /\ Writer \in Sub
  /\ SizeLimit \in Nat
  /\ MaxOverrun \in Nat
  /\ CanStop \in BOOLEAN

VARIABLES
  at,           \* where the writer is in its hooks
  state,        \* FileWriterState
  begun,        \* the time slot has begun (Time::compare gives 0, not -1)
  stopped,      \* manually_stopped
  limited,      \* size_limit_reached
  failed,       \* error_occurred
  interrupted,  \* GenericThread::interrupted
  bytes,        \* bytesWrittenThisFile, in tickets
  taken,        \* the post whose data the writer was given
  file,         \* [open, complete, reason]
  op            \* where RecordOperation is, and whether it was cancelled

fwVars  == <<at, state, begun, stopped, limited, failed, interrupted, bytes,
             taken, file, op>>
allVars == <<vars, fwVars>>

Places   == {"new", "init", "subscribe", "top", "get", "check", "write",
             "put", "leave", "drain", "uninit", "done", "ended"}
States   == {"INVALID", "INITIALIZED", "CONNECTED", "RECORDING", "DISCONNECTED",
             "UNINIT", "DONE"}
OpStages == {"pending", "running", "grace", "join", "closed"}

FWInit ==
  /\ Init
  /\ at = "new"
  /\ state = "INVALID"
  /\ begun = FALSE
  /\ stopped = FALSE
  /\ limited = FALSE
  /\ failed = FALSE
  /\ interrupted = FALSE
  /\ bytes = 0
  /\ taken = 0
  /\ file = [open |-> TRUE, complete |-> "none", reason |-> "none"]
  /\ op = [stage |-> "pending", cancelled |-> FALSE]

\* time_limit_reached is left out: Time::compare never says "too late".
canContinue == ~(limited \/ stopped \/ failed)

-----------------------------------------------------------------------------
(* The writer thread.                                                      *)

onInit ==
  /\ at = "init"
  /\ state' = "INITIALIZED"
  /\ at' = IF file.open THEN "subscribe" ELSE "done"
  /\ UNCHANGED <<vars, begun, stopped, limited, failed, interrupted, bytes,
                 taken, file, op>>

onConnected ==
  /\ at = "subscribe"
  /\ subscribe(Writer)
  /\ state' = "CONNECTED"
  /\ at' = "top"
  /\ UNCHANGED <<begun, stopped, limited, failed, interrupted, bytes, taken,
                 file, op>>

\* The loop's condition and onReceiveLoopStart.
onReceiveLoopStart ==
  /\ at = "top"
  /\ \/ /\ interrupted
        /\ at' = "leave"
        /\ UNCHANGED state
     \/ /\ ~interrupted
        /\ state' = "RECORDING"
        /\ at' = IF canContinue THEN "get" ELSE "leave"
  /\ UNCHANGED <<vars, begun, stopped, limited, failed, interrupted, bytes,
                 taken, file, op>>

takeTicket ==
  /\ at = "get"
  /\ getNext(Writer)
  /\ taken' = stamp[Head(tickets[Writer])]
  /\ at' = "check"
  /\ UNCHANGED <<state, begun, stopped, limited, failed, interrupted, bytes,
                 file, op>>

onTicketBufferEmpty ==
  /\ at = "get"
  /\ Unlocked(Writer)
  /\ tickets[Writer] = <<>>
  /\ at' = IF canContinue THEN "top" ELSE "leave"
  /\ UNCHANGED <<vars, state, begun, stopped, limited, failed, interrupted,
                 bytes, taken, file, op>>

\* Mutant of checkTicket: the condition is inverted.
checkInverted ==
  /\ at = "check"
  /\ IF canContinue THEN put(cur[Writer])
                    ELSE UNCHANGED <<refCnt, freeTickets>>
  /\ at' = "write"
  /\ UNCHANGED <<live, fmt, geom, numTickets, invalid, subscribers, prodVars,
                 subVars, histVars, state, begun, stopped, limited, failed,
                 interrupted, bytes, taken, file, op>>

\* onTicketReceived begins by asking whether to go on; if not, it puts the
\* ticket and goes on all the same.
checkTicket ==
  /\ at = "check"
  /\ IF canContinue THEN UNCHANGED <<refCnt, freeTickets>>
                    ELSE put(cur[Writer])
  /\ at' = "write"
  /\ UNCHANGED <<live, fmt, geom, numTickets, invalid, subscribers, prodVars,
                 subVars, histVars, state, begun, stopped, limited, failed,
                 interrupted, bytes, taken, file, op>>

\* writeTicket counts n tickets' worth of bytes.  A complete write is one.
\* None are counted when the retries run out on a busy file or when a
\* scattered ticket is cut short.  A contiguous ticket that is cut short is
\* retried without shortening the transfer, which runs over its end until
\* the retries run out.  No outcome but an errno is an error.
writeTicket ==
  /\ at = "write"
  /\ \/ /\ ~begun
        /\ UNCHANGED <<bytes, limited, failed>>
     \/ /\ begun
        /\ failed' = TRUE
        /\ UNCHANGED <<bytes, limited>>
     \/ /\ begun
        /\ file.open
        /\ \E n \in 0..(1 + MaxOverrun) :
             /\ bytes' = bytes + n
             /\ limited' = (limited \/ (SizeLimit # 0 /\ bytes + n >= SizeLimit))
        /\ UNCHANGED failed
  /\ at' = "put"
  /\ UNCHANGED <<vars, state, begun, stopped, interrupted, taken, file, op>>

putTicket ==
  /\ at = "put"
  /\ onTicketReceived(Writer)
  /\ at' = IF canContinue THEN "top" ELSE "leave"
  /\ UNCHANGED <<state, begun, stopped, limited, failed, interrupted, bytes,
                 taken, file, op>>

\* Mutant of leave: the hooks go on while the thread is still subscribed.
leaveEarly ==
  /\ at = "leave"
  /\ leaveLoop(Writer)
  /\ at' = "uninit"
  /\ UNCHANGED <<state, begun, stopped, limited, failed, interrupted, bytes,
                 taken, file, op>>

leave ==
  /\ at = "leave"
  /\ leaveLoop(Writer)
  /\ at' = "drain"
  /\ UNCHANGED <<state, begun, stopped, limited, failed, interrupted, bytes,
                 taken, file, op>>

\* onReset, unsubscribe, onDisonnected, onReset.
disconnect ==
  /\ at = "drain"
  /\ \/ drainPut(Writer) /\ UNCHANGED <<at, state>>
     \/ unsubscribe(Writer) /\ state' = "DISCONNECTED" /\ UNCHANGED at
     \/ /\ drainDone(Writer)
        /\ at' = IF pc[Writer] = "redrain" THEN "uninit" ELSE at
        /\ UNCHANGED state
  /\ UNCHANGED <<begun, stopped, limited, failed, interrupted, bytes, taken,
                 file, op>>

onUninit ==
  /\ at = "uninit"
  /\ file' = [open     |-> FALSE,
              complete |-> IF limited THEN "YES" ELSE "NO",
              reason   |-> CASE limited             -> "size limit"
                             [] ~limited /\ stopped -> "manually aborted"
                             [] ~limited /\ ~stopped /\ failed
                                                    -> "I/O error"
                             [] OTHER               -> "interrupted"]
  /\ state' = "UNINIT"
  /\ at' = "done"
  /\ UNCHANGED <<vars, begun, stopped, limited, failed, interrupted, bytes,
                 taken, op>>

\* onDone has RecordOperation::onFWThreadStop tag the file as incomplete
\* and only then says that the writer is done.
onDone ==
  /\ at = "done"
  /\ file' = [file EXCEPT !.complete = "NO"]
  /\ state' = "DONE"
  /\ at' = "ended"
  /\ UNCHANGED <<vars, begun, stopped, limited, failed, interrupted, bytes,
                 taken, op>>

-----------------------------------------------------------------------------
(* The operation, run by the scheduler thread.                             *)

doWindowStart ==
  /\ op.stage = "pending"
  /\ op' = [op EXCEPT !.stage = "running"]
  /\ at' = "init"
  /\ UNCHANGED <<vars, state, begun, stopped, limited, failed, interrupted,
                 bytes, taken, file>>

\* The time slot begins, as the writer's clock sees it.
slotBegins ==
  /\ ~begun
  /\ begun' = TRUE
  /\ UNCHANGED <<vars, at, state, stopped, limited, failed, interrupted,
                 bytes, taken, file, op>>

\* __doExecutionStop: called by doExecutionStop, and by doCancel, which may
\* come before the writer was started, and also after doExecutionStop: the
\* operation is the current one until doWindowStop has made it done, and a
\* recording that is stopped in between is tagged a second time.
doExecutionStop(cancelled) ==
  /\ \/ op.stage = "running"
     \/ cancelled /\ op.stage = "pending"
     \/ cancelled /\ op.stage = "closed" /\ ~op.cancelled
  /\ CanStop \/ state = "DONE"
  /\ IF state = "DONE"
       THEN op' = [stage |-> "join", cancelled |-> cancelled]
            /\ UNCHANGED stopped
       ELSE op' = [stage |-> "grace", cancelled |-> cancelled]
            /\ stopped' = TRUE
  /\ UNCHANGED <<vars, at, state, begun, limited, failed, interrupted, bytes,
                 taken, file>>

\* The half second is over.
interruptWriter ==
  /\ op.stage = "grace"
  /\ interrupted' = (interrupted \/ state # "DONE")
  /\ op' = [op EXCEPT !.stage = "join"]
  /\ UNCHANGED <<vars, at, state, begun, stopped, limited, failed, bytes,
                 taken, file>>

\* Mutants of joinWriter: no join, and a join of a thread that never ran.
joinNothing ==
  /\ op.stage = "join"
  /\ file' = [file EXCEPT !.complete = IF op.cancelled THEN "NO" ELSE "YES"]
  /\ op' = [op EXCEPT !.stage = "closed"]
  /\ UNCHANGED <<vars, at, state, begun, stopped, limited, failed,
                 interrupted, bytes, taken>>

joinAlways ==
  /\ op.stage = "join"
  /\ at = "ended"
  /\ file' = [file EXCEPT !.complete = IF op.cancelled THEN "NO" ELSE "YES"]
  /\ op' = [op EXCEPT !.stage = "closed"]
  /\ UNCHANGED <<vars, at, state, begun, stopped, limited, failed,
                 interrupted, bytes, taken>>

\* writer.stop() joins the thread, if one was started; then tagFileMeta.
joinWriter ==
  /\ op.stage = "join"
  /\ at \in {"new", "ended"}
  /\ file' = [file EXCEPT !.complete = IF op.cancelled THEN "NO" ELSE "YES"]
  /\ op' = [op EXCEPT !.stage = "closed"]
  /\ UNCHANGED <<vars, at, state, begun, stopped, limited, failed,
                 interrupted, bytes, taken>>

-----------------------------------------------------------------------------
WriterStep ==
  \/ onInit \/ onConnected \/ onReceiveLoopStart \/ takeTicket
  \/ onTicketBufferEmpty \/ checkTicket \/ writeTicket \/ putTicket
  \/ leave \/ disconnect \/ onUninit \/ onDone

OperationStep == interruptWriter \/ joinWriter

\* Everyone else: the producer and the other subscribers.
OthersStep ==
  /\ \/ ProducerCall
     \/ BufferStep
     \/ \E s \in Sub \ {Writer} : subscribe(s) \/ SubscriberStep(s)
                                    \/ leaveLoop(s)
  /\ UNCHANGED fwVars

FWNext ==
  \/ WriterStep \/ OperationStep \/ OthersStep
  \/ doWindowStart \/ slotBegins
  \/ \E c \in BOOLEAN : doExecutionStop(c)

FWSpec == FWInit /\ [][FWNext]_allVars

\* As in TicketBuffer, every thread that can go on does; nothing makes the
\* operation begin or end, or the producer call.  The writer competes with
\* the producer for the subscribers_list mutex: strong fairness says that it
\* gets a mutex that is free again and again.
FWFairSpec ==
  /\ FWSpec
  /\ SF_allVars(WriterStep)
  /\ WF_allVars(OperationStep)
  /\ WF_allVars(BufferStep /\ UNCHANGED fwVars)
  /\ \A s \in Sub \ {Writer} : WF_allVars(SubscriberStep(s)
                                            /\ UNCHANGED fwVars)

-----------------------------------------------------------------------------
(* Properties.                                                             *)

\* Type correctness, and the writer's place in its hooks agrees with its
\* place in SubscriberThread::run.
FWTypeOK ==
  /\ at \in Places
  /\ state \in States
  /\ {begun, stopped, limited, failed, interrupted} \subseteq BOOLEAN
  /\ bytes \in 0..((1 + MaxOverrun) * MaxPosts)
  /\ taken \in 0..MaxPosts
  /\ file \in [open : BOOLEAN, complete : {"none", "YES", "NO"},
               reason : {"none", "size limit", "manually aborted",
                         "I/O error", "interrupted"}]
  /\ op \in [stage : OpStages, cancelled : BOOLEAN]
  /\ pc[Writer] = CASE at \in {"top", "get", "leave"}   -> "loop"
                    [] at \in {"check", "write", "put"} -> "busy"
                    [] at = "drain" -> pc[Writer]
                    [] OTHER        -> "off"

\* The data of a ticket does not change under the writer: from getNext to the
\* last put the ticket holds the post the writer was given and the producer
\* does not have it.
DataStable ==
  pc[Writer] = "busy" =>
    /\ stamp[cur[Writer]] = taken
    /\ ~Filling(cur[Writer])

\* "When all consumers have finished with the data, the ticket is returned to
\* the free pool" (TicketBuffer.h:93): a pooled ticket is nobody's.
ReturnedWhenFinished == \A t \in Ticket : InPool(t) => ~InUse(t)

\* What the operation finds when it has stopped its writer.  The thread it
\* started has ended: the file is closed, the writer is off the subscriber
\* list and has no ticket.
WriterSettled ==
  op.stage = "closed" /\ at # "new" =>
    /\ at = "ended"
    /\ ~file.open
    /\ Writer \notin Range(subscribers)
    /\ tickets[Writer] = <<>>

\* The operation's verdict on the file stands: the writer thread's own tag,
\* which always says incomplete, never comes after it.
VerdictStands ==
  op.stage = "closed" =>
    file.complete = (IF op.cancelled THEN "NO" ELSE "YES")

\* Stopping a recording ends: the scheduler thread is not left in join().
StopTerminates == op.stage = "grace" ~> op.stage = "closed"

\* A recording that ends by itself leaves the tickets in order: its state is
\* consistent, the counts are exact, and no ticket changes while it is written.
RecordingSound == FWTypeOK /\ RefCountExact /\ DataStable
=============================================================================
