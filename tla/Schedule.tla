------------------------------ MODULE Schedule ------------------------------
(***************************************************************************)
(* The scheduler (Actors/Schedule.cpp, Actors/OpsQueue.h), the operations  *)
(* it runs (Operations/) and the commands that reach it from the message   *)
(* processor (Actors/MessageProcessor.cpp).                                *)
(*                                                                         *)
(* Three kinds of thread meet here: the scheduler's own loop, the message  *)
(* processor, which handles one command at a time, and the thread of an    *)
(* operation that has one.  Each public method of Schedule holds its mutex *)
(* from beginning to end and is one step; what the threads do between two  *)
(* methods (the loop between getState and doWait or doBusy, REC between    *)
(* isTimeSlotFree and scheduleOperation, FMT between getState and          *)
(* scheduleOperation) is not protected and is two steps.                   *)
(*                                                                         *)
(* An operation is named by its reference number.  The commands are those  *)
(* with a behaviour of their own towards the scheduler:                    *)
(*   REC  RecordOperation (SPC behaves alike);                             *)
(*   TST  TestOperation;                                                   *)
(*   SYN  a ThreadOperation that cannot be cancelled once it has started,  *)
(*        accepted at any time;                                            *)
(*   FMT  the same, accepted only by an idle scheduler (DEL behaves alike);*)
(*   CPY  a ThreadOperation that can be interrupted, accepted only by an   *)
(*        idle scheduler (DMP behaves alike);                              *)
(*   STP  cancels an operation;                                            *)
(*   SHT  shutdown, which aborts the scheduler.                            *)
(***************************************************************************)
EXTENDS TimeSlots, SequencesExt

CONSTANTS
  Ref,        \* reference numbers
  Idle,       \* op_idle, and the null pointer
  Commands,   \* the commands that are sent
  RecSlots,   \* time slots asked for by REC
  TestLength, \* duration asked for by TST
  Window,     \* SCHEDULING_WINDOW
  Lead,       \* a ThreadOperation starts Window + Lead from now
  TestLead,   \* a TestOperation starts TestLead from now
  Begin, End, \* bound: the time line in one behaviour
  MaxStep     \* bound: how far SYN may set the clock

ThreadKinds == {"SYN", "FMT", "CPY"}
Kinds       == {"REC", "TST"} \cup ThreadKinds

ASSUME ScheduleAssumption ==
  /\ Idle \notin Ref
  /\ Commands \subseteq Kinds \cup {"STP", "SHT"}
  /\ {Window, Lead, TestLead, Begin, End, MaxStep} \subseteq Nat
  /\ Begin <= End
  /\ TestLength \in 0..FOREVER
  /\ RecSlots \subseteq AnySlot

\* No sum of times comes near the width of a word, and the epoch is further
\* back than a window: with 64-bit words, any slot of a real calendar.
SaneTimes ==
  /\ \A ts \in RecSlots : Fits(ts, Window)
  /\ Window <= Begin + TestLead
  /\ End + Window + Lead < Word
  /\ End + TestLead + TestLength + Window < FOREVER

VARIABLES
  now,          \* the clock, in milliseconds
  opsQueue,     \* the queued operations, in order of time
  current,      \* currentOperation
  cancelled,    \* currentIsCancelled
  notified,     \* how many of the four notified... flags are up
  nextEvent,    \* the static nextEvent of doBusy
  loop,         \* where the scheduler thread is
  pending,      \* the operation of a command between its two steps
  abort,        \* where doAbort is
  \* the operations
  kind,         \* the command that made it
  slot,         \* ts
  status,       \* where it is, see Statuses
  started,      \* _started
  done,         \* _done
  thread,       \* its thread
  file,         \* its output file
  calls         \* how many callbacks the scheduler has made

schVars == <<opsQueue, current, cancelled, notified, nextEvent>>
opVars  == <<kind, slot, status, started, done, thread, file, calls>>
vars    == <<now, schVars, loop, pending, abort, opVars>>

padded(r) == applyWindow(slot[r], Window)
clock     == FromMillis(now)

\* Nobody is inside doAbort, which keeps the mutex until it is over.
Unlocked == abort \in {"no", "over"}

\* The process has not died on a bad pointer.
Alive == loop # "crashed"

-----------------------------------------------------------------------------
(* OpsQueue.                                                               *)

\* insert() walks the queue as long as the new slot is after the next one,
\* and stops at the first that it precedes or overlaps; 0 is the end.
insertionPoint(ts) ==
  SelectInSeq(opsQueue, LAMBDA r : compareSlots(ts, padded(r)) # 1)

\* Mutant of insertConflicts: an overlapping slot is inserted all the same.
insertAnyway(ts) == FALSE

insertConflicts(ts) ==
  LET i == insertionPoint(ts)
  IN  i # 0 /\ compareSlots(ts, padded(opsQueue[i])) = 0

insertInto(r, ts) ==
  LET i == insertionPoint(ts)
  IN  InsertAt(opsQueue, IF i = 0 THEN Len(opsQueue) + 1 ELSE i, r)

find_conflict(ts) ==
  \E i \in DOMAIN opsQueue : overlaps(ts, padded(opsQueue[i]))

\* It asks the queue only: the operation in progress is not looked at.
isTimeSlotFree(ts) == ~find_conflict(ts)

-----------------------------------------------------------------------------
(* Commands.                                                               *)

\* scheduleOperation and checkAndSchedule, for a new operation r.
schedule(r, k, ts) ==
  LET w == applyWindow(ts, Window)
  IN  /\ kind' = [kind EXCEPT ![r] = k]
      /\ slot' = [slot EXCEPT ![r] = ts]
      /\ \/ /\ insertConflicts(w)
            /\ status' = [status EXCEPT ![r] = "rejected"]
            /\ UNCHANGED opsQueue
         \/ /\ ~insertConflicts(w)
            /\ status' = [status EXCEPT ![r] = "queued"]
            /\ opsQueue' = insertInto(r, w)

\* What a command needs: a fresh reference, a processor that is not in the
\* middle of another command, and a system that is not shutting down.
Accepting(c, r) ==
  /\ c \in Commands
  /\ status[r] = "none"
  /\ pending = Idle
  /\ abort = "no"
  /\ Alive

\* REC asks isTimeSlotFree for the slot without its padding, then opens the
\* output file, which fails if there is one of that name ...
checkREC(r) ==
  /\ Accepting("REC", r)
  /\ \E ts \in RecSlots :
       /\ isTimeSlotFree(ts)
       /\ slot' = [slot EXCEPT ![r] = ts]
  /\ kind' = [kind EXCEPT ![r] = "REC"]
  /\ file' = [file EXCEPT ![r] = "open"]
  /\ pending' = r
  /\ UNCHANGED <<now, schVars, loop, abort, status, started, done, thread,
                 calls>>

\* ... and schedules the operation, whose slot is padded.  A conflict now
\* gives the file back, closed.
doREC(r) ==
  /\ pending = r
  /\ kind[r] = "REC"
  /\ Unlocked
  /\ Alive
  /\ schedule(r, "REC", slot[r])
  /\ file' = [file EXCEPT ![r] = IF status'[r] = "rejected" THEN "closed"
                                                            ELSE @]
  /\ pending' = Idle
  /\ UNCHANGED <<now, current, cancelled, notified, nextEvent, loop, abort,
                 started, done, thread, calls>>

threadSlot == TimeSlot(addTime(clock, Window + Lead), FOREVER)
testSlot   == TimeSlot(addTime(clock, TestLead), TestLength)

\* SYN and TST are scheduled without looking at the scheduler's state.
doSYN(r) ==
  /\ \/ Accepting("SYN", r) /\ schedule(r, "SYN", threadSlot)
     \/ Accepting("TST", r) /\ schedule(r, "TST", testSlot)
  /\ UNCHANGED <<now, current, cancelled, notified, nextEvent, loop, pending,
                 abort, started, done, thread, file, calls>>

\* FMT and CPY are for an idle scheduler, as getState says ...
checkFMT(r) ==
  /\ \E k \in {"FMT", "CPY"} :
       /\ Accepting(k, r)
       /\ kind' = [kind EXCEPT ![r] = k]
  /\ current = Idle
  /\ opsQueue = <<>>
  /\ pending' = r
  /\ UNCHANGED <<now, schVars, loop, abort, slot, status, started, done,
                 thread, file, calls>>

\* ... before the operation is made and scheduled.
doFMT(r) ==
  /\ pending = r
  /\ kind[r] \in {"FMT", "CPY"}
  /\ Unlocked
  /\ Alive
  /\ schedule(r, kind[r], threadSlot)
  /\ pending' = Idle
  /\ UNCHANGED <<now, current, cancelled, notified, nextEvent, loop, abort,
                 started, done, thread, file, calls>>

\* Whether doCancel() of r returns true.  A ThreadOperation refuses once its
\* thread has said that it started, unless it can be interrupted.
cancellable(r) == kind[r] \in {"SYN", "FMT"} => ~started[r]

\* Mutant of doCancel: a cancelled recording is not done.
doCancelUndone(r) ==
  /\ file' = [file EXCEPT ![r] = IF started[r] /\ kind[r] = "REC"
                                   THEN "closed" ELSE @]
  /\ UNCHANGED done

\* What doCancel() does besides.  RecordOperation stops and joins its writer,
\* which closes the file if it ever ran, and is done.  TestOperation and a
\* ThreadOperation are not done by it.
doCancel(r) ==
  /\ done' = [done EXCEPT ![r] = @ \/ kind[r] = "REC"]
  /\ file' = [file EXCEPT ![r] = IF started[r] /\ kind[r] = "REC"
                                   THEN "closed" ELSE @]

doCancelCurrent(r) == current = r /\ cancellable(r) /\ doCancel(r) /\ cancelled' = TRUE
doCancelQueued(r)  == cancellable(r) /\ doCancel(r) /\ UNCHANGED cancelled

\* cancelOperation, for the operation in progress and for a queued one.  The
\* operation removed from the queue is never deleted.
doSTP(r) ==
  /\ "STP" \in Commands
  /\ pending = Idle
  /\ abort = "no"
  /\ Alive
  /\ \/ /\ doCancelCurrent(r)
        /\ UNCHANGED <<opsQueue, status>>
     \/ /\ \E i \in DOMAIN opsQueue :
             /\ opsQueue[i] = r
             /\ opsQueue' = RemoveAt(opsQueue, i)
        /\ doCancelQueued(r)
        /\ status' = [status EXCEPT ![r] = "removed"]
  /\ UNCHANGED <<now, current, notified, nextEvent, loop, pending, abort,
                 kind, slot, started, thread, calls>>

-----------------------------------------------------------------------------
(* The scheduler thread: run().                                            *)

getState ==
  /\ loop = "look"
  /\ Unlocked
  /\ loop' = CASE abort = "over"                    -> "ended"
               [] abort = "no" /\ current # Idle    -> "busy"
               [] abort = "no" /\ current = Idle /\ opsQueue # <<>> -> "wait"
               [] OTHER                             -> "look"
  /\ UNCHANGED <<now, schVars, pending, abort, opVars>>

\* Mutants of dequeue: the flags of the last operation stay up; the operation
\* stays in the queue.
dequeueStale ==
  /\ current' = Head(opsQueue)
  /\ opsQueue' = Tail(opsQueue)
  /\ status' = [status EXCEPT ![Head(opsQueue)] = "current"]
  /\ cancelled' = FALSE
  /\ UNCHANGED notified

dequeueKeep ==
  /\ current' = Head(opsQueue)
  /\ status' = [status EXCEPT ![Head(opsQueue)] = "current"]
  /\ cancelled' = FALSE
  /\ notified' = 0
  /\ UNCHANGED opsQueue

\* The front of the queue becomes the current operation.
dequeue ==
  /\ current' = Head(opsQueue)
  /\ opsQueue' = Tail(opsQueue)
  /\ status' = [status EXCEPT ![Head(opsQueue)] = "current"]
  /\ cancelled' = FALSE
  /\ notified' = 0

\* doWait looks at the front of the queue, if there still is one: front() of
\* an empty queue is a null pointer.
doWait ==
  /\ loop = "wait"
  /\ Unlocked
  /\ \/ /\ opsQueue = <<>>
        /\ loop' = "crashed"
        /\ UNCHANGED <<schVars, status>>
     \/ /\ opsQueue # <<>>
        /\ loop' = "look"
        /\ IF compareTimestamps(padded(Head(opsQueue)).start, clock) <= 0
             THEN dequeue /\ UNCHANGED nextEvent
             ELSE UNCHANGED <<schVars, status>>
  /\ UNCHANGED <<now, pending, abort, kind, slot, started, done, thread,
                 file, calls>>

Callback(n) ==
  /\ notified' = n
  /\ calls' = [calls EXCEPT ![current] = @ + 1]

\* The next event after doWindowStart, and its mutant: still the window's.
afterWindowStartStale == padded(current).start
afterWindowStart      == slot[current].start

\* doWindowStart: a RecordOperation starts its writer, a TestOperation says
\* that it has started, a ThreadOperation starts its thread.
windowStart ==
  /\ notified = 0
  /\ IF compareTimestamps(padded(current).start, clock) <= 0
       THEN /\ nextEvent' = afterWindowStart
            /\ Callback(1)
            /\ started' = [started EXCEPT
                             ![current] = @ \/ kind[current] \notin ThreadKinds]
            /\ thread' = [thread EXCEPT
                            ![current] = IF kind[current] \in ThreadKinds
                                           THEN "spawned" ELSE @]
       ELSE /\ nextEvent' = padded(current).start
            /\ UNCHANGED <<notified, calls, started, thread>>
  /\ UNCHANGED <<done, file>>

Due == compareTimestamps(nextEvent, clock) <= 0

\* doExecutionStart does nothing; an unending operation has no other event.
executionStart ==
  /\ notified = 1
  /\ Due
  /\ calls' = [calls EXCEPT ![current] = @ + 1]
  /\ IF slot[current].duration = FOREVER
       THEN notified' = 4 /\ UNCHANGED nextEvent
       ELSE notified' = 2 /\ nextEvent' = stop(slot[current])
  /\ UNCHANGED <<started, done, thread, file>>

\* doExecutionStop: a RecordOperation stops and joins its writer.
executionStop ==
  /\ notified = 2
  /\ Due
  /\ Callback(3)
  /\ nextEvent' = stop(padded(current))
  /\ file' = [file EXCEPT ![current] = IF kind[current] = "REC" THEN "closed"
                                                                ELSE @]
  /\ UNCHANGED <<started, done, thread>>

\* doWindowStop: RecordOperation and TestOperation are done.
windowStop ==
  /\ notified = 3
  /\ Due
  /\ Callback(4)
  /\ done' = [done EXCEPT ![current] = TRUE]
  /\ UNCHANGED <<nextEvent, started, thread, file>>

\* One call of doBusy for an operation that was not cancelled ...
doCallback ==
  /\ loop = "busy"
  /\ Unlocked
  /\ current # Idle
  /\ ~cancelled
  /\ windowStart \/ executionStart \/ executionStop \/ windowStop
  /\ loop' = "look"
  /\ UNCHANGED <<now, opsQueue, current, cancelled, pending, abort, kind,
                 slot, status>>

\* Mutants of Finished: an operation need not be done; a cancelled operation
\* is waited for as if it were not.
FinishedUndone    == cancelled \/ notified = 4
FinishedScheduled == notified = 4 /\ done[current]

\* The current operation has had all its callbacks or was cancelled, and is
\* done.
Finished == (cancelled \/ notified = 4) /\ done[current]

\* ... for one that is finished: it is deleted ...
doRelease ==
  /\ loop = "busy"
  /\ Unlocked
  /\ current # Idle
  /\ Finished
  /\ current' = Idle
  /\ status' = [status EXCEPT ![current] = "over"]
  /\ loop' = "look"
  /\ UNCHANGED <<now, opsQueue, cancelled, notified, nextEvent, pending,
                 abort, kind, slot, started, done, thread, file, calls>>

\* ... and for one that has to wait, for its next event or to be done.
doNothing ==
  /\ loop = "busy"
  /\ Unlocked
  /\ current # Idle
  /\ IF cancelled \/ notified = 4 THEN ~done[current]
                                  ELSE notified # 0 /\ ~Due
  /\ loop' = "look"
  /\ UNCHANGED <<now, schVars, pending, abort, opVars>>

\* doBusy after doAbort has put the idle operation in place, which is no
\* ScheduledOperation: undefined behaviour, harmless or fatal.
doBusyIdle ==
  /\ loop = "busy"
  /\ Unlocked
  /\ current = Idle
  /\ loop' \in {"look", "crashed"}
  /\ UNCHANGED <<now, schVars, pending, abort, opVars>>

-----------------------------------------------------------------------------
(* doAbort, called by System on shutdown once no more commands come.       *)

doAbort ==
  /\ "SHT" \in Commands
  /\ abort = "no"
  /\ pending = Idle
  /\ Alive
  /\ abort' = "queue"
  /\ UNCHANGED <<now, schVars, loop, pending, opVars>>

\* The operation that doAbort has popped and cancelled.
Victim(r) == status[r] = "victim"

abortPop ==
  /\ abort = "queue"
  /\ Alive
  /\ \A r \in Ref : ~Victim(r)
  /\ opsQueue # <<>>
  /\ doCancel(Head(opsQueue))
  /\ opsQueue' = Tail(opsQueue)
  /\ status' = [status EXCEPT ![Head(opsQueue)] = "victim"]
  /\ UNCHANGED <<now, current, cancelled, notified, nextEvent, loop, pending,
                 abort, kind, slot, started, thread, calls>>

\* It spins until the operation is done.
abortDelete ==
  /\ abort = "queue"
  /\ Alive
  /\ \E r \in Ref :
       /\ Victim(r)
       /\ done[r]
       /\ status' = [status EXCEPT ![r] = "over"]
  /\ UNCHANGED <<now, schVars, loop, pending, abort, kind, slot, started,
                 done, thread, file, calls>>

abortCurrent ==
  /\ abort = "queue"
  /\ Alive
  /\ \A r \in Ref : ~Victim(r)
  /\ opsQueue = <<>>
  /\ \/ /\ current = Idle
        /\ abort' = "over"
        /\ UNCHANGED <<done, file>>
     \/ /\ current # Idle
        /\ abort' = "current"
        /\ doCancel(current)
  /\ UNCHANGED <<now, schVars, loop, pending, kind, slot, status, started,
                 thread, calls>>

abortRelease ==
  /\ abort = "current"
  /\ Alive
  /\ done[current]
  /\ status' = [status EXCEPT ![current] = "over"]
  /\ current' = Idle
  /\ abort' = "over"
  /\ UNCHANGED <<now, opsQueue, cancelled, notified, nextEvent, loop, pending,
                 kind, slot, started, done, thread, file, calls>>

-----------------------------------------------------------------------------
(* The thread of an operation, and the clock.                              *)

\* ThreadOperation::run: started(), threadOpRun(), done().  SYN runs ntpdate,
\* which sets the clock, forwards or backwards.
threadStarted(r) ==
  /\ Alive
  /\ thread[r] = "spawned"
  /\ started' = [started EXCEPT ![r] = TRUE]
  /\ thread' = [thread EXCEPT ![r] = "running"]
  /\ UNCHANGED <<now, schVars, loop, pending, abort, kind, slot, status, done,
                 file, calls>>

threadDone(r) ==
  /\ Alive
  /\ thread[r] = "running"
  /\ done' = [done EXCEPT ![r] = TRUE]
  /\ thread' = [thread EXCEPT ![r] = "ended"]
  /\ IF kind[r] = "SYN"
       THEN now' \in ((now - MaxStep)..(now + MaxStep)) \cap (Begin..End)
       ELSE UNCHANGED now
  /\ UNCHANGED <<schVars, loop, pending, abort, kind, slot, status, started,
                 file, calls>>

Tick ==
  /\ Alive
  /\ now < End
  /\ now' = now + 1
  /\ UNCHANGED <<schVars, loop, pending, abort, opVars>>

-----------------------------------------------------------------------------
Init ==
  /\ now = Begin
  /\ opsQueue = <<>>
  /\ current = Idle
  /\ cancelled = FALSE
  /\ notified = 0
  /\ nextEvent = TimeStamp(0, 0)
  /\ loop = "look"
  /\ pending = Idle
  /\ abort = "no"
  /\ kind = [r \in Ref |-> "none"]
  /\ slot = [r \in Ref |-> TimeSlot(TimeStamp(0, 0), 0)]
  /\ status = [r \in Ref |-> "none"]
  /\ started = [r \in Ref |-> FALSE]
  /\ done = [r \in Ref |-> FALSE]
  /\ thread = [r \in Ref |-> "none"]
  /\ file = [r \in Ref |-> "none"]
  /\ calls = [r \in Ref |-> 0]

CommandStep(r) == checkREC(r) \/ doREC(r) \/ doSYN(r) \/ checkFMT(r)
                    \/ doFMT(r) \/ doSTP(r)

SchedulerStep == getState \/ doWait \/ doCallback \/ doRelease \/ doNothing
                   \/ doBusyIdle

AbortStep == abortPop \/ abortDelete \/ abortCurrent \/ abortRelease

Next ==
  \/ SchedulerStep \/ AbortStep \/ doAbort \/ Tick
  \/ \E r \in Ref : CommandStep(r) \/ threadStarted(r) \/ threadDone(r)

Spec == Init /\ [][Next]_vars

(***************************************************************************)
(* Fairness: the scheduler's loop, doAbort once called, the message        *)
(* processor in the middle of a command and the threads of operations go   *)
(* on while they can, and time passes.  Nobody has to send a command.      *)
(***************************************************************************)
Fairness ==
  /\ WF_vars(SchedulerStep)
  /\ WF_vars(AbortStep)
  /\ WF_vars(Tick)
  /\ \A r \in Ref : /\ WF_vars(doREC(r) \/ doFMT(r))
                    /\ WF_vars(threadStarted(r) \/ threadDone(r))

FairSpec == Spec /\ Fairness

-----------------------------------------------------------------------------
(* Properties.                                                             *)

Statuses == {"none", "queued", "current", "victim", "rejected", "removed",
             "over"}

\* Type correctness, and the status of an operation says where it is.
TypeOK ==
  /\ now \in Begin..End
  /\ opsQueue \in Seq(Ref)
  /\ current \in Ref \cup {Idle}
  /\ cancelled \in BOOLEAN
  /\ notified \in 0..4
  /\ nextEvent \in AnyStamp
  /\ loop \in {"look", "wait", "busy", "ended", "crashed"}
  /\ pending \in Ref \cup {Idle}
  /\ abort \in {"no", "queue", "current", "over"}
  /\ kind \in [Ref -> Kinds \cup {"none"}]
  /\ slot \in [Ref -> AnySlot]
  /\ status \in [Ref -> Statuses]
  /\ started \in [Ref -> BOOLEAN]
  /\ done \in [Ref -> BOOLEAN]
  /\ thread \in [Ref -> {"none", "spawned", "running", "ended"}]
  /\ file \in [Ref -> {"none", "open", "closed"}]
  /\ calls \in [Ref -> 0..4]
  /\ \A r \in Ref : /\ status[r] = "queued" <=> r \in Range(opsQueue)
                    /\ status[r] = "current" <=> r = current

\* The queue is in order of time, and no two operations in it come within
\* two windows of each other: every one's padded slot is wholly before the
\* next one's.
QueueOrdered ==
  \A i, j \in DOMAIN opsQueue :
    i < j => compareSlots(padded(opsQueue[i]), padded(opsQueue[j])) = -1

\* One operation at a time: an operation's thread runs, or its recording is
\* open and started, only while it is the current one.  The scheduler never
\* lets go of an operation that is still at work.
AtWork(r) == thread[r] \in {"spawned", "running"}
               \/ (kind[r] = "REC" /\ started[r] /\ file[r] = "open")

OneAtATime == \A r \in Ref : AtWork(r) => r = current

\* The scheduler's flags are those of the current operation: an operation gets
\* its callbacks from the first on, each once, and none before it is current.
AllCalls(r) == IF slot[r].duration = FOREVER THEN 2 ELSE 4

CallbackProtocol ==
  /\ current # Idle =>
       calls[current] = IF notified = 4 THEN AllCalls(current) ELSE notified
  /\ \A r \in Ref : status[r] = "queued" => calls[r] = 0

\* The instant of the n-th callback of r on the time line.
EventTime(r, n) ==
  CASE n = 1 -> Millis(slot[r].start) - Window
    [] n = 2 -> Millis(slot[r].start)
    [] n = 3 -> Millis(slot[r].start) + slot[r].duration
    [] n = 4 -> Millis(slot[r].start) + slot[r].duration + Window

\* No callback comes early, whatever operation ran before and left its own
\* next event in the static variable.
NeverEarly ==
  [][\A r \in Ref : calls'[r] # calls[r] => EventTime(r, calls'[r]) <= now]_vars

\* An accepted recording ends: it is over or removed in the end, unless the
\* process dies.
RecordingEnds ==
  \A r \in Ref : status[r] = "queued" /\ kind[r] = "REC"
                   ~> status[r] \in {"over", "removed"} \/ ~Alive

\* Shutdown gets past doAbort, unless the process dies.  It does for recordings;
\* a queued operation of another kind never becomes done, and doAbort spins.
AbortEnds == abort = "queue" ~> abort = "over" \/ ~Alive

\* The queue is what the statuses say, in order and free of conflicts.
QueueSound == TypeOK /\ QueueOrdered

\* Accepted recordings end, and so does a shutdown among them.
ScheduleProgress == RecordingEnds /\ AbortEnds

-----------------------------------------------------------------------------
(* What the documentation says, and the code does not do.                  *)

\* "The requested time frame overlaps with a scheduled operation"
\* (DR_ICD/appendices/appendix-b.tex:84) rejects a command: no operation that
\* waits overlaps the one in progress.
NoTimeConflict ==
  current # Idle =>
    \A i \in DOMAIN opsQueue :
      compareSlots(padded(current), padded(opsQueue[i])) = -1

\* STP: "If it is in progress, it is halted"
\* (DR_ICD/sections/04-monitor-control.tex:899): an operation in progress
\* whose cancellation was accepted does not stay in progress.
StoppedIsHalted ==
  \A r \in Ref : current = r /\ cancelled ~> current # r

\* STP: an operation that is not in progress "is deleted from the schedule"
\* (same file, lines 897-898), and nothing else happens: the scheduler lives on.
SchedulerSurvives == Alive
=============================================================================
