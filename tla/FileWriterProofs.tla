-------------------------- MODULE FileWriterProofs --------------------------
(***************************************************************************)
(* Theorems about FileWriter, for every set of tickets and subscribers and *)
(* every limit on the file.                                                *)
(*                                                                         *)
(* With or without a stop from outside the writer's life is as its         *)
(* operation expects: when the operation is closed the thread has ended,   *)
(* has nothing and does not touch the verdict again.  A recording that     *)
(* nobody stops is moreover a subscriber as TicketBuffer has them: every   *)
(* behaviour of it is one of TicketBuffer, and all that holds there holds  *)
(* here.  A stop breaks this: the writer puts one ticket twice.            *)
(***************************************************************************)
EXTENDS FileWriter, TicketBufferProofs

-----------------------------------------------------------------------------
(* The writer and the buffer.                                              *)

\* The first of the two puts of a writer that is told to end while it has a
\* ticket: a step TicketBuffer does not have.
ExtraPut ==
  /\ at = "check"
  /\ ~canContinue
  /\ put(cur[Writer])
  /\ UNCHANGED <<live, fmt, geom, numTickets, invalid, subscribers, prodVars,
                 subVars, histVars>>

\* Every other step is one of TicketBuffer, or none.
LEMMA StepOfBuffer ==
  ASSUME [FWNext]_allVars
  PROVE  [Next]_vars \/ ExtraPut
<1> USE WriterAssumption
<1>1. CASE UNCHANGED allVars
  BY <1>1 DEF allVars
<1>2. CASE onInit \/ onReceiveLoopStart \/ onTicketBufferEmpty \/ writeTicket \/ onUninit \/ onDone
             \/ interruptWriter \/ joinWriter \/ doWindowStart \/ slotBegins
             \/ \E c \in BOOLEAN : doExecutionStop(c)
  BY <1>2 DEF onInit, onReceiveLoopStart, onTicketBufferEmpty, writeTicket, onUninit, onDone,
       interruptWriter, joinWriter, doWindowStart, slotBegins, doExecutionStop
<1>3. CASE onConnected \/ takeTicket \/ putTicket \/ leave \/ disconnect
  BY <1>3 DEF onConnected, takeTicket, putTicket, leave, disconnect, Next, SubscriberStep
<1>4. CASE checkTicket
  <2>1. CASE canContinue
    BY <1>4, <2>1 DEF checkTicket, vars, bufVars
  <2>2. CASE ~canContinue
    BY <1>4, <2>2 DEF checkTicket, ExtraPut
  <2> QED
    BY <2>1, <2>2
<1>5. CASE OthersStep
  BY <1>5 DEF OthersStep, Next
<1> QED
  BY <1>1, <1>2, <1>3, <1>4, <1>5 DEF FWNext, WriterStep, OperationStep

\* The producer and the other threads leave the writer's own variables and
\* its place in run() alone.
LEMMA OthersLeaveWriter ==
  ASSUME TypeOK, OthersStep
  PROVE  UNCHANGED fwVars /\ pc'[Writer] = pc[Writer]
<1>1. pc \in [Sub -> PCs] /\ Writer \in Sub
  BY WriterAssumption DEF TypeOK, SubscriberType
<1>2. CASE ProducerCall \/ BufferStep
  BY <1>2 DEF OthersStep, ProducerCall, BufferStep, nextFreeTicket, returnEmpty, notifyFill, reset, uninit,
       invalidate, onTicketAvailable, flushLock, flushPut, flushNext, invalidateDone, allocate, createTicket,
       destroyTicket, initTickets, notifyGeometry, freeResources, subVars
<1>3. ASSUME NEW s \in Sub \ {Writer}, subscribe(s) \/ SubscriberStep(s) \/ leaveLoop(s)
      PROVE  pc'[Writer] = pc[Writer]
  BY <1>1, <1>3 DEF subscribe, SubscriberStep, leaveLoop, getNext, onTicketReceived, drainPut,
       drainDone, unsubscribe
<1> QED
  BY <1>2, <1>3 DEF OthersStep

-----------------------------------------------------------------------------
(* The writer's life.                                                      *)

\* The writer's place in its hooks agrees with its place in run().
PlaceAgrees ==
  /\ at \in {"top", "get", "leave"} => pc[Writer] = "loop"
  /\ at \in {"check", "write", "put"} => pc[Writer] = "busy"
  /\ at = "drain" => pc[Writer] \in {"drain", "unsubscribe", "redrain"}
  /\ at \in {"new", "init", "subscribe", "uninit", "done", "ended"} => pc[Writer] = "off"

\* FWTypeOK without its bound on the bytes, which needs the order of posts.
WriterType ==
  /\ at \in Places
  /\ state \in States
  /\ begun \in BOOLEAN /\ stopped \in BOOLEAN /\ limited \in BOOLEAN
  /\ failed \in BOOLEAN /\ interrupted \in BOOLEAN
  /\ bytes \in Nat
  /\ taken \in 0..MaxPosts
  /\ file \in [open : BOOLEAN, complete : {"none", "YES", "NO"},
               reason : {"none", "size limit", "manually aborted",
                         "I/O error", "interrupted"}]
  /\ op \in [stage : OpStages, cancelled : BOOLEAN]

\* The file is open until onUninit; the operation starts the thread once, and
\* closes only when the thread never ran or has ended.
LifeInv ==
  /\ file.open <=> at \notin {"done", "ended"}
  /\ op.stage = "pending" => at = "new"
  /\ op.stage = "closed" =>
       /\ at \in {"new", "ended"}
       /\ file.complete = IF op.cancelled THEN "NO" ELSE "YES"

WriterInv == WriterType /\ PlaceAgrees /\ LifeInv

\* The writer starts without a thread, a file or a ticket.
LEMMA WriterInit == FWInit => TypeOK /\ ListInv /\ WriterInv
<1> SUFFICES ASSUME FWInit PROVE TypeOK /\ ListInv /\ WriterInv
  OBVIOUS
<1>1. TypeOK /\ ListInv
  BY TypeInit, ListInit DEF FWInit
<1>2. pc[Writer] = "off"
  BY WriterAssumption DEF FWInit, Init
<1>3. WriterType
  <2>1. /\ begun \in BOOLEAN /\ stopped \in BOOLEAN /\ limited \in BOOLEAN
        /\ failed \in BOOLEAN /\ interrupted \in BOOLEAN
    BY Zenon DEF FWInit
  <2>2. bytes \in Nat /\ taken \in 0..MaxPosts
    BY BoundAssumption DEF FWInit
  <2>3. file \in [open : BOOLEAN, complete : {"none", "YES", "NO"},
                  reason : {"none", "size limit", "manually aborted",
                            "I/O error", "interrupted"}]
    BY DEF FWInit
  <2>4. op \in [stage : OpStages, cancelled : BOOLEAN]
    BY DEF FWInit, OpStages
  <2>5. at \in Places /\ state \in States
    BY DEF FWInit, Places, States
  <2> QED
    BY <2>1, <2>2, <2>3, <2>4, <2>5 DEF WriterType
<1> QED
  BY <1>1, <1>2, <1>3 DEF FWInit, WriterInv, PlaceAgrees, LifeInv

\* The first put of two keeps the types and the list, whatever it does to the
\* counts.
LEMMA BufferKept ==
  ASSUME TypeOK, ListInv, WriterInv, [FWNext]_allVars
  PROVE  TypeOK' /\ ListInv'
<1>1. CASE [Next]_vars
  BY <1>1, TypeNext, ListNext
<1>2. CASE ExtraPut
  <2>1. cur[Writer] \in Ticket
    BY <1>2, WriterAssumption DEF ExtraPut, WriterInv, PlaceAgrees, TypeOK, SubscriberType
  <2>2. refCnt' \in [Ticket -> 0..(RefMod - 1)] /\ freeTickets' \in Seq(Ticket)
    BY <1>2, <2>1, PutType DEF ExtraPut, TypeOK
  <2>3. BufferType' /\ ProducerType' /\ SubscriberType' /\ HistoryType'
    BY <1>2, <2>2 DEF ExtraPut, TypeOK, BufferType, ProducerType, SubscriberType, HistoryType,
         prodVars, subVars, histVars
  <2>4. ListInv'
    BY <1>2 DEF ExtraPut, ListInv, NothingLeftBehind, LoopOnList, prodVars, subVars
  <2> QED
    BY <2>3, <2>4 DEF TypeOK
<1> QED
  BY <1>1, <1>2, StepOfBuffer

\* Between onInit and onUninit a hook only moves the writer: file and
\* operation stay, and the operation is neither pending nor closed.
LEMMA WriterMoves ==
  ASSUME WriterInv,
         at \notin {"new", "done", "ended"}, at' \in Places \ {"new", "done", "ended"},
         state' \in States, limited' \in BOOLEAN, failed' \in BOOLEAN,
         bytes' \in Nat, taken' \in 0..MaxPosts, PlaceAgrees',
         UNCHANGED <<begun, stopped, interrupted, file, op>>
  PROVE  WriterInv'
<1>1. WriterType'
  BY DEF WriterInv, WriterType
<1>2. LifeInv'
  BY DEF WriterInv, LifeInv
<1> QED
  BY <1>1, <1>2 DEF WriterInv

\* One step per hook of the writer ...
LEMMA WriterStepInv ==
  ASSUME TypeOK, WriterInv, WriterStep
  PROVE  WriterInv'
<1>0. pc \in [Sub -> PCs] /\ Writer \in Sub
  BY WriterAssumption DEF TypeOK, SubscriberType
<1>1. ASSUME vars' = vars PROVE pc' = pc
  BY <1>1 DEF vars, subVars
<1>t. /\ state \in States /\ limited \in BOOLEAN /\ failed \in BOOLEAN
      /\ bytes \in Nat /\ taken \in 0..MaxPosts /\ PlaceAgrees
  BY DEF WriterInv, WriterType
<1>2. CASE onInit
  <2>1. file.open /\ at' = "subscribe" /\ state' = "INITIALIZED" /\ pc' = pc
    BY <1>1, <1>2 DEF onInit, WriterInv, LifeInv
  <2>2. PlaceAgrees'
    BY <1>t, <1>2, <2>1 DEF onInit, PlaceAgrees
  <2> QED
    BY <1>t, <1>2, <2>1, <2>2, WriterMoves DEF onInit, Places, States
<1>3. CASE onConnected
  <2>1. at' = "top" /\ state' = "CONNECTED" /\ pc'[Writer] = "loop"
    BY <1>0, <1>3 DEF onConnected, subscribe
  <2>2. PlaceAgrees'
    BY <2>1 DEF PlaceAgrees
  <2> QED
    BY <1>t, <1>3, <2>1, <2>2, WriterMoves DEF onConnected, Places, States
<1>4. CASE onReceiveLoopStart
  <2>1. at' \in {"get", "leave"} /\ state' \in States /\ pc' = pc
    BY <1>1, <1>t, <1>4 DEF onReceiveLoopStart, States
  <2>2. PlaceAgrees'
    BY <1>t, <1>4, <2>1 DEF onReceiveLoopStart, PlaceAgrees
  <2> QED
    BY <1>t, <1>4, <2>1, <2>2, WriterMoves DEF onReceiveLoopStart, Places
<1>5. CASE takeTicket
  <2>1. stamp[Head(tickets[Writer])] \in 0..MaxPosts
    <3>1. tickets[Writer] \in Seq(Ticket) /\ tickets[Writer] # <<>>
      BY <1>0, <1>5 DEF takeTicket, getNext, TypeOK, SubscriberType
    <3>2. Head(tickets[Writer]) \in Ticket
      BY <3>1, HeadTailProperties
    <3> QED
      BY <3>2 DEF TypeOK, HistoryType
  <2>2. at' = "check" /\ pc'[Writer] = "busy"
    BY <1>0, <1>5 DEF takeTicket, getNext
  <2>3. PlaceAgrees'
    BY <2>2 DEF PlaceAgrees
  <2> QED
    BY <1>t, <1>5, <2>1, <2>2, <2>3, WriterMoves DEF takeTicket, Places
<1>6. CASE onTicketBufferEmpty
  <2>1. at' \in {"top", "leave"} /\ pc' = pc
    BY <1>1, <1>6 DEF onTicketBufferEmpty
  <2>2. PlaceAgrees'
    BY <1>t, <1>6, <2>1 DEF onTicketBufferEmpty, PlaceAgrees
  <2> QED
    BY <1>t, <1>6, <2>1, <2>2, WriterMoves DEF onTicketBufferEmpty, Places
<1>7. CASE checkTicket
  <2>1. at' = "write" /\ pc' = pc
    BY <1>7 DEF checkTicket, subVars
  <2>2. PlaceAgrees'
    BY <1>t, <1>7, <2>1 DEF checkTicket, PlaceAgrees
  <2> QED
    BY <1>t, <1>7, <2>1, <2>2, WriterMoves DEF checkTicket, Places
<1>8. CASE writeTicket
  <2>1. bytes' \in Nat
    BY <1>8, <1>t, WriterAssumption DEF writeTicket
  <2>2. limited' \in BOOLEAN
    <3>1. ASSUME NEW n \in 0..(1 + MaxOverrun),
                 limited' = (limited \/ (SizeLimit # 0 /\ bytes + n >= SizeLimit))
          PROVE  limited' \in BOOLEAN
      BY <3>1
    <3> QED
      BY <1>8, <1>t, <3>1 DEF writeTicket
  <2>3. failed' \in BOOLEAN
    BY <1>8, <1>t, Zenon DEF writeTicket
  <2>4. at' = "put" /\ pc' = pc
    BY <1>1, <1>8 DEF writeTicket
  <2>5. PlaceAgrees'
    BY <1>t, <1>8, <2>4 DEF writeTicket, PlaceAgrees
  <2> QED
    BY <1>t, <1>8, <2>1, <2>2, <2>3, <2>4, <2>5, WriterMoves DEF writeTicket, Places
<1>9. CASE putTicket
  <2>1. at' \in {"top", "leave"} /\ pc'[Writer] = "loop"
    BY <1>0, <1>9 DEF putTicket, onTicketReceived
  <2>2. PlaceAgrees'
    BY <2>1 DEF PlaceAgrees
  <2> QED
    BY <1>t, <1>9, <2>1, <2>2, WriterMoves DEF putTicket, Places
<1>10. CASE leave
  <2>1. at' = "drain" /\ pc'[Writer] = "drain"
    BY <1>0, <1>10 DEF leave, leaveLoop
  <2>2. PlaceAgrees'
    BY <2>1 DEF PlaceAgrees
  <2> QED
    BY <1>t, <1>10, <2>1, <2>2, WriterMoves DEF leave, Places
<1>11. CASE disconnect
  <2>0. at = "drain" /\ state' \in States
    BY <1>t, <1>11 DEF disconnect, States
  <2>1. at' \in {"drain", "uninit"} /\ PlaceAgrees'
    <3>1. at' \in {"drain", "uninit"}
      BY <1>11 DEF disconnect
    <3>2. PlaceAgrees'
      <4>1. CASE drainPut(Writer) /\ UNCHANGED <<at, state>>
        BY <1>t, <2>0, <4>1 DEF drainPut, PlaceAgrees
      <4>2. CASE unsubscribe(Writer) /\ UNCHANGED at
        <5>1. pc'[Writer] = "redrain" /\ at' = "drain"
          BY <1>0, <2>0, <4>2 DEF unsubscribe
        <5> QED
          BY <5>1 DEF PlaceAgrees
      <4>3. CASE drainDone(Writer) /\ at' = IF pc[Writer] = "redrain" THEN "uninit" ELSE at
        <5>1. \/ pc'[Writer] = "unsubscribe" /\ at' = "drain"
              \/ pc'[Writer] = "off" /\ at' = "uninit"
          BY <1>0, <2>0, <4>3 DEF drainDone, Draining
        <5> QED
          BY <5>1 DEF PlaceAgrees
      <4> QED
        BY <1>11, <4>1, <4>2, <4>3 DEF disconnect
    <3> QED
      BY <3>1, <3>2
  <2> QED
    BY <1>t, <1>11, <2>0, <2>1, WriterMoves DEF disconnect, Places
<1>12. CASE onUninit
  <2>1. at' = "done" /\ pc' = pc /\ file'.open = FALSE /\ op' = op
    BY <1>1, <1>12 DEF onUninit
  <2>2. WriterType'
    BY <1>12 DEF onUninit, WriterInv, WriterType, Places, States
  <2> QED
    BY <1>12, <2>1, <2>2 DEF onUninit, WriterInv, PlaceAgrees, LifeInv
<1>13. CASE onDone
  <2>1. at' = "ended" /\ pc' = pc /\ file'.open = file.open /\ op' = op
    BY <1>1, <1>13 DEF onDone, WriterInv, WriterType
  <2>2. WriterType'
    BY <1>13 DEF onDone, WriterInv, WriterType, Places, States
  <2> QED
    BY <1>13, <2>1, <2>2 DEF onDone, WriterInv, PlaceAgrees, LifeInv
<1> QED
  BY <1>2, <1>3, <1>4, <1>5, <1>6, <1>7, <1>8, <1>9, <1>10, <1>11, <1>12, <1>13 DEF WriterStep

\* ... one per step of the operation ...
LEMMA OperationStepInv ==
  ASSUME WriterInv,
         \/ OperationStep \/ doWindowStart \/ slotBegins
         \/ \E c \in BOOLEAN : doExecutionStop(c)
  PROVE  WriterInv'
<1>0. WriterType /\ PlaceAgrees /\ LifeInv
  BY DEF WriterInv
<1>1. ASSUME vars' = vars PROVE pc' = pc
  BY <1>1 DEF vars, subVars
<1>2. CASE interruptWriter
  <2>1. interrupted' \in BOOLEAN
    BY <1>2, <1>0 DEF interruptWriter, WriterType
  <2>2. /\ op' \in [stage : OpStages, cancelled : BOOLEAN]
        /\ op'.stage = "join" /\ op.stage = "grace"
    BY <1>2, <1>0 DEF interruptWriter, WriterType, OpStages
  <2>3. pc' = pc /\ UNCHANGED <<at, file>>
    BY <1>1, <1>2 DEF interruptWriter
  <2>4. WriterType'
    BY <1>2, <1>0, <2>1, <2>2 DEF interruptWriter, WriterType
  <2> QED
    BY <1>0, <2>2, <2>3, <2>4 DEF WriterInv, PlaceAgrees, LifeInv
<1>3. CASE joinWriter
  <2>1. /\ op' \in [stage : OpStages, cancelled : BOOLEAN]
        /\ op'.stage = "closed" /\ op'.cancelled = op.cancelled
    BY <1>3, <1>0 DEF joinWriter, WriterType, OpStages
  <2>2. /\ file' \in [open : BOOLEAN, complete : {"none", "YES", "NO"},
                      reason : {"none", "size limit", "manually aborted",
                                "I/O error", "interrupted"}]
        /\ file'.open = file.open
        /\ file'.complete = IF op.cancelled THEN "NO" ELSE "YES"
    BY <1>3, <1>0 DEF joinWriter, WriterType
  <2>3. pc' = pc /\ at' = at /\ at \in {"new", "ended"}
    BY <1>1, <1>3 DEF joinWriter
  <2>4. WriterType'
    BY <1>3, <1>0, <2>1, <2>2 DEF joinWriter, WriterType
  <2> QED
    BY <1>0, <2>1, <2>2, <2>3, <2>4 DEF WriterInv, PlaceAgrees, LifeInv
<1>4. CASE doWindowStart
  <2>1. /\ op' \in [stage : OpStages, cancelled : BOOLEAN]
        /\ op'.stage = "running" /\ op.stage = "pending"
    BY <1>4, <1>0 DEF doWindowStart, WriterType, OpStages
  <2>2. pc' = pc /\ at' = "init" /\ at = "new" /\ file' = file
    BY <1>0, <1>1, <1>4 DEF doWindowStart, LifeInv
  <2>3. WriterType'
    BY <1>4, <1>0, <2>1, <2>2 DEF doWindowStart, WriterType, Places
  <2> QED
    BY <1>0, <2>1, <2>2, <2>3 DEF WriterInv, PlaceAgrees, LifeInv
<1>5. CASE slotBegins
  <2>1. begun' \in BOOLEAN
    BY <1>5, Zenon DEF slotBegins
  <2>2. WriterType'
    BY <1>5, <1>0, <2>1 DEF slotBegins, WriterType
  <2> QED
    BY <1>0, <1>1, <1>5, <2>2 DEF slotBegins, WriterInv, PlaceAgrees, LifeInv
<1>6. ASSUME NEW c \in BOOLEAN, doExecutionStop(c)
      PROVE  WriterInv'
  <2>1. stopped' \in BOOLEAN
    BY <1>0, <1>6, Zenon DEF doExecutionStop, WriterType
  <2>2. /\ op' \in [stage : OpStages, cancelled : BOOLEAN]
        /\ op'.stage \in {"join", "grace"}
    <3>1. PICK g \in {"join", "grace"} : op' = [stage |-> g, cancelled |-> c]
      BY <1>6 DEF doExecutionStop
    <3> QED
      BY <1>6, <3>1 DEF OpStages
  <2>3. pc' = pc /\ UNCHANGED <<at, file>>
    BY <1>1, <1>6 DEF doExecutionStop
  <2>4. WriterType'
    BY <1>6, <1>0, <2>1, <2>2 DEF doExecutionStop, WriterType
  <2> QED
    BY <1>0, <2>2, <2>3, <2>4 DEF WriterInv, PlaceAgrees, LifeInv
<1> QED
  BY <1>2, <1>3, <1>4, <1>5, <1>6 DEF OperationStep

\* ... and none for everyone else.
LEMMA WriterNext ==
  ASSUME TypeOK, WriterInv, [FWNext]_allVars
  PROVE  WriterInv'
<1>1. CASE WriterStep
  BY <1>1, WriterStepInv
<1>2. CASE OperationStep \/ doWindowStart \/ slotBegins \/ \E c \in BOOLEAN : doExecutionStop(c)
  BY <1>2, OperationStepInv
<1>3. ASSUME UNCHANGED fwVars, pc'[Writer] = pc[Writer]
      PROVE  WriterInv'
  <2>1. WriterType'
    BY <1>3 DEF fwVars, WriterInv, WriterType
  <2>2. PlaceAgrees'
    BY <1>3 DEF fwVars, WriterInv, PlaceAgrees
  <2>3. LifeInv'
    BY <1>3 DEF fwVars, WriterInv, LifeInv
  <2> QED
    BY <2>1, <2>2, <2>3 DEF WriterInv
<1>4. CASE OthersStep
  BY <1>3, <1>4, OthersLeaveWriter
<1>5. CASE UNCHANGED allVars
  <2>1. UNCHANGED fwVars /\ pc' = pc
    BY <1>5 DEF allVars, vars, subVars
  <2> QED
    BY <1>3, <2>1
<1> QED
  BY <1>1, <1>2, <1>4, <1>5 DEF FWNext

\* The writer's life is as described in every reachable state, whether or not
\* the recording is stopped.
THEOREM WriterInvariant == FWSpec => [](TypeOK /\ ListInv /\ WriterInv)
<1>1. FWInit => TypeOK /\ ListInv /\ WriterInv
  BY WriterInit
<1>2. TypeOK /\ ListInv /\ WriterInv /\ [FWNext]_allVars => (TypeOK /\ ListInv /\ WriterInv)'
  BY BufferKept, WriterNext
<1> QED
  BY <1>1, <1>2, PTL DEF FWSpec

\* A recording that was closed has no thread behind it (RecordOperation's
\* __doExecutionStop joins its writer): the file is closed, the writer is
\* off the subscriber list and has no ticket.
THEOREM WriterSettledAlways == FWSpec => []WriterSettled
<1>1. TypeOK /\ ListInv /\ WriterInv => WriterSettled
  <2> SUFFICES ASSUME TypeOK, ListInv, WriterInv, op.stage = "closed", at # "new"
               PROVE  /\ at = "ended" /\ ~file.open
                      /\ Writer \notin Range(subscribers)
                      /\ tickets[Writer] = <<>>
    BY DEF WriterSettled
  <2>1. at = "ended" /\ ~file.open /\ pc[Writer] = "off"
    BY DEF WriterInv, LifeInv, PlaceAgrees
  <2> QED
    BY <2>1, WriterAssumption DEF ListInv, NothingLeftBehind
<1> QED
  BY <1>1, WriterInvariant, PTL

\* What the operation says of the file in tagFileMeta is what the file's
\* metadata says from then on.
THEOREM VerdictStandsAlways == FWSpec => []VerdictStands
<1>1. WriterInv => VerdictStands
  BY DEF WriterInv, LifeInv, VerdictStands
<1> QED
  BY <1>1, WriterInvariant, PTL

-----------------------------------------------------------------------------
(* A recording that nobody stops.                                          *)

\* Such a writer goes on until it has written its last ticket.
GoesOn ==
  /\ ~stopped
  /\ at \in {"new", "init", "subscribe", "top", "get", "check", "write"} => ~limited /\ ~failed

\* Only writeTicket ends the recording.
LEMMA GoesOnNext ==
  ASSUME ~CanStop, WriterInv, GoesOn, [FWNext]_allVars
  PROVE  GoesOn'
<1>1. CASE onInit \/ onConnected \/ onReceiveLoopStart \/ takeTicket \/ onTicketBufferEmpty \/ checkTicket
  BY <1>1 DEF onInit, onConnected, onReceiveLoopStart, takeTicket, onTicketBufferEmpty, checkTicket, GoesOn
<1>2. CASE writeTicket \/ leave \/ disconnect \/ onUninit \/ onDone
  <2>1. at' \in {"put", "drain", "uninit", "done", "ended"} /\ stopped' = stopped
    BY <1>2 DEF writeTicket, leave, disconnect, onUninit, onDone
  <2> QED
    BY <2>1 DEF GoesOn
<1>3. CASE putTicket
  BY <1>3 DEF putTicket, canContinue, GoesOn
<1>4. CASE OperationStep \/ doWindowStart \/ slotBegins
  BY <1>4 DEF OperationStep, interruptWriter, joinWriter, doWindowStart, slotBegins, GoesOn, WriterInv, LifeInv
<1>5. ASSUME NEW c \in BOOLEAN, doExecutionStop(c)
      PROVE  GoesOn'
  BY <1>5 DEF doExecutionStop, GoesOn
<1>6. CASE OthersStep \/ UNCHANGED allVars
  BY <1>6 DEF OthersStep, allVars, fwVars, GoesOn
<1> QED
  BY <1>1, <1>2, <1>3, <1>4, <1>5, <1>6 DEF FWNext, WriterStep

\* It never puts a ticket that it goes on to write.
LEMMA NoExtraPut ==
  ASSUME GoesOn PROVE ~ExtraPut
BY DEF GoesOn, ExtraPut, canContinue

\* Every behaviour of a recording that nobody stops is one of TicketBuffer,
\* with the writer one of its subscribers: the writer's hooks keep to the
\* protocol of SubscriberThread and put each ticket once.
THEOREM RecordingRefinesBuffer ==
  ASSUME ~CanStop
  PROVE  FWSpec => Spec
<1>1. FWInit => Init /\ GoesOn
  BY DEF FWInit, GoesOn
<1>2. WriterInv /\ GoesOn /\ [FWNext]_allVars => GoesOn'
  BY GoesOnNext
<1>3. GoesOn /\ [FWNext]_allVars => [Next]_vars
  BY StepOfBuffer, NoExtraPut
<1> QED
  BY <1>1, <1>2, <1>3, WriterInvariant, PTL DEF FWSpec, Spec

-----------------------------------------------------------------------------
(* What the writer was given, and how much of it is in the file.           *)

\* The posts in q come after lo, one later than the other, up to hi.
Rising(q, st, lo, hi) ==
  /\ \A i \in 1..Len(q) : lo < st[q[i]] /\ st[q[i]] <= hi
  /\ \A i, j \in 1..Len(q) : i < j => st[q[i]] < st[q[j]]

\* The front of a queue is older than the rest.
LEMMA RisingTail ==
  ASSUME NEW q \in Seq(Ticket), NEW st \in [Ticket -> Nat], NEW lo \in Int, NEW hi \in Int,
         Rising(q, st, lo, hi), q # <<>>
  PROVE  /\ lo < st[Head(q)] /\ st[Head(q)] <= hi
         /\ Rising(Tail(q), st, lo, hi)
         /\ Rising(Tail(q), st, st[Head(q)], hi)
<1>1. /\ Head(q) = q[1] /\ Tail(q) \in Seq(Ticket) /\ Len(Tail(q)) = Len(q) - 1
      /\ \A i \in 1..(Len(q) - 1) : Tail(q)[i] = q[i + 1]
      /\ Len(q) \in Nat /\ Len(q) > 0
  BY HeadTailProperties, EmptySeq, LenProperties
<1>2. lo < st[q[1]] /\ st[q[1]] <= hi
  BY <1>1 DEF Rising
<1>3. ASSUME NEW i \in 1..Len(Tail(q))
      PROVE  /\ lo < st[Tail(q)[i]] /\ st[Tail(q)[i]] <= hi
             /\ st[q[1]] < st[Tail(q)[i]]
  <2>1. 1 \in 1..Len(q) /\ i + 1 \in 1..Len(q) /\ 1 < i + 1 /\ Tail(q)[i] = q[i + 1]
    BY <1>1
  <2> QED
    BY <2>1 DEF Rising
<1>4. ASSUME NEW i \in 1..Len(Tail(q)), NEW j \in 1..Len(Tail(q)), i < j
      PROVE  st[Tail(q)[i]] < st[Tail(q)[j]]
  <2>1. /\ i + 1 \in 1..Len(q) /\ Tail(q)[i] = q[i + 1]
        /\ j + 1 \in 1..Len(q) /\ Tail(q)[j] = q[j + 1] /\ i + 1 < j + 1
    BY <1>1, <1>4
  <2> QED
    BY <2>1 DEF Rising
<1> QED
  BY <1>1, <1>2, <1>3, <1>4 DEF Rising

\* A new post is later than all in the queue.
LEMMA RisingAppend ==
  ASSUME NEW q \in Seq(Ticket), NEW t \in Ticket, NEW st \in [Ticket -> Nat],
         NEW lo \in Int, NEW hi \in Int,
         Rising(q, st, lo, hi), lo <= hi, hi < st[t]
  PROVE  Rising(Append(q, t), st, lo, st[t])
<1>1. /\ Len(q) \in Nat /\ Len(Append(q, t)) = Len(q) + 1
      /\ \A i \in 1..Len(q) : Append(q, t)[i] = q[i]
      /\ Append(q, t)[Len(q) + 1] = t
  BY AppendProperties, LenProperties
<1>2. \A i \in 1..Len(q) : st[q[i]] \in Nat
  BY ElementOfSeq
<1>3. \A i \in 1..Len(q) : lo < st[q[i]] /\ st[q[i]] <= hi /\ st[q[i]] < st[t]
  BY <1>2 DEF Rising
<1>4. ASSUME NEW i \in 1..(Len(q) + 1)
      PROVE  lo < st[Append(q, t)[i]] /\ st[Append(q, t)[i]] <= st[t]
  <2>1. i \in 1..Len(q) \/ i = Len(q) + 1
    BY <1>1
  <2> QED
    BY <1>1, <1>2, <1>3, <2>1
<1>5. ASSUME NEW i \in 1..(Len(q) + 1), NEW j \in 1..(Len(q) + 1), i < j
      PROVE  st[Append(q, t)[i]] < st[Append(q, t)[j]]
  <2>1. i \in 1..Len(q) /\ (j \in 1..Len(q) \/ j = Len(q) + 1)
    BY <1>1, <1>5
  <2> QED
    BY <1>1, <1>3, <1>5, <2>1 DEF Rising
<1> QED
  BY <1>1, <1>4, <1>5 DEF Rising

\* The same queue with the same stamps, up to a later post.
LEMMA RisingSame ==
  ASSUME NEW q \in Seq(Ticket), NEW st \in [Ticket -> Nat], NEW st2,
         NEW lo \in Int, NEW hi \in Int, NEW hi2 \in Int,
         Rising(q, st, lo, hi), hi <= hi2,
         \A i \in 1..Len(q) : st2[q[i]] = st[q[i]]
  PROVE  Rising(q, st2, lo, hi2)
<1>1. \A i \in 1..Len(q) : st[q[i]] \in Nat
  BY ElementOfSeq
<1>2. ASSUME NEW i \in 1..Len(q) PROVE lo < st2[q[i]] /\ st2[q[i]] <= hi2
  <2>1. lo < st[q[i]] /\ st[q[i]] <= hi
    BY DEF Rising
  <2> QED
    BY <1>1, <2>1
<1>3. ASSUME NEW i \in 1..Len(q), NEW j \in 1..Len(q), i < j PROVE st2[q[i]] < st2[q[j]]
  <2>1. st[q[i]] < st[q[j]]
    BY <1>3 DEF Rising
  <2> QED
    BY <2>1
<1> QED
  BY <1>2, <1>3 DEF Rising

\* The writer was given the posts in order: what it has queued is later than
\* what it took last, and what it works on is what it took last.
TakenInOrder ==
  /\ taken <= LastGiven(Writer)
  /\ Rising(tickets[Writer], stamp, taken, LastGiven(Writer))
  /\ pc[Writer] = "busy" => stamp[cur[Writer]] = taken

\* Facts about types that the steps below need.
LEMMA WriterFacts ==
  ASSUME TypeOK, WriterInv
  PROVE  /\ Writer \in Sub /\ tickets[Writer] \in Seq(Ticket) /\ tickets \in [Sub -> Seq(Ticket)]
         /\ pc \in [Sub -> PCs] /\ cur \in [Sub -> Ticket \cup {NoTicket}]
         /\ pc[Writer] = "busy" => cur[Writer] \in Ticket
         /\ stamp \in [Ticket -> Nat] /\ posted \in Nat /\ taken \in Nat /\ LastGiven(Writer) \in Int
<1>1. MaxPosts \in Nat /\ Writer \in Sub
  BY BoundAssumption, WriterAssumption
<1>2. stamp \in [Ticket -> 0..MaxPosts] /\ posted \in 0..MaxPosts
  BY DEF TypeOK, HistoryType
<1>3. taken \in 0..MaxPosts
  BY DEF WriterInv, WriterType
<1>4. stamp \in [Ticket -> Nat] /\ posted \in Nat /\ taken \in Nat
  BY <1>1, <1>2, <1>3
<1> QED
  BY <1>1, <1>4 DEF TypeOK, SubscriberType, LastGiven

\* What the writer has queued stays or loses its front; no stamp of it
\* changes.
LEMMA TakenFrame ==
  ASSUME TypeOK, WriterInv, TakenInOrder,
         taken' = taken, LastGiven(Writer)' \in Int, LastGiven(Writer) <= LastGiven(Writer)',
         \/ tickets'[Writer] = tickets[Writer]
         \/ tickets[Writer] # <<>> /\ tickets'[Writer] = Tail(tickets[Writer]),
         \A i \in 1..Len(tickets'[Writer]) : stamp'[tickets'[Writer][i]] = stamp[tickets'[Writer][i]],
         pc'[Writer] = "busy" =>
           pc[Writer] = "busy" /\ cur'[Writer] = cur[Writer] /\ stamp'[cur[Writer]] = stamp[cur[Writer]]
  PROVE  TakenInOrder'
<1> DEFINE q == tickets'[Writer]
<1>0. /\ tickets[Writer] \in Seq(Ticket) /\ stamp \in [Ticket -> Nat] /\ taken \in Int
      /\ LastGiven(Writer) \in Int
  BY WriterFacts
<1>1. q \in Seq(Ticket) /\ Rising(q, stamp, taken, LastGiven(Writer))
  <2>1. CASE q = tickets[Writer]
    BY <1>0, <2>1 DEF TakenInOrder
  <2>2. CASE tickets[Writer] # <<>> /\ q = Tail(tickets[Writer])
    BY <1>0, <2>2, RisingTail, HeadTailProperties DEF TakenInOrder
  <2> QED
    BY <2>1, <2>2
<1>2. \A i \in 1..Len(q) : stamp'[q[i]] = stamp[q[i]]
  OBVIOUS
<1> HIDE DEF q
<1>3. Rising(q, stamp', taken, LastGiven(Writer)')
  BY <1>0, <1>1, <1>2, RisingSame
<1>4. taken' <= LastGiven(Writer)'
  BY <1>0 DEF TakenInOrder
<1>5. pc'[Writer] = "busy" => stamp'[cur'[Writer]] = taken'
  BY DEF TakenInOrder
<1> QED
  BY <1>3, <1>4, <1>5 DEF TakenInOrder, q

\* A post changes the stamp of a ticket that the writer does not have.
LEMMA TakenNotifyFill ==
  ASSUME TypeOK, RefInv, WriterInv, TakenInOrder, notifyFill, taken' = taken
  PROVE  TakenInOrder'
<1>0. /\ Writer \in Sub /\ tickets[Writer] \in Seq(Ticket) /\ posted \in Nat
      /\ stamp \in [Ticket -> Nat] /\ pc[Writer] = "busy" => cur[Writer] \in Ticket
  BY WriterFacts
<1>1. held \in Ticket /\ phase = "filling"
  BY DEF notifyFill, TypeOK, ProducerType
<1>2. /\ stamp' = [stamp EXCEPT ![held] = posted + 1] /\ posted' = posted + 1
      /\ UNCHANGED <<tickets, cur, pc>>
      /\ phase' = "deliver" \/ phase' = "idle"
  BY DEF notifyFill, subVars
<1>3. ~Uses(Writer, held)
  <2>1. refCnt[held] = 0
    BY <1>1 DEF RefInv, Pooled, Placed, Filling, TypeOK, BufferType
  <2>2. Users(held) = {}
    BY <1>1, <2>1, CountZero DEF RefInv
  <2> QED
    BY <1>0, <2>2 DEF Users
<1>4. \A i \in 1..Len(tickets[Writer]) : tickets[Writer][i] # held /\ tickets[Writer][i] \in Ticket
  <2>1. \A i \in 1..Len(tickets[Writer]) : tickets[Writer][i] \in Range(tickets[Writer])
    BY <1>0, LenProperties DEF Range
  <2> QED
    BY <1>0, <1>3, <2>1, ElementOfSeq DEF Uses
<1>5. \A i \in 1..Len(tickets'[Writer]) : stamp'[tickets'[Writer][i]] = stamp[tickets'[Writer][i]]
  BY <1>0, <1>1, <1>2, <1>4
<1>6. pc[Writer] = "busy" => stamp'[cur[Writer]] = stamp[cur[Writer]]
  BY <1>0, <1>1, <1>2, <1>3 DEF Uses
<1>7. /\ LastGiven(Writer) = posted /\ LastGiven(Writer)' \in {posted, posted + 1}
  <2>1. LastGiven(Writer) = posted
    BY <1>1 DEF LastGiven
  <2>2. LastGiven(Writer)' \in {posted, posted + 1}
    BY <1>0, <1>2 DEF LastGiven
  <2> QED
    BY <2>1, <2>2
<1> QED
  BY <1>0, <1>2, <1>5, <1>6, <1>7, TakenFrame

\* A ticket that is delivered to the writer is the last one posted.
LEMMA TakenDeliver ==
  ASSUME TypeOK, RefInv, OrderInv, WriterInv, TakenInOrder, onTicketAvailable, taken' = taken
  PROVE  TakenInOrder'
<1>h. PICK h : h = Head(todo)
  OBVIOUS
<1>0. /\ Writer \in Sub /\ tickets[Writer] \in Seq(Ticket) /\ posted \in Nat /\ tickets \in [Sub -> Seq(Ticket)]
      /\ stamp \in [Ticket -> Nat] /\ taken \in Nat
  BY WriterFacts
<1>1. /\ phase = "deliver" /\ held \in Ticket /\ todo \in Seq(Sub) /\ todo # <<>>
      /\ stamp[held] = posted /\ NoDuplicates(todo)
  BY DEF onTicketAvailable, TypeOK, ProducerType, OrderInv, RefInv, UsesOnce
<1>2. /\ h \in Range(todo) /\ h \in Sub /\ h \notin Range(Tail(todo))
      /\ Range(todo) = Range(Tail(todo)) \cup {h}
  BY <1>h, <1>1, RangeTail, HeadTailProperties
<1>3. /\ tickets' = [tickets EXCEPT ![h] = Append(tickets[h], held)] /\ todo' = Tail(todo)
      /\ UNCHANGED <<cur, stamp, posted, pc>>
      /\ \/ Tail(todo) = <<>> /\ phase' = "idle"
         \/ Tail(todo) # <<>> /\ phase' = phase
  BY <1>h DEF onTicketAvailable, histVars
<1>4. Tail(todo) = <<>> => Range(Tail(todo)) = {}
  BY DEF Range
<1>5. CASE h = Writer
  <2>1. LastGiven(Writer) = posted - 1 /\ LastGiven(Writer)' = posted
    BY <1>1, <1>2, <1>3, <1>4, <1>5 DEF LastGiven
  <2>2. tickets'[Writer] = Append(tickets[Writer], held)
    BY <1>0, <1>3, <1>5
  <2>3. Rising(Append(tickets[Writer], held), stamp, taken, posted)
    <3>1. Rising(tickets[Writer], stamp, taken, posted - 1) /\ taken <= posted - 1
      BY <2>1 DEF TakenInOrder
    <3>2. posted - 1 < stamp[held] /\ posted - 1 \in Int /\ taken \in Int
      BY <1>0, <1>1
    <3> QED
      BY <1>0, <1>1, <3>1, <3>2, RisingAppend
  <2>4. taken <= posted
    BY <1>0, <2>1 DEF TakenInOrder
  <2> QED
    BY <1>3, <2>1, <2>2, <2>3, <2>4 DEF TakenInOrder
<1>6. CASE h # Writer
  <2>1. LastGiven(Writer)' = LastGiven(Writer) /\ tickets'[Writer] = tickets[Writer]
    BY <1>0, <1>1, <1>2, <1>3, <1>4, <1>6 DEF LastGiven
  <2> QED
    BY <1>3, <2>1 DEF TakenInOrder
<1> QED
  BY <1>5, <1>6

\* The other steps of the buffer and of its subscribers.
LEMMA TakenQuiet ==
  ASSUME TypeOK, WriterInv, TakenInOrder, taken' = taken,
         \/ nextFreeTicket \/ returnEmpty \/ reset \/ uninit \/ flushLock \/ flushNext
         \/ invalidateDone \/ allocate \/ createTicket \/ destroyTicket \/ initTickets
         \/ notifyGeometry \/ freeResources \/ UNCHANGED vars
  PROVE  TakenInOrder'
<1> USE DEF nextFreeTicket, returnEmpty, reset, uninit, invalidate, flushLock, flushNext,
        invalidateDone, allocate, createTicket, destroyTicket, initTickets, notifyGeometry,
        freeResources, vars, bufVars, prodVars, subVars, histVars
<1>1. UNCHANGED <<tickets, cur, stamp, posted, pc>>
  OBVIOUS
<1>2. \/ phase # "deliver" /\ phase' # "deliver"
      \/ UNCHANGED <<phase, todo>>
  OBVIOUS
<1>3. LastGiven(Writer)' = LastGiven(Writer)
  BY <1>1, <1>2 DEF LastGiven
<1> QED
  BY <1>1, <1>3 DEF TakenInOrder

\* A reset drops what the writer has queued.
LEMMA TakenFlushPut ==
  ASSUME TypeOK, WriterInv, TakenInOrder, flushPut, taken' = taken
  PROVE  TakenInOrder'
<1>h. PICK h : h = Head(todo)
  OBVIOUS
<1>0. Writer \in Sub /\ tickets \in [Sub -> Seq(Ticket)] /\ LastGiven(Writer) \in Int
  BY WriterFacts
<1>1. h \in Sub
  BY <1>h, HeadTodo DEF flushPut
<1>2. /\ tickets[h] # <<>> /\ tickets' = [tickets EXCEPT ![h] = Tail(tickets[h])]
      /\ UNCHANGED <<cur, pc, phase, todo, stamp, posted>>
  BY <1>h DEF flushPut, popAndPut, prodVars, histVars
<1>3. \/ tickets'[Writer] = tickets[Writer]
      \/ tickets[Writer] # <<>> /\ tickets'[Writer] = Tail(tickets[Writer])
  BY <1>0, <1>1, <1>2
<1>4. LastGiven(Writer)' = LastGiven(Writer)
  BY <1>2 DEF LastGiven
<1> QED
  BY <1>0, <1>2, <1>3, <1>4, TakenFrame

\* Another subscriber leaves the writer's queue alone.
LEMMA TakenOthers ==
  ASSUME TypeOK, WriterInv, TakenInOrder, taken' = taken, NEW s \in Sub \ {Writer},
         subscribe(s) \/ SubscriberStep(s) \/ leaveLoop(s)
  PROVE  TakenInOrder'
<1>0. /\ Writer \in Sub /\ tickets \in [Sub -> Seq(Ticket)] /\ pc \in [Sub -> PCs]
      /\ cur \in [Sub -> Ticket \cup {NoTicket}]
  BY WriterFacts
<1>1. /\ tickets'[Writer] = tickets[Writer] /\ pc'[Writer] = pc[Writer] /\ cur'[Writer] = cur[Writer]
      /\ UNCHANGED <<phase, todo, stamp, posted>>
  BY <1>0 DEF subscribe, SubscriberStep, leaveLoop, getNext, onTicketReceived, drainPut, popAndPut,
       drainDone, unsubscribe, prodVars, histVars
<1>2. LastGiven(Writer)' = LastGiven(Writer)
  BY <1>1 DEF LastGiven
<1> QED
  BY <1>1, <1>2 DEF TakenInOrder

\* The writer takes the front of its queue, which is later than what it took
\* before.
LEMMA TakenTake ==
  ASSUME TypeOK, WriterInv, TakenInOrder, takeTicket
  PROVE  TakenInOrder' /\ taken < taken'
<1>0. /\ Writer \in Sub /\ tickets \in [Sub -> Seq(Ticket)] /\ cur \in [Sub -> Ticket \cup {NoTicket}]
      /\ tickets[Writer] \in Seq(Ticket) /\ stamp \in [Ticket -> Nat] /\ taken \in Int /\ LastGiven(Writer) \in Int
  BY WriterFacts
<1>1. /\ tickets[Writer] # <<>> /\ taken' = stamp[Head(tickets[Writer])]
      /\ tickets'[Writer] = Tail(tickets[Writer]) /\ cur'[Writer] = Head(tickets[Writer])
      /\ UNCHANGED <<phase, todo, stamp, posted>>
  BY <1>0 DEF takeTicket, getNext, prodVars, histVars
<1>2. LastGiven(Writer)' = LastGiven(Writer)
  BY <1>1 DEF LastGiven
<1>3. /\ taken < stamp[Head(tickets[Writer])] /\ stamp[Head(tickets[Writer])] <= LastGiven(Writer)
      /\ Rising(Tail(tickets[Writer]), stamp, stamp[Head(tickets[Writer])], LastGiven(Writer))
  <2>1. Rising(tickets[Writer], stamp, taken, LastGiven(Writer))
    BY DEF TakenInOrder
  <2> QED
    BY <1>0, <1>1, <2>1, RisingTail
<1> QED
  BY <1>1, <1>2, <1>3 DEF TakenInOrder

\* The writer's other hooks.
LEMMA TakenWriter ==
  ASSUME TypeOK, WriterInv, TakenInOrder, taken' = taken,
         onConnected \/ checkTicket \/ putTicket \/ leave \/ disconnect
  PROVE  TakenInOrder'
<1>0. /\ Writer \in Sub /\ tickets \in [Sub -> Seq(Ticket)] /\ pc \in [Sub -> PCs]
      /\ cur \in [Sub -> Ticket \cup {NoTicket}] /\ LastGiven(Writer) \in Int
  BY WriterFacts
<1>1. UNCHANGED <<phase, todo, stamp, posted>>
  BY DEF onConnected, checkTicket, putTicket, leave, disconnect, subscribe, onTicketReceived, leaveLoop,
       drainPut, drainDone, unsubscribe, prodVars, histVars
<1>2. LastGiven(Writer)' = LastGiven(Writer)
  BY <1>1 DEF LastGiven
<1>3. CASE checkTicket
  BY <1>2, <1>3 DEF checkTicket, subVars, histVars, TakenInOrder
<1>4. CASE onConnected \/ putTicket \/ leave
  <2>1. tickets' = tickets /\ pc'[Writer] # "busy"
    BY <1>0, <1>4 DEF onConnected, putTicket, leave, subscribe, onTicketReceived, leaveLoop
  <2> QED
    BY <1>1, <1>2, <2>1 DEF TakenInOrder
<1>5. CASE disconnect
  <2>1. pc'[Writer] # "busy"
    <3>1. pc[Writer] # "busy"
      BY <1>5 DEF disconnect, drainPut, drainDone, unsubscribe, Draining
    <3> QED
      BY <1>0, <1>5, <3>1 DEF disconnect, drainPut, drainDone, unsubscribe
  <2>2. \/ tickets'[Writer] = tickets[Writer]
        \/ tickets[Writer] # <<>> /\ tickets'[Writer] = Tail(tickets[Writer])
    BY <1>0, <1>5 DEF disconnect, drainPut, popAndPut, drainDone, unsubscribe
  <2> QED
    BY <1>0, <1>1, <1>2, <2>1, <2>2, TakenFrame
<1> QED
  BY <1>3, <1>4, <1>5

\* Every step keeps the writer's posts in order; one that takes a ticket takes
\* a later post.
LEMMA TakenNext ==
  ASSUME TypeOK, RefInv, OrderInv, WriterInv, TakenInOrder, [FWNext]_allVars
  PROVE  /\ TakenInOrder'
         /\ takeTicket => taken < taken'
         /\ ~takeTicket => taken' = taken
<1>1. CASE takeTicket
  BY <1>1, TakenTake
<1>2. CASE ~takeTicket
  <2>1. taken' = taken
    BY <1>2 DEF FWNext, WriterStep, OperationStep, onInit, onConnected, onReceiveLoopStart,
         onTicketBufferEmpty, checkTicket, writeTicket, putTicket, leave, disconnect, onUninit, onDone,
         interruptWriter, joinWriter, doWindowStart, slotBegins, doExecutionStop, OthersStep, allVars, fwVars
  <2>2. ASSUME onInit \/ onReceiveLoopStart \/ onTicketBufferEmpty \/ writeTicket \/ onUninit \/ onDone
               \/ OperationStep \/ doWindowStart \/ slotBegins \/ (\E c \in BOOLEAN : doExecutionStop(c))
               \/ UNCHANGED allVars
        PROVE  TakenInOrder'
    <3>1. UNCHANGED vars
      BY <2>2 DEF onInit, onReceiveLoopStart, onTicketBufferEmpty, writeTicket, onUninit, onDone,
           OperationStep, interruptWriter, joinWriter, doWindowStart, slotBegins, doExecutionStop, allVars
    <3> QED
      BY <2>1, <3>1, TakenQuiet
  <2>3. ASSUME onConnected \/ checkTicket \/ putTicket \/ leave \/ disconnect
        PROVE  TakenInOrder'
    BY <2>1, <2>3, TakenWriter
  <2>4. ASSUME OthersStep
        PROVE  TakenInOrder'
    <3>1. ASSUME ProducerCall \/ BufferStep
          PROVE  TakenInOrder'
      BY <2>1, <3>1, TakenQuiet, TakenNotifyFill, TakenDeliver, TakenFlushPut DEF ProducerCall, BufferStep
    <3>2. ASSUME NEW s \in Sub \ {Writer}, subscribe(s) \/ SubscriberStep(s) \/ leaveLoop(s)
          PROVE  TakenInOrder'
      BY <2>1, <3>2, TakenOthers
    <3> QED
      BY <2>4, <3>1, <3>2 DEF OthersStep
  <2>5. TakenInOrder'
    <3>1. FWNext \/ UNCHANGED allVars
      OBVIOUS
    <3> QED
      BY <1>2, <2>2, <2>3, <2>4, <3>1 DEF FWNext, WriterStep
  <2> QED
    BY <1>2, <2>1, <2>5
<1> QED
  BY <1>1, <1>2

\* A ticket's worth of bytes, with the most that retries add to it.
Worth == 1 + MaxOverrun

\* Multiplication is monotone; the next post is one ticket's worth more.
LEMMA WorthGrows ==
  ASSUME NEW w \in Nat, NEW a \in Nat, NEW b \in Nat
  PROVE  /\ w * a \in Nat
         /\ a <= b => w * a <= w * b
         /\ a < b => w * a + w <= w * b
<1>1. \A m, n \in Nat : w * (m + n) = w * m + w * n /\ w * m \in Nat
  OBVIOUS
<1>2. ASSUME a <= b PROVE w * a <= w * b
  <2>1. b - a \in Nat /\ b = a + (b - a)
    BY <1>2
  <2>2. w * b = w * a + w * (b - a) /\ w * (b - a) \in Nat
    BY <1>1, <2>1
  <2> QED
    BY <1>1, <2>2
<1>3. ASSUME a < b PROVE w * a + w <= w * b
  <2>1. b - a - 1 \in Nat /\ b = (a + 1) + (b - a - 1) /\ a + 1 \in Nat
    BY <1>3
  <2>2. w * b = w * (a + 1) + w * (b - a - 1) /\ w * (b - a - 1) \in Nat
    BY <1>1, <2>1
  <2>3. w * (a + 1) = w * a + w * 1 /\ w * 1 = w
    BY <1>1
  <2> QED
    BY <1>1, <2>2, <2>3
<1> QED
  BY <1>1, <1>2, <1>3

\* The file has at most a ticket's worth for each post the writer took.
BytesBounded ==
  IF at \in {"check", "write"} THEN bytes + Worth <= Worth * taken
                               ELSE bytes <= Worth * taken

\* writeTicket adds what takeTicket allowed for.
LEMMA BytesNext ==
  ASSUME WriterType, WriterType', BytesBounded, [FWNext]_allVars,
         takeTicket => taken < taken', ~takeTicket => taken' = taken
  PROVE  BytesBounded'
<1>0. /\ Worth \in Nat /\ taken \in Nat /\ taken' \in Nat /\ bytes \in Nat
      /\ Worth * taken \in Nat
  <2>1. MaxOverrun \in Nat /\ MaxPosts \in Nat
    BY WriterAssumption, BoundAssumption
  <2>2. /\ taken \in 0..MaxPosts /\ taken' \in 0..MaxPosts
        /\ bytes \in Nat
    BY DEF WriterType
  <2>3. Worth \in Nat /\ taken \in Nat /\ taken' \in Nat
    BY <2>1, <2>2 DEF Worth
  <2> QED
    BY <2>2, <2>3, WorthGrows
<1>1. CASE takeTicket
  <2>1. bytes' = bytes /\ at = "get" /\ at' = "check"
    BY <1>1 DEF takeTicket
  <2>2. Worth * taken + Worth <= Worth * taken' /\ Worth * taken' \in Nat
    BY <1>0, <1>1, WorthGrows
  <2>3. bytes <= Worth * taken
    BY <2>1 DEF BytesBounded
  <2>4. bytes + Worth <= Worth * taken'
    <3>1. \A a, b, c, w \in Nat : a <= b /\ b + w <= c => a + w <= c
      OBVIOUS
    <3> QED
      BY <1>0, <2>2, <2>3, <3>1
  <2> QED
    BY <2>1, <2>4 DEF BytesBounded, Worth
<1>2. CASE ~takeTicket
  <2>0. taken' = taken
    BY <1>2
  <2>1. CASE writeTicket
    <3>1. at = "write" /\ at' = "put" /\ bytes + Worth <= Worth * taken
      BY <2>1 DEF writeTicket, BytesBounded
    <3>2. bytes' \in Nat /\ bytes' <= bytes + Worth
      BY <2>1, <1>0, WriterAssumption DEF writeTicket, Worth
    <3>3. bytes' <= Worth * taken
      BY <1>0, <3>1, <3>2
    <3> QED
      BY <2>0, <3>1, <3>3 DEF BytesBounded, Worth
  <2>2. CASE ~writeTicket
    <3>1. bytes' = bytes /\ (at' \in {"check", "write"} => at \in {"check", "write"})
      BY <1>2, <2>2 DEF FWNext, WriterStep, OperationStep, onInit, onConnected, onReceiveLoopStart,
           onTicketBufferEmpty, checkTicket, putTicket, leave, disconnect, onUninit, onDone,
           interruptWriter, joinWriter, doWindowStart, slotBegins, doExecutionStop, OthersStep, allVars, fwVars
    <3>2. bytes <= Worth * taken
      BY <1>0 DEF BytesBounded
    <3> QED
      BY <2>0, <3>1, <3>2 DEF BytesBounded, Worth
  <2> QED
    BY <2>1, <2>2
<1> QED
  BY <1>1, <1>2

\* A recording that nobody stops is sound: the writer's state is consistent,
\* the reference counts are exact, what it writes does not change under it,
\* and the file has no more than what it was given.
THEOREM RecordingSoundAlways ==
  ASSUME ~CanStop
  PROVE  FWSpec => []RecordingSound
<1>1. FWInit => TakenInOrder /\ BytesBounded
  <2> SUFFICES ASSUME FWInit PROVE TakenInOrder /\ BytesBounded
    OBVIOUS
  <2>1. /\ taken = 0 /\ bytes = 0 /\ posted = 0 /\ phase = "idle" /\ tickets[Writer] = <<>>
        /\ pc[Writer] = "off" /\ at = "new"
    BY WriterAssumption DEF FWInit, Init
  <2>2. LastGiven(Writer) = 0
    BY <2>1 DEF LastGiven
  <2>3. Rising(<<>>, stamp, 0, 0)
    BY DEF Rising
  <2>4. Worth * 0 = 0
    BY WriterAssumption DEF Worth
  <2> QED
    BY <2>1, <2>2, <2>3, <2>4 DEF TakenInOrder, BytesBounded
<1>2. /\ TypeOK /\ ListInv /\ RefInv /\ OrderInv /\ WriterInv /\ WriterInv'
      /\ TakenInOrder /\ BytesBounded /\ [FWNext]_allVars
      => (TakenInOrder /\ BytesBounded)'
  <2> SUFFICES ASSUME TypeOK, ListInv, RefInv, OrderInv, WriterInv, WriterInv',
                      TakenInOrder, BytesBounded, [FWNext]_allVars
               PROVE  TakenInOrder' /\ BytesBounded'
    OBVIOUS
  <2> QED
    BY TakenNext, BytesNext DEF WriterInv
<1>3. TypeOK /\ WriterInv /\ BytesBounded => FWTypeOK
  <2> SUFFICES ASSUME TypeOK, WriterInv, BytesBounded PROVE FWTypeOK
    OBVIOUS
  <2>1. bytes \in 0..((1 + MaxOverrun) * MaxPosts)
    <3>1. Worth \in Nat /\ MaxPosts \in Nat
      BY WriterAssumption, BoundAssumption DEF Worth
    <3>2. taken \in Nat /\ taken <= MaxPosts /\ bytes \in Nat
      <4>1. taken \in 0..MaxPosts /\ bytes \in Nat
        BY DEF WriterInv, WriterType
      <4> QED
        BY <3>1, <4>1
    <3>3. /\ Worth * taken \in Nat /\ Worth * MaxPosts \in Nat
          /\ Worth * taken <= Worth * MaxPosts
      BY <3>1, <3>2, WorthGrows
    <3>4. bytes <= Worth * taken
      BY <3>1, <3>2, <3>3 DEF BytesBounded
    <3>5. \A a, b, c \in Nat : a <= b /\ b <= c => a \in 0..c
      OBVIOUS
    <3>6. bytes \in 0..(Worth * MaxPosts)
      BY <3>2, <3>3, <3>4, <3>5
    <3> QED
      BY <3>6 DEF Worth
  <2>2. {begun, stopped, limited, failed, interrupted} \subseteq BOOLEAN
    BY DEF WriterInv, WriterType
  <2>3. pc[Writer] = CASE at \in {"top", "get", "leave"}   -> "loop"
                       [] at \in {"check", "write", "put"} -> "busy"
                       [] at = "drain" -> pc[Writer]
                       [] OTHER        -> "off"
    <3>1. \/ at \in {"top", "get", "leave"} \/ at \in {"check", "write", "put"} \/ at = "drain"
          \/ at \in {"new", "init", "subscribe", "uninit", "done", "ended"}
      BY DEF WriterInv, WriterType, Places
    <3> QED
      BY <3>1 DEF WriterInv, PlaceAgrees
  <2> QED
    BY <2>1, <2>2, <2>3 DEF FWTypeOK, WriterInv, WriterType
<1>4. TypeOK /\ RefInv /\ WriterInv /\ TakenInOrder => DataStable
  <2> SUFFICES ASSUME TypeOK, RefInv, WriterInv, TakenInOrder, pc[Writer] = "busy"
               PROVE  stamp[cur[Writer]] = taken /\ ~Filling(cur[Writer])
    BY DEF DataStable
  <2>1. Writer \in Sub /\ cur[Writer] \in Ticket
    BY WriterFacts
  <2>2. Writer \in Users(cur[Writer])
    BY <2>1 DEF Users, Uses
  <2>3. refCnt[cur[Writer]] # 0
    BY <2>1, <2>2, CountZero DEF RefInv
  <2>4. ~Filling(cur[Writer])
    BY <2>1, <2>3 DEF RefInv, Pooled, Placed, TypeOK, BufferType
  <2> QED
    BY <2>4 DEF TakenInOrder
<1>5. FWTypeOK /\ RefCountExact /\ DataStable => RecordingSound
  BY DEF RecordingSound
<1> QED
  BY <1>1, <1>2, <1>3, <1>4, <1>5, RecordingRefinesBuffer, WriterInvariant, Invariance,
     OrderInvariant, CountIsExact, PTL DEF FWSpec
=============================================================================
