------------------------- MODULE TicketBufferProofs -------------------------
(***************************************************************************)
(* Theorems about TicketBuffer, for every set of tickets, subscribers and  *)
(* geometries.  Ended threads leave nothing behind; reference counts are   *)
(* exact, tickets are conserved, a resize is quiesced, geometries agree,   *)
(* and every subscriber sees the posts in order.                           *)
(*                                                                         *)
(* The inductive invariant RefInv counts the *users* of a ticket, the      *)
(* subscribers that queue it, process it or are next in the loop of        *)
(* useTicket.  Moving a ticket along that path changes no user set, so     *)
(* only put, reGet and the start of useTicket have to be counted.          *)
(***************************************************************************)
EXTENDS TicketBuffer, FiniteSetTheorems, SequenceTheorems, TLAPS

-----------------------------------------------------------------------------
(* Lemmas about the operators.                                             *)

\* A wrapped count is a count a size_t can hold.
LEMMA WrapType ==
  ASSUME NEW n \in Int
  PROVE  Wrap(n) \in 0..(RefMod - 1)
BY BoundAssumption, FS_CardinalityType, SubAssumption, SMT DEF Wrap

\* Ticket::put leaves a count and a pool of tickets, whatever they were.
LEMMA PutType ==
  ASSUME NEW t \in Ticket, BufferType, put(t)
  PROVE  /\ refCnt' \in [Ticket -> 0..(RefMod - 1)]
         /\ freeTickets' \in Seq(Ticket)
<1> DEFINE n == Wrap(refCnt[t] - 1)
<1>1. refCnt[t] - 1 \in Int
  BY BoundAssumption DEF BufferType
<1>2. n \in 0..(RefMod - 1)
  BY <1>1, WrapType
<1>3. refCnt' = [refCnt EXCEPT ![t] = n]
  BY DEF put
<1>4. freeTickets' = Append(freeTickets, t) \/ freeTickets' = freeTickets
  BY DEF put, releaseTicket
<1> HIDE DEF n
<1>5. refCnt' \in [Ticket -> 0..(RefMod - 1)]
  BY <1>2, <1>3 DEF BufferType
<1>6. freeTickets \in Seq(Ticket) /\ Append(freeTickets, t) \in Seq(Ticket)
  BY DEF BufferType
<1>7. freeTickets' \in Seq(Ticket)
  BY <1>4, <1>6, Zenon
<1> QED
  BY <1>5, <1>7

\* Removing an element leaves a sequence over the same set.
LEMMA RemoveAtType ==
  ASSUME NEW S, NEW q \in Seq(S), NEW i \in DOMAIN q
  PROVE  RemoveAt(q, i) \in Seq(S)
BY DEF RemoveAt

-----------------------------------------------------------------------------
(* Type correctness.                                                       *)

\* Init is well typed.
LEMMA TypeInit == Init => TypeOK
<1> SUFFICES ASSUME Init PROVE TypeOK
  OBVIOUS
<1> USE DEF Init
<1>1. 0 \in 0..Cardinality(Ticket) /\ 0 \in 0..(RefMod - 1)
  BY BoundAssumption, TicketAssumption, SubAssumption, FS_CardinalityType
<1>2. BufferType
  BY <1>1 DEF BufferType
<1>3. ProducerType
  <2>1. todo \in Seq(Sub) /\ todo = <<>>
    OBVIOUS
  <2>2. phase = "idle" /\ phase \in Phases
    BY DEF Phases
  <2> QED
    BY <2>1, <2>2 DEF ProducerType
<1>4. SubscriberType
  BY DEF SubscriberType, PCs
<1>5. HistoryType
  BY BoundAssumption DEF HistoryType
<1> QED
  BY <1>2, <1>3, <1>4, <1>5 DEF TypeOK

\* What put() and the pop of a queue leave.
LEMMA PopAndPutType ==
  ASSUME NEW s \in Sub, TypeOK, popAndPut(s)
  PROVE  /\ refCnt' \in [Ticket -> 0..(RefMod - 1)]
         /\ freeTickets' \in Seq(Ticket)
         /\ tickets' \in [Sub -> Seq(Ticket)]
<1>1. tickets[s] \in Seq(Ticket) /\ tickets[s] # <<>>
  BY DEF TypeOK, SubscriberType, popAndPut
<1>2. Head(tickets[s]) \in Ticket /\ Tail(tickets[s]) \in Seq(Ticket)
  BY <1>1, HeadTailProperties
<1>3. put(Head(tickets[s]))
  BY DEF popAndPut
<1>4. tickets' \in [Sub -> Seq(Ticket)]
  BY <1>2 DEF TypeOK, SubscriberType, popAndPut
<1> QED
  BY <1>2, <1>3, <1>4, PutType DEF TypeOK

\* The subscriber the producer's loop is at.
LEMMA HeadTodo ==
  ASSUME TypeOK, phase \in {"deliver", "flush"}
  PROVE  /\ todo # <<>>
         /\ Head(todo) \in Sub
         /\ Tail(todo) \in Seq(Sub)
<1>1. todo \in Seq(Sub) /\ todo # <<>>
  BY DEF TypeOK, ProducerType
<1> QED
  BY <1>1, HeadTailProperties

\* Every call the producer makes and every step of the buffer's code keeps
\* the types.
LEMMA TypeProducer ==
  ASSUME TypeOK, ProducerCall \/ BufferStep
  PROVE  TypeOK'
<1> USE DEF TypeOK, Phases, bufVars, prodVars, subVars, histVars
<1>1. CASE nextFreeTicket
  <2> USE <1>1
  <2>1. freeTickets \in Seq(Ticket) /\ freeTickets # <<>>
    BY DEF nextFreeTicket, BufferType
  <2>2. Head(freeTickets) \in Ticket /\ Tail(freeTickets) \in Seq(Ticket)
    BY <2>1, HeadTailProperties
  <2>3. BufferType'
    BY <2>2 DEF nextFreeTicket, BufferType
  <2>4. ProducerType'
    BY <2>2, TicketAssumption DEF nextFreeTicket, ProducerType
  <2>5. SubscriberType'
    BY DEF nextFreeTicket, SubscriberType
  <2>6. HistoryType'
    BY DEF nextFreeTicket, HistoryType
  <2> QED
    BY <2>3, <2>4, <2>5, <2>6
<1>2. CASE returnEmpty
  <2> USE <1>2
  <2>1. held \in Ticket
    BY DEF returnEmpty, ProducerType
  <2>2. Append(freeTickets, held) \in Seq(Ticket)
    BY <2>1 DEF BufferType
  <2>3. BufferType'
    BY <2>2 DEF returnEmpty, BufferType, releaseTicket
  <2>4. ProducerType'
    BY DEF returnEmpty, ProducerType
  <2>5. SubscriberType'
    BY DEF returnEmpty, SubscriberType
  <2>6. HistoryType'
    BY DEF returnEmpty, HistoryType
  <2> QED
    BY <2>3, <2>4, <2>5, <2>6
<1>3. CASE notifyFill
  <2> USE <1>3
  <2>1. held \in Ticket
    BY DEF notifyFill, ProducerType
  <2>2. Append(freeTickets, held) \in Seq(Ticket)
    BY <2>1 DEF BufferType
  <2>3. freeTickets' \in Seq(Ticket)
    BY <2>2, Zenon DEF notifyFill, releaseTicket, BufferType
  <2>4. Wrap(Len(subscribers)) \in 0..(RefMod - 1)
    BY WrapType DEF BufferType
  <2>5. [refCnt EXCEPT ![held] = Wrap(Len(subscribers))] \in [Ticket -> 0..(RefMod - 1)]
    BY <2>1, <2>4 DEF BufferType
  <2>6. refCnt' \in [Ticket -> 0..(RefMod - 1)]
    BY <2>5, Zenon DEF notifyFill, BufferType
  <2>7. posted + 1 \in 0..MaxPosts
    BY BoundAssumption DEF notifyFill, HistoryType
  <2>8. BufferType'
    BY <2>3, <2>6 DEF notifyFill, BufferType
  <2>9. ProducerType'
    BY DEF notifyFill, ProducerType, BufferType
  <2>10. SubscriberType'
    BY DEF notifyFill, SubscriberType
  <2>11. HistoryType'
    BY <2>1, <2>7 DEF notifyFill, HistoryType
  <2> QED
    BY <2>8, <2>9, <2>10, <2>11
<1>4. CASE onTicketAvailable
  <2> USE <1>4
  <2>1. Head(todo) \in Sub /\ Tail(todo) \in Seq(Sub)
    BY HeadTodo DEF onTicketAvailable
  <2>2. held \in Ticket
    BY DEF onTicketAvailable, ProducerType
  <2>3. Append(tickets[Head(todo)], held) \in Seq(Ticket)
    BY <2>1, <2>2 DEF SubscriberType
  <2>4. BufferType'
    BY DEF onTicketAvailable, BufferType
  <2>5. ProducerType'
    BY <2>1 DEF onTicketAvailable, ProducerType
  <2>6. SubscriberType'
    BY <2>1, <2>3 DEF onTicketAvailable, SubscriberType
  <2>7. HistoryType'
    BY DEF onTicketAvailable, HistoryType
  <2> QED
    BY <2>4, <2>5, <2>6, <2>7
<1>5. ASSUME NEW g \in Geom \cup {NoGeom}, invalidate(g) PROVE TypeOK'
  <2> USE <1>5
  <2>1. BufferType'
    BY DEF invalidate, BufferType
  <2>2. phase' \in {"free", "alloc", "wait", "flush"} /\ target' = g
    BY DEF invalidate
  <2>3. phase' = "alloc" => g \in Geom
    BY DEF invalidate
  <2>4. todo' \in Seq(Sub) /\ (todo' # <<>> <=> phase' = "flush")
    BY DEF invalidate, BufferType, ProducerType
  <2>5. ProducerType'
    BY <2>2, <2>3, <2>4 DEF invalidate, ProducerType
  <2>6. SubscriberType'
    BY DEF invalidate, SubscriberType
  <2>7. HistoryType'
    BY DEF invalidate, HistoryType
  <2> QED
    BY <2>1, <2>5, <2>6, <2>7
<1>6. CASE flushLock
  <2> USE <1>6
  <2>1. BufferType'
    BY DEF flushLock, BufferType
  <2>2. ProducerType'
    BY DEF flushLock, ProducerType
  <2>3. SubscriberType'
    BY DEF flushLock, SubscriberType
  <2>4. HistoryType'
    BY DEF flushLock, HistoryType
  <2> QED
    BY <2>1, <2>2, <2>3, <2>4
<1>7. CASE flushPut
  <2> USE <1>7
  <2>1. Head(todo) \in Sub
    BY HeadTodo DEF flushPut
  <2>2. popAndPut(Head(todo))
    BY DEF flushPut
  <2>3. /\ refCnt' \in [Ticket -> 0..(RefMod - 1)]
        /\ freeTickets' \in Seq(Ticket)
        /\ tickets' \in [Sub -> Seq(Ticket)]
    BY <2>1, <2>2, PopAndPutType
  <2>4. BufferType'
    BY <2>3 DEF flushPut, BufferType
  <2>5. ProducerType'
    BY DEF flushPut, ProducerType
  <2>6. SubscriberType'
    BY <2>3 DEF flushPut, SubscriberType
  <2>7. HistoryType'
    BY DEF flushPut, HistoryType
  <2> QED
    BY <2>4, <2>5, <2>6, <2>7
<1>8. CASE flushNext
  <2> USE <1>8
  <2>1. Tail(todo) \in Seq(Sub)
    BY HeadTodo DEF flushNext
  <2>2. BufferType'
    BY DEF flushNext, BufferType
  <2>3. ProducerType'
    BY <2>1 DEF flushNext, ProducerType
  <2>4. SubscriberType'
    BY DEF flushNext, SubscriberType
  <2>5. HistoryType'
    BY DEF flushNext, HistoryType
  <2> QED
    BY <2>2, <2>3, <2>4, <2>5
<1>9. CASE invalidateDone
  <2> USE <1>9
  <2>1. BufferType'
    BY DEF invalidateDone, BufferType
  <2>2. ProducerType'
    BY DEF invalidateDone, ProducerType
  <2>3. SubscriberType'
    BY DEF invalidateDone, SubscriberType
  <2>4. HistoryType'
    BY DEF invalidateDone, HistoryType
  <2> QED
    BY <2>1, <2>2, <2>3, <2>4
<1>10. CASE allocate
  <2> USE <1>10
  <2>1. BufferType'
    BY DEF allocate, BufferType
  <2>2. ProducerType'
    BY DEF allocate, ProducerType
  <2>3. SubscriberType'
    BY DEF allocate, SubscriberType
  <2>4. HistoryType'
    BY DEF allocate, HistoryType
  <2> QED
    BY <2>1, <2>2, <2>3, <2>4
<1>11. CASE createTicket
  <2> USE <1>11
  <2>1. PICK t \in Ticket \ live :
             /\ live' = live \cup {t}
             /\ freeTickets' = Append(freeTickets, t)
    BY DEF createTicket
  <2>2. Append(freeTickets, t) \in Seq(Ticket)
    BY DEF BufferType
  <2>3. BufferType'
    BY <2>1, <2>2 DEF createTicket, BufferType
  <2>4. ProducerType'
    BY DEF createTicket, ProducerType
  <2>5. SubscriberType'
    BY DEF createTicket, SubscriberType
  <2>6. HistoryType'
    BY DEF createTicket, HistoryType
  <2> QED
    BY <2>3, <2>4, <2>5, <2>6
<1>12. CASE destroyTicket
  <2> USE <1>12
  <2>1. freeTickets \in Seq(Ticket)
    BY DEF BufferType
  <2>2. NumTickets(target) \in Nat
    BY GeomAssumption, TicketAssumption, FS_CardinalityType DEF destroyTicket, ProducerType
  <2>3. freeTickets # <<>>
    BY <2>1, <2>2 DEF destroyTicket
  <2>4. Tail(freeTickets) \in Seq(Ticket)
    BY <2>1, <2>3, HeadTailProperties
  <2>5. BufferType'
    BY <2>4 DEF destroyTicket, BufferType
  <2>6. ProducerType'
    BY DEF destroyTicket, ProducerType
  <2>7. SubscriberType'
    BY DEF destroyTicket, SubscriberType
  <2>8. HistoryType'
    BY DEF destroyTicket, HistoryType
  <2> QED
    BY <2>5, <2>6, <2>7, <2>8
<1>13. CASE initTickets
  <2> USE <1>13
  <2>1. target \in Geom
    BY DEF initTickets, ProducerType
  <2>2. NumTickets(target) \in 0..Cardinality(Ticket)
    BY <2>1, GeomAssumption, TicketAssumption, FS_CardinalityType
  <2>3. 0 \in 0..(RefMod - 1)
    BY BoundAssumption, SubAssumption, FS_CardinalityType
  <2>4. refCnt' \in [Ticket -> 0..(RefMod - 1)]
    BY <2>3 DEF initTickets, BufferType
  <2>5. fmt' \in [Ticket -> Geom \cup {NoGeom}]
    BY <2>1 DEF initTickets, BufferType
  <2>6. BufferType'
    BY <2>1, <2>2, <2>4, <2>5 DEF initTickets, BufferType
  <2>7. ProducerType'
    BY DEF initTickets, ProducerType
  <2>8. SubscriberType'
    BY DEF initTickets, SubscriberType
  <2>9. HistoryType'
    BY DEF initTickets, HistoryType
  <2> QED
    BY <2>6, <2>7, <2>8, <2>9
<1>14. CASE notifyGeometry
  <2> USE <1>14
  <2>1. BufferType'
    BY DEF notifyGeometry, BufferType
  <2>2. ProducerType'
    BY DEF notifyGeometry, ProducerType
  <2>3. SubscriberType'
    BY DEF notifyGeometry, SubscriberType, BufferType
  <2>4. HistoryType'
    BY DEF notifyGeometry, HistoryType
  <2> QED
    BY <2>1, <2>2, <2>3, <2>4
<1>15. CASE freeResources
  <2> USE <1>15
  <2>1. BufferType'
    BY DEF freeResources, BufferType
  <2>2. ProducerType'
    BY DEF freeResources, ProducerType
  <2>3. SubscriberType'
    BY DEF freeResources, SubscriberType
  <2>4. HistoryType'
    BY DEF freeResources, HistoryType
  <2> QED
    BY <2>1, <2>2, <2>3, <2>4
<1> QED
  BY <1>1, <1>2, <1>3, <1>4, <1>5, <1>6, <1>7, <1>8, <1>9, <1>10, <1>11, <1>12, <1>13, <1>14, <1>15
     DEF ProducerCall, BufferStep, reset, uninit

\* So does every step of a subscriber thread.
LEMMA TypeSubscriber ==
  ASSUME TypeOK, NEW s \in Sub,
         subscribe(s) \/ SubscriberStep(s) \/ reGet(s) \/ leaveLoop(s)
  PROVE  TypeOK'
<1> USE DEF TypeOK, PCs, bufVars, prodVars, subVars, histVars
<1>1. CASE subscribe(s)
  <2> USE <1>1
  <2>1. BufferType'
    BY DEF subscribe, BufferType
  <2>2. ProducerType'
    BY DEF subscribe, ProducerType
  <2>3. SubscriberType'
    BY DEF subscribe, SubscriberType, BufferType
  <2>4. HistoryType'
    BY DEF subscribe, HistoryType
  <2> QED
    BY <2>1, <2>2, <2>3, <2>4
<1>2. CASE getNext(s)
  <2> USE <1>2
  <2>1. tickets[s] \in Seq(Ticket) /\ tickets[s] # <<>>
    BY DEF getNext, SubscriberType
  <2>2. Head(tickets[s]) \in Ticket /\ Tail(tickets[s]) \in Seq(Ticket)
    BY <2>1, HeadTailProperties
  <2>3. BufferType'
    BY DEF getNext, BufferType
  <2>4. ProducerType'
    BY DEF getNext, ProducerType
  <2>5. SubscriberType'
    BY <2>2, TicketAssumption DEF getNext, SubscriberType
  <2>6. HistoryType'
    BY DEF getNext, HistoryType
  <2> QED
    BY <2>3, <2>4, <2>5, <2>6
<1>3. CASE reGet(s)
  <2> USE <1>3
  <2>1. cur[s] \in Ticket
    BY DEF reGet, SubscriberType
  <2>2. refCnt[cur[s]] + 1 \in Int
    BY <2>1, BoundAssumption DEF BufferType
  <2>3. Wrap(refCnt[cur[s]] + 1) \in 0..(RefMod - 1)
    BY <2>2, WrapType
  <2>4. kept[cur[s]] + 1 \in 0..MaxKept
    BY <2>1, BoundAssumption DEF reGet, HistoryType
  <2>5. BufferType'
    BY <2>1, <2>3 DEF reGet, BufferType
  <2>6. ProducerType'
    BY DEF reGet, ProducerType
  <2>7. SubscriberType'
    BY DEF reGet, SubscriberType
  <2>8. HistoryType'
    BY <2>1, <2>4 DEF reGet, HistoryType
  <2> QED
    BY <2>5, <2>6, <2>7, <2>8
<1>4. CASE onTicketReceived(s)
  <2> USE <1>4
  <2>1. cur[s] \in Ticket
    BY DEF onTicketReceived, SubscriberType
  <2>2. put(cur[s])
    BY DEF onTicketReceived
  <2>3. refCnt' \in [Ticket -> 0..(RefMod - 1)] /\ freeTickets' \in Seq(Ticket)
    BY <2>1, <2>2, PutType
  <2>4. BufferType'
    BY <2>3 DEF onTicketReceived, BufferType
  <2>5. ProducerType'
    BY DEF onTicketReceived, ProducerType
  <2>6. SubscriberType'
    BY DEF onTicketReceived, SubscriberType
  <2>7. HistoryType'
    BY DEF onTicketReceived, HistoryType
  <2> QED
    BY <2>4, <2>5, <2>6, <2>7
<1>5. CASE leaveLoop(s)
  <2> USE <1>5
  <2>1. BufferType'
    BY DEF leaveLoop, BufferType
  <2>2. ProducerType'
    BY DEF leaveLoop, ProducerType
  <2>3. SubscriberType'
    BY DEF leaveLoop, SubscriberType
  <2>4. HistoryType'
    BY DEF leaveLoop, HistoryType
  <2> QED
    BY <2>1, <2>2, <2>3, <2>4
<1>6. CASE drainPut(s)
  <2> USE <1>6
  <2>1. popAndPut(s)
    BY DEF drainPut
  <2>2. /\ refCnt' \in [Ticket -> 0..(RefMod - 1)]
        /\ freeTickets' \in Seq(Ticket)
        /\ tickets' \in [Sub -> Seq(Ticket)]
    BY <2>1, PopAndPutType
  <2>3. BufferType'
    BY <2>2 DEF drainPut, BufferType
  <2>4. ProducerType'
    BY DEF drainPut, ProducerType
  <2>5. SubscriberType'
    BY <2>2 DEF drainPut, SubscriberType
  <2>6. HistoryType'
    BY DEF drainPut, HistoryType
  <2> QED
    BY <2>3, <2>4, <2>5, <2>6
<1>7. CASE drainDone(s)
  <2> USE <1>7
  <2>1. BufferType'
    BY DEF drainDone, BufferType
  <2>2. ProducerType'
    BY DEF drainDone, ProducerType
  <2>3. SubscriberType'
    BY DEF drainDone, SubscriberType, Draining
  <2>4. HistoryType'
    BY DEF drainDone, HistoryType
  <2> QED
    BY <2>1, <2>2, <2>3, <2>4
<1>8. CASE unsubscribe(s)
  <2> USE <1>8
  <2>1. PICK i \in DOMAIN subscribers : subscribers' = RemoveAt(subscribers, i)
    BY DEF unsubscribe
  <2>2. subscribers' \in Seq(Sub)
    BY <2>1, RemoveAtType DEF BufferType
  <2>3. BufferType'
    BY <2>2 DEF unsubscribe, BufferType
  <2>4. ProducerType'
    BY DEF unsubscribe, ProducerType
  <2>5. SubscriberType'
    BY DEF unsubscribe, SubscriberType
  <2>6. HistoryType'
    BY DEF unsubscribe, HistoryType
  <2> QED
    BY <2>3, <2>4, <2>5, <2>6
<1> QED
  BY <1>1, <1>2, <1>3, <1>4, <1>5, <1>6, <1>7, <1>8 DEF SubscriberStep

\* And the end of a reference taken with reGet.
LEMMA TypePutKept ==
  ASSUME TypeOK, NEW t \in Ticket, putKept(t)
  PROVE  TypeOK'
<1> USE DEF TypeOK, prodVars, subVars
<1>1. put(t)
  BY DEF putKept
<1>2. refCnt' \in [Ticket -> 0..(RefMod - 1)] /\ freeTickets' \in Seq(Ticket)
  BY <1>1, PutType
<1>3. BufferType'
  BY <1>2 DEF putKept, BufferType
<1>4. ProducerType'
  BY DEF putKept, ProducerType
<1>5. SubscriberType'
  BY DEF putKept, SubscriberType
<1>6. HistoryType'
  BY BoundAssumption DEF putKept, HistoryType
<1> QED
  BY <1>3, <1>4, <1>5, <1>6

\* Every step keeps the types.
LEMMA TypeNext ==
  ASSUME TypeOK, [Next]_vars
  PROVE  TypeOK'
<1>1. CASE Next
  BY <1>1, TypeProducer, TypeSubscriber, TypePutKept DEF Next
<1>2. CASE UNCHANGED vars
  BY <1>2 DEF vars, bufVars, prodVars, subVars, histVars, TypeOK,
              BufferType, ProducerType, SubscriberType, HistoryType
<1> QED
  BY <1>1, <1>2

\* Type correctness: in every behaviour the producer holds a ticket exactly
\* while it fills or posts one, visits subscribers exactly while it is inside
\* useTicket or __invalidate, and ref_cnt is a size_t.
THEOREM TypeCorrect == Spec => []TypeOK
BY TypeInit, TypeNext, PTL DEF Spec

-----------------------------------------------------------------------------
(* Lemmas about sequences without duplicates.                              *)

\* Append adds its element to the range.
LEMMA RangeAppend ==
  ASSUME NEW S, NEW q \in Seq(S), NEW x \in S
  PROVE  Range(Append(q, x)) = Range(q) \cup {x}
<1>1. /\ DOMAIN Append(q, x) = 1..(Len(q) + 1)
      /\ \A i \in 1..Len(q) : Append(q, x)[i] = q[i]
      /\ Append(q, x)[Len(q) + 1] = x
  BY AppendProperties
<1>2. DOMAIN q = 1..Len(q) /\ Len(q) \in Nat
  OBVIOUS
<1> QED
  BY <1>1, <1>2 DEF Range

\* Appending a new element makes no duplicate.
LEMMA NoDuplicatesAppend ==
  ASSUME NEW S, NEW q \in Seq(S), NEW x \in S,
         NoDuplicates(q), x \notin Range(q)
  PROVE  NoDuplicates(Append(q, x))
<1>1. /\ DOMAIN Append(q, x) = 1..(Len(q) + 1)
      /\ \A i \in 1..Len(q) : Append(q, x)[i] = q[i]
      /\ Append(q, x)[Len(q) + 1] = x
  BY AppendProperties
<1>2. DOMAIN q = 1..Len(q) /\ Len(q) \in Nat
  OBVIOUS
<1> QED
  BY <1>1, <1>2 DEF NoDuplicates, Range

\* The front of a queue without duplicates is gone once it is popped.
LEMMA RangeTail ==
  ASSUME NEW S, NEW q \in Seq(S), q # <<>>
  PROVE  /\ Head(q) \in Range(q)
         /\ Range(Tail(q)) \subseteq Range(q)
         /\ Range(q) \subseteq Range(Tail(q)) \cup {Head(q)}
         /\ NoDuplicates(q) => /\ NoDuplicates(Tail(q))
                               /\ Head(q) \notin Range(Tail(q))
<1>1. /\ Len(q) \in Nat \ {0}
      /\ DOMAIN q = 1..Len(q)
      /\ DOMAIN Tail(q) = 1..(Len(q) - 1)
      /\ \A i \in 1..(Len(q) - 1) : Tail(q)[i] = q[i + 1]
      /\ Head(q) = q[1]
  BY HeadTailProperties
<1>2. Head(q) \in Range(q)
  BY <1>1 DEF Range
<1>3. Range(Tail(q)) \subseteq Range(q)
  BY <1>1 DEF Range
<1>4. ASSUME NEW x \in Range(q), x # Head(q) PROVE x \in Range(Tail(q))
  <2>1. PICK i \in 1..Len(q) : q[i] = x
    BY <1>1 DEF Range
  <2>2. i - 1 \in 1..(Len(q) - 1) /\ Tail(q)[i - 1] = x
    BY <1>1, <1>4, <2>1
  <2> QED
    BY <1>1, <2>2 DEF Range
<1>5. ASSUME NoDuplicates(q)
      PROVE  NoDuplicates(Tail(q)) /\ Head(q) \notin Range(Tail(q))
  <2>1. \A i, j \in 1..Len(q) : q[i] = q[j] => i = j
    BY <1>1, <1>5 DEF NoDuplicates
  <2>2. NoDuplicates(Tail(q))
    BY <1>1, <2>1 DEF NoDuplicates
  <2>3. Head(q) \notin Range(Tail(q))
    BY <1>1, <2>1 DEF Range
  <2> QED
    BY <2>2, <2>3
<1> QED
  BY <1>2, <1>3, <1>4, <1>5

\* unsubscribe() takes exactly the one entry off the list.
LEMMA RangeRemoveAt ==
  ASSUME NEW S, NEW q \in Seq(S), NEW i \in DOMAIN q, NoDuplicates(q)
  PROVE  /\ Range(RemoveAt(q, i)) = Range(q) \ {q[i]}
         /\ NoDuplicates(RemoveAt(q, i))
<1> DEFINE r == RemoveAt(q, i)
<1>1. Len(q) \in Nat /\ DOMAIN q = 1..Len(q) /\ i \in 1..Len(q)
  OBVIOUS
<1>2. /\ DOMAIN r = 1..(Len(q) - 1)
      /\ \A j \in 1..(Len(q) - 1) : r[j] = IF j < i THEN q[j] ELSE q[j + 1]
  <2> DEFINE a == SubSeq(q, 1, i - 1)
             b == SubSeq(q, i + 1, Len(q))
  <2>1. /\ a \in Seq(S)
        /\ Len(a) = i - 1
        /\ \A j \in 1..(i - 1) : a[j] = q[j]
    BY <1>1
  <2>2. /\ b \in Seq(S)
        /\ Len(b) = Len(q) - i
        /\ \A j \in 1..(Len(q) - i) : b[j] = q[j + i]
    BY <1>1
  <2>3. r = a \o b
    BY DEF RemoveAt
  <2> HIDE DEF a, b, r
  <2>4. /\ Len(r) = Len(q) - 1
        /\ r \in Seq(S)
        /\ \A j \in 1..(Len(q) - 1) :
             r[j] = IF j <= i - 1 THEN a[j] ELSE b[j - (i - 1)]
    <3>1. /\ a \o b \in Seq(S)
          /\ Len(a \o b) = Len(a) + Len(b)
          /\ \A j \in 1..(Len(a) + Len(b)) :
               (a \o b)[j] = IF j <= Len(a) THEN a[j] ELSE b[j - Len(a)]
      BY <2>1, <2>2, ConcatProperties, Zenon
    <3>2. Len(a) = i - 1 /\ Len(a) + Len(b) = Len(q) - 1
      BY <1>1, <2>1, <2>2
    <3> QED
      BY <2>3, <3>1, <3>2, Zenon
  <2>5. ASSUME NEW j \in 1..(Len(q) - 1)
        PROVE  r[j] = IF j < i THEN q[j] ELSE q[j + 1]
    <3>1. CASE j < i
      BY <1>1, <2>1, <2>4, <3>1
    <3>2. CASE ~(j < i)
      <4>1. j - (i - 1) \in 1..(Len(q) - i) /\ (j - (i - 1)) + i = j + 1
        BY <1>1, <3>2
      <4>2. r[j] = b[j - (i - 1)]
        BY <1>1, <2>4, <3>2
      <4> QED
        BY <2>2, <3>2, <4>1, <4>2
    <3> QED
      BY <3>1, <3>2
  <2> QED
    BY <1>1, <2>4, <2>5
<1>3. \A j, k \in 1..Len(q) : q[j] = q[k] => j = k
  BY <1>1 DEF NoDuplicates
<1> HIDE DEF r
<1>4. NoDuplicates(r)
  BY <1>1, <1>2, <1>3 DEF NoDuplicates
<1>5. Range(r) \subseteq Range(q) \ {q[i]}
  BY <1>1, <1>2, <1>3 DEF Range
<1>6. ASSUME NEW x \in Range(q), x # q[i] PROVE x \in Range(r)
  <2>1. PICK j \in 1..Len(q) : q[j] = x
    BY <1>1 DEF Range
  <2>2. CASE j < i
    BY <1>1, <1>2, <2>1, <2>2 DEF Range
  <2>3. CASE j > i
    <3>1. j - 1 \in 1..(Len(q) - 1) /\ r[j - 1] = x
      BY <1>1, <1>2, <2>1, <2>3
    <3> QED
      BY <1>2, <3>1 DEF Range
  <2> QED
    BY <1>1, <1>6, <2>1, <2>2, <2>3
<1> QED
  BY <1>4, <1>5, <1>6 DEF r

-----------------------------------------------------------------------------
(* The subscriber list.                                                    *)

\* The inductive form of NothingLeftBehind: while the producer holds the list
\* it visits only threads that are on it, so nobody who has ended is given a
\* ticket.
LoopOnList == phase \in {"deliver", "flush"} => Range(todo) \subseteq Range(subscribers)

ListInv == NothingLeftBehind /\ LoopOnList

\* Nobody is on the list initially.
LEMMA ListInit == Init => ListInv
BY DEF Init, ListInv, NothingLeftBehind, LoopOnList, NoDuplicates, Range

\* The producer's loops shrink from the list they were started with.
LEMMA LoopProducer ==
  ASSUME TypeOK, ListInv, ProducerCall \/ BufferStep
  PROVE  LoopOnList'
<1> USE DEF ListInv, bufVars, prodVars
<1>1. UNCHANGED subscribers
  BY DEF ProducerCall, BufferStep, nextFreeTicket, returnEmpty, notifyFill,
         reset, uninit, invalidate, onTicketAvailable, flushLock, flushPut,
         flushNext, invalidateDone, allocate, createTicket, destroyTicket,
         initTickets, notifyGeometry, freeResources
<1>2. CASE notifyFill \/ reset \/ uninit
  <2>1. phase' \in {"deliver", "flush"} => todo' = subscribers
    BY <1>2 DEF notifyFill, reset, uninit, invalidate
  <2> QED
    BY <1>1, <2>1 DEF LoopOnList
<1>3. CASE onTicketAvailable \/ flushNext
  <2>1. phase \in {"deliver", "flush"} /\ todo' = Tail(todo)
    BY <1>3 DEF onTicketAvailable, flushNext
  <2>2. todo \in Seq(Sub) /\ todo # <<>>
    BY <2>1 DEF TypeOK, ProducerType
  <2>3. Range(Tail(todo)) \subseteq Range(todo)
    BY <2>2, RangeTail
  <2>4. Range(todo') \subseteq Range(subscribers')
    BY <1>1, <2>1, <2>3 DEF LoopOnList
  <2> QED
    BY <2>4 DEF LoopOnList
<1>4. CASE flushLock \/ flushPut
  BY <1>1, <1>4 DEF LoopOnList, flushLock, flushPut
<1>5. CASE nextFreeTicket \/ returnEmpty \/ invalidateDone \/ allocate
             \/ createTicket \/ destroyTicket \/ initTickets
             \/ notifyGeometry \/ freeResources
  <2>1. phase' \notin {"deliver", "flush"}
    BY <1>5 DEF nextFreeTicket, returnEmpty, invalidateDone, allocate,
                createTicket, destroyTicket, initTickets, notifyGeometry,
                freeResources
  <2> QED
    BY <2>1 DEF LoopOnList
<1> QED
  BY <1>2, <1>3, <1>4, <1>5 DEF ProducerCall, BufferStep

\* What the producer does to a queue: onTicketAvailable reaches only threads
\* that are on the list, and so have not ended.
LEMMA ListProducer ==
  ASSUME TypeOK, ListInv, ProducerCall \/ BufferStep
  PROVE  ListInv'
<1> USE DEF ListInv, bufVars, prodVars, subVars
<1>1. UNCHANGED <<subscribers, pc>>
  BY DEF ProducerCall, BufferStep, nextFreeTicket, returnEmpty, notifyFill,
         reset, uninit, invalidate, onTicketAvailable, flushLock, flushPut,
         flushNext, invalidateDone, allocate, createTicket, destroyTicket,
         initTickets, notifyGeometry, freeResources
<1>2. CASE onTicketAvailable
  <2>1. todo \in Seq(Sub) /\ todo # <<>> /\ phase = "deliver"
    BY <1>2 DEF onTicketAvailable, TypeOK, ProducerType
  <2>2. Head(todo) \in Range(subscribers) /\ Head(todo) \in Sub
    BY <2>1, RangeTail, HeadTodo DEF LoopOnList
  <2>3. pc[Head(todo)] # "off"
    BY <2>2 DEF NothingLeftBehind
  <2>4. \A s \in Sub : pc[s] = "off" => tickets'[s] = tickets[s]
    BY <1>2, <2>3 DEF onTicketAvailable, TypeOK, SubscriberType
  <2>5. NothingLeftBehind'
    BY <1>1, <2>4 DEF NothingLeftBehind
  <2> QED
    BY <2>5, LoopProducer
<1>3. CASE flushPut
  <2>1. Head(todo) \in Sub
    BY <1>3, HeadTodo DEF flushPut
  <2>2. \A s \in Sub : tickets[s] = <<>> => tickets'[s] = tickets[s]
    BY <1>3, <2>1 DEF flushPut, popAndPut, TypeOK, SubscriberType
  <2>3. NothingLeftBehind'
    BY <1>1, <2>2 DEF NothingLeftBehind
  <2> QED
    BY <2>3, LoopProducer
<1>4. CASE UNCHANGED tickets
  <2>1. NothingLeftBehind'
    BY <1>1, <1>4 DEF NothingLeftBehind
  <2> QED
    BY <2>1, LoopProducer
<1>5. onTicketAvailable \/ flushPut \/ UNCHANGED tickets
  BY DEF ProducerCall, BufferStep, nextFreeTicket, returnEmpty, notifyFill,
         reset, uninit, invalidate, flushLock, flushNext, invalidateDone,
         allocate, createTicket, destroyTicket, initTickets, notifyGeometry,
         freeResources
<1> QED
  BY <1>2, <1>3, <1>4, <1>5

\* A thread changes its own place in the list and its own queue; the list
\* only while the producer is in none of its loops.
LEMMA ListSubscriber ==
  ASSUME TypeOK, ListInv, NEW s \in Sub,
         subscribe(s) \/ SubscriberStep(s) \/ reGet(s) \/ leaveLoop(s)
  PROVE  ListInv'
<1> USE DEF ListInv, bufVars, prodVars
<1>0. /\ UNCHANGED <<phase, todo>>
      /\ pc \in [Sub -> PCs] /\ tickets \in [Sub -> Seq(Ticket)]
      /\ subscribers \in Seq(Sub)
  BY DEF TypeOK, BufferType, SubscriberType, subscribe, SubscriberStep,
         getNext, reGet, onTicketReceived, leaveLoop, drainPut, drainDone,
         unsubscribe
<1>1. CASE subscribe(s)
  <2>1. /\ s \notin Range(subscribers)
        /\ subscribers' = Append(subscribers, s)
        /\ pc' = [pc EXCEPT ![s] = "loop"]
        /\ UNCHANGED tickets
        /\ phase \notin {"deliver", "flush"}
    BY <1>1 DEF subscribe, NothingLeftBehind, ListUnlocked
  <2>2. NoDuplicates(subscribers')
    BY <1>0, <2>1, NoDuplicatesAppend DEF NothingLeftBehind
  <2>3. Range(subscribers') = Range(subscribers) \cup {s}
    BY <1>0, <2>1, RangeAppend
  <2>4. NothingLeftBehind'
    BY <1>0, <2>1, <2>2, <2>3 DEF NothingLeftBehind
  <2> QED
    BY <1>0, <2>1, <2>4 DEF LoopOnList
<1>2. CASE unsubscribe(s)
  <2>1. /\ pc[s] = "unsubscribe"
        /\ pc' = [pc EXCEPT ![s] = "redrain"]
        /\ UNCHANGED tickets
        /\ phase \notin {"deliver", "flush"}
    BY <1>2 DEF unsubscribe, ListUnlocked
  <2>2. PICK i \in DOMAIN subscribers :
          subscribers[i] = s /\ subscribers' = RemoveAt(subscribers, i)
    BY <1>2 DEF unsubscribe
  <2>3. NoDuplicates(subscribers') /\ Range(subscribers') = Range(subscribers) \ {s}
    BY <1>0, <2>2, RangeRemoveAt DEF NothingLeftBehind
  <2>4. NothingLeftBehind'
    BY <1>0, <2>1, <2>3 DEF NothingLeftBehind
  <2> QED
    BY <1>0, <2>1, <2>4 DEF LoopOnList
<1>3. CASE ~subscribe(s) /\ ~unsubscribe(s)
  <2>1. UNCHANGED subscribers
    BY <1>3 DEF SubscriberStep, getNext, reGet, onTicketReceived, leaveLoop,
                drainPut, drainDone
  <2>2. /\ pc[s] # "off"
        /\ \A x \in Sub \ {s} : pc'[x] = pc[x] /\ tickets'[x] = tickets[x]
        /\ pc'[s] \in {"off", "redrain"} <=> pc[s] \in {"off", "redrain"}
        /\ pc'[s] = "off" => tickets'[s] = <<>>
    BY <1>0, <1>3 DEF SubscriberStep, getNext, reGet, onTicketReceived,
                leaveLoop, drainPut, drainDone, Draining, popAndPut, subVars
  <2>3. NothingLeftBehind'
    BY <2>1, <2>2 DEF NothingLeftBehind
  <2> QED
    BY <1>0, <2>1, <2>3 DEF LoopOnList
<1> QED
  BY <1>1, <1>2, <1>3

\* Every step keeps the list in order.
LEMMA ListNext ==
  ASSUME TypeOK, ListInv, [Next]_vars
  PROVE  ListInv'
<1>1. CASE UNCHANGED vars \/ \E t \in Ticket : putKept(t)
  <2>1. UNCHANGED <<subscribers, pc, tickets, phase, todo>>
    BY <1>1 DEF vars, putKept, prodVars, subVars
  <2> QED
    BY <2>1 DEF ListInv, NothingLeftBehind, LoopOnList
<1> QED
  BY <1>1, ListProducer, ListSubscriber DEF Next

\* The list invariant holds in every behaviour.
LEMMA ListInvariant == Spec => []ListInv
BY ListInit, TypeCorrect, ListNext, PTL DEF Spec

\* A thread that has ended is off the list and holds no ticket: the posts
\* that race with its end are caught by the second onReset() of run().
THEOREM EndedThreadsLeaveNothing == Spec => []NothingLeftBehind
BY ListInvariant, PTL DEF ListInv

-----------------------------------------------------------------------------
(* Reference counting.                                                     *)

\* A list without duplicates is as long as it has elements.
LEMMA LenIsCardinality ==
  ASSUME NEW S, NEW q \in Seq(S), NoDuplicates(q)
  PROVE  IsFiniteSet(Range(q)) /\ Cardinality(Range(q)) = Len(q)
<1>1. Len(q) \in Nat /\ DOMAIN q = 1..Len(q) /\ q \in [1..Len(q) -> Range(q)]
  BY DEF Range
<1>2. IsFiniteSet(1..Len(q)) /\ Cardinality(1..Len(q)) = Len(q)
  BY <1>1, FS_Interval
<1>3. q \in Surjection(1..Len(q), Range(q))
  BY <1>1 DEF Surjection, Range
<1>4. q \in Injection(1..Len(q), Range(q))
  BY <1>1 DEF Injection, IsInjective, NoDuplicates
<1> QED
  BY <1>1, <1>2, <1>3, <1>4, FS_Surjection

\* s has t, is about to get it, or works on it.
Uses(s, t) ==
  \/ t \in Range(tickets[s])
  \/ cur[s] = t
  \/ phase = "deliver" /\ held = t /\ s \in Range(todo)

Users(t) == {s \in Sub : Uses(s, t)}

\* No subscriber uses a ticket in two ways, or twice in one.
UsesOnce ==
  /\ \A s \in Sub : NoDuplicates(tickets[s]) /\ cur[s] \notin Range(tickets[s])
  /\ phase = "deliver" =>
       /\ NoDuplicates(todo)
       /\ \A s \in Range(todo) : held \notin Range(tickets[s]) /\ cur[s] # held

CountsUsers == \A t \in Ticket : refCnt[t] = Cardinality(Users(t)) + kept[t]

\* A ticket that exists is in exactly one place.
Placed(t) ==
  /\ t \in live <=> InPool(t) \/ Filling(t) \/ refCnt[t] > 0
  /\ ~(InPool(t) /\ Filling(t))
  /\ refCnt[t] > 0 => ~InPool(t) /\ ~Filling(t)

Pooled ==
  /\ NoDuplicates(freeTickets)
  /\ \A t \in Ticket : Placed(t)
  /\ phase \notin {"resize", "dead"} => Cardinality(live) = numTickets

Quiet == \A t \in Ticket : refCnt[t] = 0

\* _invalid, the phase of the producer and the use of tickets go together.
Calm ==
  /\ phase \in {"filling", "deliver", "flush"} => ~invalid
  /\ phase \in {"wait", "alloc", "resize", "notify", "free", "dead"} => invalid
  /\ invalid /\ phase # "wait" => Quiet
  /\ phase = "resize" /\ numTickets = NumTickets(target) =>
       Len(freeTickets) = numTickets

RefInv == UsesOnce /\ CountsUsers /\ Pooled /\ Calm

-----------------------------------------------------------------------------
(* Counting.                                                               *)

\* A ticket has at most one use per subscriber.
LEMMA UsersFinite ==
  ASSUME NEW t
  PROVE  /\ IsFiniteSet(Users(t))
         /\ Cardinality(Users(t)) \in Nat
         /\ Cardinality(Users(t)) <= Cardinality(Sub)
         /\ Cardinality(Users(t)) = 0 <=> Users(t) = {}
<1>1. Users(t) \in SUBSET Sub
  BY DEF Users
<1>2. IsFiniteSet(Users(t)) /\ Cardinality(Users(t)) <= Cardinality(Sub)
  BY <1>1, SubAssumption, FS_Subset
<1> QED
  BY <1>2, FS_CardinalityType, FS_EmptySet

\* A ticket whose count is 0 has no user; one that has a user, or that was
\* kept, has a positive count.
LEMMA CountZero ==
  ASSUME TypeOK, CountsUsers, NEW t \in Ticket
  PROVE  /\ refCnt[t] = 0 <=> Users(t) = {} /\ kept[t] = 0
         /\ refCnt[t] \in Nat
         /\ refCnt[t] > 0 <=> refCnt[t] # 0
<1>1. refCnt[t] = Cardinality(Users(t)) + kept[t]
  BY DEF CountsUsers
<1>2. kept[t] \in Nat /\ refCnt[t] \in Nat
  BY BoundAssumption DEF TypeOK, HistoryType, BufferType
<1> QED
  BY <1>1, <1>2, UsersFinite

\* Cardinalities of disjoint sets add up.
LEMMA DisjointUnion ==
  ASSUME NEW S, NEW T, IsFiniteSet(S), IsFiniteSet(T), S \cap T = {}
  PROVE  /\ IsFiniteSet(S \cup T)
         /\ Cardinality(S \cup T) = Cardinality(S) + Cardinality(T)
<1>1. Cardinality(S) \in Nat /\ Cardinality(T) \in Nat
  BY FS_CardinalityType
<1>2. Cardinality(S \cap T) = 0
  BY FS_EmptySet
<1>3. /\ IsFiniteSet(S \cup T)
      /\ Cardinality(S \cup T) =
           Cardinality(S) + Cardinality(T) - Cardinality(S \cap T)
  BY FS_Union, Zenon
<1> QED
  BY <1>1, <1>2, <1>3

\* The references the properties count are the users and the kept ones.
LEMMA ReferencesAreUsers ==
  ASSUME TypeOK, UsesOnce, NEW t \in Ticket
  PROVE  References(t) = Cardinality(Users(t)) + kept[t]
<1> DEFINE Q == Queueing(t)
           P == Processing(t)
           D == IF phase = "deliver" /\ held = t THEN Range(todo) ELSE {}
<1>1. todo \in Seq(Sub)
  BY DEF TypeOK, ProducerType
<1>2. D \subseteq Sub /\ Q \subseteq Sub /\ P \subseteq Sub
  BY <1>1 DEF Queueing, Processing, Range
<1>3. /\ IsFiniteSet(D) /\ IsFiniteSet(Q) /\ IsFiniteSet(P)
      /\ Cardinality(D) \in Nat /\ Cardinality(Q) \in Nat
      /\ Cardinality(P) \in Nat
  BY <1>2, SubAssumption, FS_Subset, FS_CardinalityType
<1>4. Users(t) = (Q \cup P) \cup D
  BY <1>2 DEF Users, Uses, Queueing, Processing
<1>5. Q \cap P = {} /\ (Q \cup P) \cap D = {}
  BY DEF UsesOnce, Queueing, Processing
<1>6. Cardinality(D) = Undelivered(t)
  <2>1. CASE phase = "deliver" /\ held = t
    BY <1>1, <2>1, LenIsCardinality DEF Undelivered, UsesOnce
  <2>2. CASE ~(phase = "deliver" /\ held = t)
    BY <2>2, FS_EmptySet DEF Undelivered
  <2> QED
    BY <2>1, <2>2
<1>7. kept[t] \in Nat
  BY BoundAssumption DEF TypeOK, HistoryType
<1> HIDE DEF Q, P, D
<1>8. IsFiniteSet(Q \cup P) /\ Cardinality(Q \cup P) = Cardinality(Q) + Cardinality(P)
  BY <1>3, <1>5, DisjointUnion
<1>9. Cardinality((Q \cup P) \cup D) = Cardinality(Q) + Cardinality(P) + Cardinality(D)
  BY <1>3, <1>5, <1>8, DisjointUnion
<1> QED
  BY <1>3, <1>4, <1>6, <1>7, <1>9 DEF References, Q, P

-----------------------------------------------------------------------------
(* Ticket::put.                                                            *)

\* A count below the modulus does not wrap.
LEMMA WrapSmall ==
  ASSUME NEW n \in Nat, n < RefMod
  PROVE  Wrap(n) = n
BY BoundAssumption DEF Wrap

\* put() of a ticket in use lowers its count by one without wrapping, and
\* moves the ticket to the pool if and only if that was the last reference.
LEMMA PutKeepsPool ==
  ASSUME TypeOK, RefInv, NEW t \in Ticket, refCnt[t] > 0, put(t),
         UNCHANGED <<live, phase, held, numTickets, invalid, target>>
  PROVE  /\ refCnt' = [refCnt EXCEPT ![t] = refCnt[t] - 1]
         /\ Pooled'
         /\ Calm'
<1> USE DEF RefInv
<1>1. /\ refCnt \in [Ticket -> 0..(RefMod - 1)]
      /\ freeTickets \in Seq(Ticket)
      /\ RefMod \in Nat
  BY BoundAssumption DEF TypeOK, BufferType
<1>2. Wrap(refCnt[t] - 1) = refCnt[t] - 1
  <2>1. refCnt[t] \in 0..(RefMod - 1)
    BY <1>1
  <2>2. refCnt[t] - 1 \in Nat /\ refCnt[t] - 1 < RefMod
    BY <1>1, <2>1
  <2> QED
    BY <2>2, WrapSmall
<1>3. refCnt' = [refCnt EXCEPT ![t] = refCnt[t] - 1]
  BY <1>2 DEF put
<1>4. IF refCnt[t] - 1 = 0 THEN freeTickets' = Append(freeTickets, t)
                           ELSE freeTickets' = freeTickets
  BY <1>2 DEF put, releaseTicket
<1>5. t \in live /\ t \notin Range(freeTickets) /\ ~Filling(t)
  BY DEF Pooled, Placed, InPool
<1>6. Range(freeTickets') = IF refCnt[t] - 1 = 0 THEN Range(freeTickets) \cup {t}
                                                 ELSE Range(freeTickets)
  <2>1. Range(Append(freeTickets, t)) = Range(freeTickets) \cup {t}
    BY <1>1, RangeAppend
  <2>2. CASE refCnt[t] - 1 = 0
    BY <1>4, <2>1, <2>2
  <2>3. CASE refCnt[t] - 1 # 0
    BY <1>4, <2>3
  <2> QED
    BY <2>2, <2>3
<1>7. NoDuplicates(freeTickets')
  BY <1>1, <1>4, <1>5, NoDuplicatesAppend DEF Pooled
<1>8. refCnt[t] \in Nat /\ refCnt'[t] = refCnt[t] - 1
  BY <1>1, <1>3
<1>9. ASSUME NEW u \in Ticket PROVE Placed(u)'
  <2>1. Placed(u) /\ (Filling(u)' <=> Filling(u))
    BY DEF Pooled, Filling
  <2>2. CASE u = t
    BY <1>5, <1>6, <1>8, <2>1, <2>2 DEF Placed, InPool
  <2>3. CASE u # t
    <3>1. refCnt'[u] = refCnt[u] /\ (u \in Range(freeTickets') <=> u \in Range(freeTickets))
      BY <1>1, <1>3, <1>6, <2>3
    <3> QED
      BY <2>1, <3>1 DEF Placed, InPool
  <2> QED
    BY <2>2, <2>3
<1>10. Pooled'
  BY <1>7, <1>9 DEF Pooled
<1>11. ~Quiet
  BY <1>8 DEF Quiet
<1>12. Calm'
  BY <1>11 DEF Calm
<1> QED
  BY <1>3, <1>10, <1>12

\* One user fewer is one reference fewer.
LEMMA PutCountsUsers ==
  ASSUME TypeOK, RefInv, NEW t \in Ticket, NEW s \in Users(t),
         refCnt' = [refCnt EXCEPT ![t] = refCnt[t] - 1],
         Users(t)' = Users(t) \ {s},
         \A u \in Ticket \ {t} : Users(u)' = Users(u),
         UNCHANGED kept
  PROVE  CountsUsers'
<1>1. ASSUME NEW u \in Ticket PROVE refCnt'[u] = Cardinality(Users(u)') + kept'[u]
  <2>1. /\ refCnt[u] = Cardinality(Users(u)) + kept[u]
        /\ refCnt \in [Ticket -> 0..(RefMod - 1)]
        /\ kept[u] \in Nat
    BY BoundAssumption DEF RefInv, CountsUsers, TypeOK, BufferType, HistoryType
  <2>2. CASE u = t
    <3>1. Cardinality(Users(t) \ {s}) = Cardinality(Users(t)) - 1
      BY UsersFinite, FS_RemoveElement
    <3>2. Cardinality(Users(t)) \in Nat
      BY UsersFinite
    <3>3. refCnt'[t] = refCnt[t] - 1 /\ kept'[t] = kept[t]
      BY <2>1
    <3>4. Cardinality(Users(t)') = Cardinality(Users(t)) - 1
      BY <3>1
    <3>5. refCnt[t] = Cardinality(Users(t)) + kept[t] /\ kept[t] \in Nat
      BY <2>1, <2>2
    <3>6. refCnt'[t] = Cardinality(Users(t)') + kept'[t]
      BY <3>2, <3>3, <3>4, <3>5
    <3> QED
      BY <2>2, <3>6
  <2>3. CASE u # t
    BY <2>1, <2>3
  <2> QED
    BY <2>2, <2>3
<1> QED
  BY <1>1 DEF CountsUsers

\* A round of __onReset, whoever runs it.
LEMMA PopAndPutRefInv ==
  ASSUME TypeOK, RefInv, NEW s \in Sub, popAndPut(s),
         UNCHANGED <<live, phase, held, todo, numTickets, invalid, target,
                     cur, kept>>
  PROVE  RefInv'
<1> DEFINE q == tickets[s]
<1>0. PICK t : t = Head(tickets[s])
  OBVIOUS
<1>1. /\ q \in Seq(Ticket) /\ q # <<>>
      /\ tickets \in [Sub -> Seq(Ticket)]
      /\ tickets' = [tickets EXCEPT ![s] = Tail(q)]
      /\ put(t)
      /\ NoDuplicates(q)
      /\ todo \in Seq(Sub)
  BY <1>0 DEF TypeOK, SubscriberType, ProducerType, popAndPut, RefInv, UsesOnce
<1>2. /\ t \in Ticket
      /\ t \in Range(q)
      /\ t \notin Range(Tail(q))
      /\ Range(Tail(q)) \subseteq Range(q)
      /\ Range(q) \subseteq Range(Tail(q)) \cup {t}
      /\ NoDuplicates(Tail(q))
  BY <1>0, <1>1, RangeTail, HeadTailProperties
<1>3. /\ tickets'[s] = Tail(q)
      /\ \A x \in Sub \ {s} : tickets'[x] = tickets[x]
  BY <1>1
<1>4. Range(todo) \subseteq Sub
  BY <1>1 DEF Range
<1>5. UsesOnce'
  <2>1. \A x \in Sub : NoDuplicates(tickets'[x]) /\ Range(tickets'[x]) \subseteq Range(tickets[x])
    BY <1>2, <1>3 DEF RefInv, UsesOnce
  <2> QED
    BY <1>4, <2>1 DEF RefInv, UsesOnce
<1>6. Users(t)' = Users(t) \ {s}
  BY <1>2, <1>3 DEF Users, Uses, RefInv, UsesOnce
<1>7. \A u \in Ticket \ {t} : Users(u)' = Users(u)
  BY <1>2, <1>3 DEF Users, Uses
<1>8. s \in Users(t)
  BY <1>2 DEF Users, Uses
<1>9. refCnt[t] > 0
  BY <1>2, <1>8, CountZero DEF RefInv
<1>10. Pooled' /\ Calm' /\ refCnt' = [refCnt EXCEPT ![t] = refCnt[t] - 1]
  BY <1>1, <1>2, <1>9, PutKeepsPool
<1>11. CountsUsers'
  BY <1>2, <1>6, <1>7, <1>8, <1>10, PutCountsUsers
<1> QED
  BY <1>5, <1>10, <1>11 DEF RefInv

\* The end of onTicketReceived: its put() takes one user away.
LEMMA OnTicketReceivedRefInv ==
  ASSUME TypeOK, RefInv, NEW s \in Sub, onTicketReceived(s)
  PROVE  RefInv'
<1>0. PICK t : t = cur[s]
  OBVIOUS
<1>1. /\ t \in Ticket /\ cur \in [Sub -> Ticket \cup {NoTicket}]
      /\ cur' = [cur EXCEPT ![s] = NoTicket]
      /\ put(t)
      /\ UNCHANGED <<live, phase, held, todo, numTickets, invalid, target,
                     tickets, kept>>
      /\ todo \in Seq(Sub)
      /\ tickets \in [Sub -> Seq(Ticket)]
      /\ phase = "deliver" => held \in Ticket
  BY <1>0 DEF TypeOK, SubscriberType, ProducerType, onTicketReceived,
              prodVars, histVars
<1>2. cur'[s] = NoTicket /\ (\A x \in Sub \ {s} : cur'[x] = cur[x]) /\ t # NoTicket
  BY <1>1, TicketAssumption
<1>3. Range(todo) \subseteq Sub /\ NoTicket \notin Range(tickets[s])
  BY <1>1, TicketAssumption DEF Range
<1>5. UsesOnce'
  BY <1>1, <1>2, <1>3, TicketAssumption DEF RefInv, UsesOnce
<1>6. Users(t)' = Users(t) \ {s}
  BY <1>0, <1>1, <1>2 DEF Users, Uses, RefInv, UsesOnce
<1>7. ASSUME NEW u \in Ticket \ {t} PROVE Users(u)' = Users(u)
  BY <1>0, <1>1, <1>2, TicketAssumption DEF Users, Uses
<1>8. s \in Users(t)
  BY <1>0 DEF Users, Uses
<1>9. refCnt[t] > 0
  BY <1>1, <1>8, CountZero DEF RefInv
<1>10. Pooled' /\ Calm' /\ refCnt' = [refCnt EXCEPT ![t] = refCnt[t] - 1]
  BY <1>1, <1>9, PutKeepsPool
<1>11. CountsUsers'
  BY <1>1, <1>6, <1>7, <1>8, <1>10, PutCountsUsers
<1> QED
  BY <1>5, <1>10, <1>11 DEF RefInv

\* The end of a reference taken with reGet.
LEMMA PutKeptRefInv ==
  ASSUME TypeOK, RefInv, NEW t \in Ticket, putKept(t)
  PROVE  RefInv'
<1>1. /\ kept[t] > 0
      /\ kept' = [kept EXCEPT ![t] = kept[t] - 1]
      /\ put(t)
      /\ UNCHANGED <<live, phase, held, todo, numTickets, invalid, target,
                     tickets, cur>>
  BY DEF putKept, prodVars, subVars
<1>2. refCnt[t] > 0
  BY <1>1, CountZero DEF RefInv
<1>3. Pooled' /\ Calm' /\ refCnt' = [refCnt EXCEPT ![t] = refCnt[t] - 1]
  BY <1>1, <1>2, PutKeepsPool
<1>4. UsesOnce'
  BY <1>1 DEF RefInv, UsesOnce
<1>5. ASSUME NEW u \in Ticket PROVE refCnt'[u] = Cardinality(Users(u)') + kept'[u]
  <2>1. Users(u)' = Users(u)
    BY <1>1 DEF Users, Uses
  <2>2. /\ refCnt[u] = Cardinality(Users(u)) + kept[u]
        /\ Cardinality(Users(u)) \in Nat
        /\ kept \in [Ticket -> 0..MaxKept]
        /\ refCnt \in [Ticket -> 0..(RefMod - 1)]
    BY UsersFinite DEF RefInv, CountsUsers, TypeOK, BufferType, HistoryType
  <2> QED
    BY <1>1, <1>3, <2>1, <2>2, BoundAssumption
<1> QED
  BY <1>3, <1>4, <1>5 DEF RefInv, CountsUsers

-----------------------------------------------------------------------------
(* The producer.                                                           *)

\* A step that moves a ticket between places without a new user.
LEMMA SameUsers ==
  ASSUME CountsUsers, UNCHANGED <<refCnt, kept>>,
         \A t \in Ticket : Users(t)' = Users(t)
  PROVE  CountsUsers'
BY DEF CountsUsers

\* While the producer is in none of its loops, before and after, a step that
\* leaves the queues alone changes no use of a ticket.
LEMMA SameUses ==
  ASSUME UsesOnce, UNCHANGED <<tickets, cur>>,
         phase # "deliver", phase' # "deliver"
  PROVE  UsesOnce' /\ \A t \in Ticket : Users(t)' = Users(t)
BY DEF UsesOnce, Users, Uses

\* With nothing in use and nothing being filled, the pool has every ticket.
LEMMA QuietPool ==
  ASSUME TypeOK, Pooled, Quiet, phase # "filling"
  PROVE  Range(freeTickets) = live /\ Len(freeTickets) = Cardinality(live)
<1>1. freeTickets \in Seq(Ticket) /\ live \subseteq Ticket
  BY DEF TypeOK, BufferType
<1>2. Range(freeTickets) \subseteq Ticket
  BY <1>1 DEF Range
<1>3. \A t \in Ticket : t \in live <=> t \in Range(freeTickets)
  BY DEF Pooled, Placed, Quiet, Filling, InPool
<1>4. Range(freeTickets) = live
  BY <1>1, <1>2, <1>3
<1> QED
  BY <1>1, <1>4, LenIsCardinality DEF Pooled

\* And conversely: a full pool means that nothing is in use.
LEMMA FullPoolIsQuiet ==
  ASSUME TypeOK, Pooled, Len(freeTickets) = Cardinality(live)
  PROVE  Quiet
<1>1. freeTickets \in Seq(Ticket) /\ live \subseteq Ticket /\ refCnt \in [Ticket -> Nat]
  BY BoundAssumption DEF TypeOK, BufferType
<1>2. Range(freeTickets) \subseteq live
  BY <1>1 DEF Pooled, Placed, InPool, Range
<1>3. IsFiniteSet(live)
  BY <1>1, TicketAssumption, FS_Subset
<1>4. Cardinality(Range(freeTickets)) = Cardinality(live)
  BY <1>1, LenIsCardinality DEF Pooled
<1>5. Range(freeTickets) = live
  BY <1>2, <1>3, <1>4, FS_Subset
<1>6. ASSUME NEW t \in Ticket, refCnt[t] > 0 PROVE FALSE
  BY <1>5, <1>6 DEF Pooled, Placed, InPool
<1> QED
  BY <1>1, <1>6 DEF Quiet

\* The producer takes the front ticket of the pool.
LEMMA NextFreeTicketRefInv ==
  ASSUME TypeOK, RefInv, nextFreeTicket
  PROVE  RefInv'
<1> USE DEF RefInv
<1>1. /\ freeTickets \in Seq(Ticket) /\ freeTickets # <<>>
      /\ phase = "idle" /\ phase' = "filling" /\ ~invalid
      /\ held' = Head(freeTickets)
      /\ freeTickets' = Tail(freeTickets)
      /\ UNCHANGED <<live, refCnt, numTickets, invalid, tickets, cur, kept>>
  BY DEF TypeOK, BufferType, nextFreeTicket, subVars, histVars
<1>2. /\ Head(freeTickets) \in Range(freeTickets)
      /\ Range(freeTickets') \subseteq Range(freeTickets)
      /\ Range(freeTickets) \subseteq Range(freeTickets') \cup {Head(freeTickets)}
      /\ NoDuplicates(freeTickets')
      /\ Head(freeTickets) \notin Range(freeTickets')
  BY <1>1, RangeTail DEF Pooled
<1>3. UsesOnce' /\ CountsUsers'
  BY <1>1, SameUses, SameUsers
<1>4. ASSUME NEW t \in Ticket PROVE Placed(t)'
  <2>1. Placed(t) /\ ~Filling(t) /\ (Filling(t)' <=> t = Head(freeTickets))
    BY <1>1 DEF Pooled, Filling
  <2>2. t \in Range(freeTickets') <=> t \in Range(freeTickets) /\ t # Head(freeTickets)
    BY <1>2
  <2> QED
    BY <1>1, <1>2, <2>1, <2>2 DEF Placed, InPool
<1>5. Pooled'
  BY <1>1, <1>2, <1>4 DEF Pooled
<1>6. Calm'
  BY <1>1 DEF Calm
<1> QED
  BY <1>3, <1>5, <1>6

\* The producer gives its ticket back, filled or not, while nobody listens.
LEMMA GiveBackRefInv ==
  ASSUME TypeOK, RefInv, phase = "filling", phase' = "idle",
         freeTickets' = Append(freeTickets, held),
         UNCHANGED <<live, refCnt, numTickets, invalid, tickets, cur, kept>>
  PROVE  RefInv'
<1> USE DEF RefInv
<1>1. held \in Ticket /\ freeTickets \in Seq(Ticket)
  BY DEF TypeOK, ProducerType, BufferType
<1>2. Placed(held) /\ Filling(held) /\ held \notin Range(freeTickets)
  BY <1>1 DEF Pooled, Placed, Filling, InPool
<1>3. Range(freeTickets') = Range(freeTickets) \cup {held} /\ NoDuplicates(freeTickets')
  BY <1>1, <1>2, RangeAppend, NoDuplicatesAppend DEF Pooled
<1>4. UsesOnce' /\ CountsUsers'
  BY SameUses, SameUsers
<1>5. ASSUME NEW t \in Ticket PROVE Placed(t)'
  <2>1. Placed(t) /\ ~Filling(t)' /\ (Filling(t) <=> t = held)
    BY DEF Pooled, Filling
  <2> QED
    BY <1>2, <1>3, <2>1 DEF Placed, InPool
<1>6. Pooled'
  BY <1>3, <1>5 DEF Pooled
<1>7. Calm'
  BY DEF Calm
<1> QED
  BY <1>4, <1>6, <1>7

\* useTicket sets the count to the length of the list before the first
\* subscriber can put the ticket.
LEMMA NotifyFillRefInv ==
  ASSUME TypeOK, ListInv, RefInv, notifyFill
  PROVE  RefInv'
<1> USE DEF RefInv
<1>1. CASE subscribers = <<>>
  BY <1>1, GiveBackRefInv DEF notifyFill, releaseTicket, subVars
<1>2. CASE subscribers # <<>>
  <2>0. PICK h : h = held
    OBVIOUS
  <2>1. /\ h \in Ticket /\ phase = "filling" /\ phase' = "deliver"
        /\ todo' = subscribers /\ held' = h
        /\ refCnt' = [refCnt EXCEPT ![h] = Wrap(Len(subscribers))]
        /\ UNCHANGED <<freeTickets, live, numTickets, invalid, tickets, cur,
                       kept>>
        /\ subscribers \in Seq(Sub)
        /\ refCnt \in [Ticket -> 0..(RefMod - 1)]
    BY <1>2, <2>0 DEF TypeOK, ProducerType, BufferType, notifyFill, subVars
  <2>2. /\ IsFiniteSet(Range(subscribers))
        /\ Cardinality(Range(subscribers)) = Len(subscribers)
        /\ Range(subscribers) \in SUBSET Sub
    BY <2>1, LenIsCardinality DEF ListInv, NothingLeftBehind, Range
  <2>3. Len(subscribers) \in Nat \ {0} /\ Len(subscribers) <= Cardinality(Sub)
    <3>1. Len(subscribers) \in Nat /\ Len(subscribers) # 0
      BY <1>2, <2>1
    <3> QED
      BY <2>2, <3>1, SubAssumption, FS_Subset
  <2>4. Len(subscribers) < RefMod
    BY <2>3, BoundAssumption, SubAssumption, FS_CardinalityType
  <2>5. Wrap(Len(subscribers)) = Len(subscribers)
    BY <2>3, <2>4, WrapSmall
  <2>6. refCnt'[h] = Len(subscribers) /\ \A t \in Ticket \ {h} : refCnt'[t] = refCnt[t]
    BY <2>1, <2>5
  <2>7. Placed(h) /\ refCnt[h] = 0
    <3>1. Placed(h) /\ refCnt[h] \in Nat
      BY <2>1, CountZero DEF Pooled
    <3>2. Filling(h)
      BY <2>0, <2>1 DEF Filling
    <3> QED
      BY <3>1, <3>2 DEF Placed
  <2>8. Users(h) = {} /\ kept[h] = 0
    BY <2>1, <2>7, CountZero
  <2>9. Users(h)' = Range(subscribers)
    BY <2>1, <2>2, <2>8 DEF Users, Uses
  <2>10. \A t \in Ticket \ {h} : Users(t)' = Users(t)
    BY <2>0, <2>1 DEF Users, Uses
  <2>11. UsesOnce'
    <3>1. NoDuplicates(todo')
      BY <2>1 DEF ListInv, NothingLeftBehind
    <3>2. \A s \in Range(todo') : h \notin Range(tickets[s]) /\ cur[s] # h
      BY <2>1, <2>2, <2>8 DEF Users, Uses
    <3> QED
      BY <2>1, <3>1, <3>2 DEF UsesOnce
  <2>12. CountsUsers'
    <3>1. refCnt'[h] = Cardinality(Users(h)') + kept'[h]
      BY <2>1, <2>2, <2>3, <2>6, <2>8, <2>9
    <3>2. \A t \in Ticket \ {h} : refCnt'[t] = Cardinality(Users(t)') + kept'[t]
      BY <2>1, <2>6, <2>10 DEF CountsUsers
    <3> QED
      BY <3>1, <3>2 DEF CountsUsers
  <2>13. ASSUME NEW t \in Ticket PROVE Placed(t)'
    <3>1. Placed(t) /\ ~Filling(t)' /\ (Filling(t) <=> t = h)
      BY <2>0, <2>1 DEF Pooled, Filling
    <3>2. CASE t = h
      BY <2>1, <2>3, <2>6, <3>1, <3>2 DEF Placed, InPool
    <3>3. CASE t # h
      BY <2>1, <2>6, <3>1, <3>3 DEF Placed, InPool
    <3> QED
      BY <3>2, <3>3
  <2>14. Pooled'
    BY <2>1, <2>13 DEF Pooled
  <2>15. Calm'
    BY <2>1 DEF Calm
  <2> QED
    BY <2>11, <2>12, <2>14, <2>15
<1> QED
  BY <1>1, <1>2

\* onTicketAvailable turns a promised use into a queued one.
LEMMA OnTicketAvailableRefInv ==
  ASSUME TypeOK, RefInv, onTicketAvailable
  PROVE  RefInv'
<1> USE DEF RefInv
<1>0. PICK x, h : x = Head(todo) /\ h = held
  OBVIOUS
<1>1. /\ phase = "deliver" /\ todo \in Seq(Sub) /\ todo # <<>>
      /\ h \in Ticket
      /\ tickets \in [Sub -> Seq(Ticket)]
      /\ todo' = Tail(todo)
      /\ UNCHANGED <<freeTickets, live, refCnt, numTickets, invalid, cur,
                     kept>>
      /\ IF Tail(todo) = <<>> THEN phase' = "idle"
                              ELSE phase' = phase /\ held' = h
  BY <1>0 DEF onTicketAvailable, TypeOK, ProducerType, SubscriberType,
              bufVars, histVars
<1>2. /\ x \in Sub
      /\ x \in Range(todo)
      /\ x \notin Range(Tail(todo))
      /\ Range(Tail(todo)) \subseteq Range(todo)
      /\ Range(todo) \subseteq Range(Tail(todo)) \cup {x}
      /\ NoDuplicates(Tail(todo))
      /\ Range(todo) \subseteq Sub
  <2>1. Range(todo) \subseteq Sub
    BY <1>1 DEF Range
  <2> QED
    BY <1>0, <1>1, <2>1, RangeTail, HeadTailProperties DEF UsesOnce
<1>3. /\ tickets'[x] = Append(tickets[x], h)
      /\ \A s \in Sub \ {x} : tickets'[s] = tickets[s]
  BY <1>0, <1>1, <1>2 DEF onTicketAvailable
<1>4. Range(tickets'[x]) = Range(tickets[x]) \cup {h}
  BY <1>1, <1>2, <1>3, RangeAppend
<1>5. /\ h \notin Range(tickets[x]) /\ cur[x] # h
      /\ \A s \in Range(todo) : h \notin Range(tickets[s]) /\ cur[s] # h
  BY <1>0, <1>1, <1>2 DEF UsesOnce
<1>6. NoDuplicates(tickets'[x])
  BY <1>1, <1>2, <1>3, <1>5, NoDuplicatesAppend DEF UsesOnce
<1>7. UsesOnce'
  <2>1. \A s \in Sub : NoDuplicates(tickets'[s]) /\ cur'[s] \notin Range(tickets'[s])
    BY <1>1, <1>3, <1>4, <1>5, <1>6 DEF UsesOnce
  <2>2. ASSUME phase' = "deliver"
        PROVE  /\ NoDuplicates(todo')
               /\ \A s \in Range(todo') : held' \notin Range(tickets'[s]) /\ cur'[s] # held'
    BY <1>1, <1>2, <1>3, <1>5, <2>2
  <2> QED
    BY <2>1, <2>2 DEF UsesOnce
<1>8. ASSUME NEW t \in Ticket PROVE Users(t)' = Users(t)
  <2>1. Tail(todo) = <<>> => Range(Tail(todo)) = {}
    BY DEF Range
  <2>2. ASSUME NEW s \in Sub PROVE Uses(s, t)' <=> Uses(s, t)
    <3>1. CASE Tail(todo) = <<>>
      BY <1>0, <1>1, <1>2, <1>3, <1>4, <2>1, <3>1 DEF Uses
    <3>2. CASE Tail(todo) # <<>>
      <4>1. phase' = "deliver" /\ held' = held /\ cur' = cur
        BY <1>0, <1>1, <3>2
      <4>2. CASE s = x
        BY <1>0, <1>1, <1>2, <1>4, <4>1, <4>2 DEF Uses
      <4>3. CASE s # x
        <5>1. tickets'[s] = tickets[s] /\ (s \in Range(todo') <=> s \in Range(todo))
          BY <1>1, <1>2, <1>3, <4>3
        <5> QED
          BY <1>1, <4>1, <5>1 DEF Uses
      <4> QED
        BY <4>2, <4>3
    <3> QED
      BY <3>1, <3>2
  <2> QED
    BY <2>2 DEF Users
<1>9. CountsUsers'
  BY <1>1, <1>8, SameUsers
<1>10. Pooled'
  BY <1>1 DEF Pooled, Placed, InPool, Filling
<1>11. Calm'
  BY <1>1 DEF Calm
<1> QED
  BY <1>7, <1>9, <1>10, <1>11

\* The start of reset() and uninit().
LEMMA InvalidateRefInv ==
  ASSUME TypeOK, RefInv, NEW g, invalidate(g)
  PROVE  RefInv'
<1> USE DEF RefInv
<1>1. /\ phase = "idle" /\ phase' \in {"free", "alloc", "wait", "flush"}
      /\ phase' \in {"free", "alloc"} => invalid /\ invalid'
      /\ phase' = "wait" => invalid'
      /\ phase' = "flush" => ~invalid /\ ~invalid'
      /\ UNCHANGED <<freeTickets, live, refCnt, numTickets, tickets, cur, kept>>
  BY DEF invalidate, subVars, histVars
<1>2. UsesOnce' /\ CountsUsers'
  BY <1>1, SameUses, SameUsers
<1>3. Pooled'
  BY <1>1 DEF Pooled, Placed, InPool, Filling
<1>4. Calm'
  BY <1>1 DEF Calm, Quiet
<1> QED
  BY <1>2, <1>3, <1>4

\* The revoking loop of __invalidate.
LEMMA FlushRefInv ==
  ASSUME TypeOK, RefInv, flushLock \/ flushPut \/ flushNext
  PROVE  RefInv'
<1> USE DEF RefInv
<1>1. CASE flushPut
  <2>1. Head(todo) \in Sub
    BY <1>1, HeadTodo DEF flushPut
  <2> QED
    BY <1>1, <2>1, PopAndPutRefInv DEF flushPut, prodVars, histVars
<1>2. CASE flushLock \/ flushNext
  <2>1. /\ phase = "flush" /\ phase' \in {"flush", "wait"}
        /\ phase' = "wait" => invalid'
        /\ phase' = "flush" => invalid' = invalid
        /\ UNCHANGED <<freeTickets, live, refCnt, numTickets, tickets, cur, kept>>
    BY <1>2 DEF flushLock, flushNext, bufVars, subVars, histVars
  <2>2. UsesOnce' /\ CountsUsers'
    BY <2>1, SameUses, SameUsers
  <2>3. Pooled'
    BY <2>1 DEF Pooled, Placed, InPool, Filling
  <2>4. Calm'
    BY <2>1 DEF Calm
  <2> QED
    BY <2>2, <2>3, <2>4
<1> QED
  BY <1>1, <1>2

\* The end of the spin of __invalidate: the pool has all the tickets, so
\* nobody has one.
LEMMA InvalidateDoneRefInv ==
  ASSUME TypeOK, RefInv, invalidateDone
  PROVE  RefInv'
<1> USE DEF RefInv
<1>1. /\ phase = "wait" /\ phase' \in {"free", "alloc"}
      /\ Len(freeTickets) = numTickets
      /\ UNCHANGED <<freeTickets, live, refCnt, numTickets, invalid, tickets,
                     cur, kept>>
  BY DEF invalidateDone, bufVars, subVars, histVars
<1>2. UsesOnce' /\ CountsUsers'
  BY <1>1, SameUses, SameUsers
<1>3. Pooled'
  BY <1>1 DEF Pooled, Placed, InPool, Filling
<1>4. Quiet
  BY <1>1, FullPoolIsQuiet DEF Pooled
<1>5. Quiet'
  BY <1>1, <1>4 DEF Quiet
<1>6. Calm'
  BY <1>1, <1>5 DEF Calm
<1> QED
  BY <1>2, <1>3, <1>6

\* The allocations of __resize, successful or not.
LEMMA AllocateRefInv ==
  ASSUME TypeOK, RefInv, allocate
  PROVE  RefInv'
<1> USE DEF RefInv
<1>1. /\ phase = "alloc" /\ phase' \in {"resize", "idle"}
      /\ UNCHANGED <<freeTickets, live, refCnt, numTickets, invalid, target,
                     tickets, cur, kept>>
  BY DEF allocate, bufVars, subVars, histVars
<1>2. UsesOnce' /\ CountsUsers'
  BY <1>1, SameUses, SameUsers
<1>3. Pooled'
  BY <1>1 DEF Pooled, Placed, InPool, Filling
<1>4. invalid /\ Quiet
  BY <1>1 DEF Calm
<1>5. Len(freeTickets) = numTickets
  BY <1>1, <1>4, QuietPool DEF Pooled
<1>6. Calm'
  BY <1>1, <1>4, <1>5 DEF Calm, Quiet
<1> QED
  BY <1>2, <1>3, <1>6

\* __resize adds a ticket to a pool that has them all.
LEMMA CreateTicketRefInv ==
  ASSUME TypeOK, RefInv, createTicket
  PROVE  RefInv'
<1> USE DEF RefInv
<1>1. /\ phase = "resize" /\ phase' = "resize"
      /\ numTickets # NumTickets(target)
      /\ UNCHANGED <<refCnt, numTickets, invalid, target, tickets, cur, kept>>
      /\ freeTickets \in Seq(Ticket)
  BY DEF createTicket, prodVars, subVars, histVars, TypeOK, BufferType
<1>2. PICK t \in Ticket \ live :
        live' = live \cup {t} /\ freeTickets' = Append(freeTickets, t)
  BY DEF createTicket
<1>3. UsesOnce' /\ CountsUsers'
  BY <1>1, SameUses, SameUsers
<1>4. invalid /\ Quiet /\ Range(freeTickets) = live
  BY <1>1, QuietPool DEF Calm
<1>5. /\ Range(freeTickets') = Range(freeTickets) \cup {t}
      /\ NoDuplicates(freeTickets')
  BY <1>1, <1>2, <1>4, RangeAppend, NoDuplicatesAppend DEF Pooled
<1>6. Pooled'
  BY <1>1, <1>2, <1>4, <1>5 DEF Pooled, Placed, InPool, Filling, Quiet
<1>7. Calm'
  BY <1>1, <1>4 DEF Calm, Quiet
<1> QED
  BY <1>3, <1>6, <1>7

\* __resize deletes the front ticket of a pool that has them all.
LEMMA DestroyTicketRefInv ==
  ASSUME TypeOK, RefInv, destroyTicket
  PROVE  RefInv'
<1> USE DEF RefInv
<1>1. /\ phase = "resize" /\ phase' = "resize"
      /\ numTickets # NumTickets(target)
      /\ live' = live \ {Head(freeTickets)}
      /\ freeTickets' = Tail(freeTickets)
      /\ UNCHANGED <<refCnt, numTickets, invalid, target, tickets, cur, kept>>
      /\ freeTickets \in Seq(Ticket)
  BY DEF destroyTicket, prodVars, subVars, histVars, TypeOK, BufferType
<1>2. freeTickets # <<>>
  <2>1. target \in Geom
    BY <1>1 DEF TypeOK, ProducerType
  <2>2. NumTickets(target) \in Nat
    BY <2>1, GeomAssumption, TicketAssumption, FS_CardinalityType
  <2> QED
    BY <1>1, <2>2 DEF destroyTicket
<1>3. UsesOnce' /\ CountsUsers'
  BY <1>1, SameUses, SameUsers
<1>4. invalid /\ Quiet /\ Range(freeTickets) = live
  BY <1>1, QuietPool DEF Calm
<1>5. /\ Range(freeTickets') = Range(freeTickets) \ {Head(freeTickets)}
      /\ NoDuplicates(freeTickets')
  BY <1>1, <1>2, RangeTail DEF Pooled
<1>6. Pooled'
  BY <1>1, <1>4, <1>5 DEF Pooled, Placed, InPool, Filling, Quiet
<1>7. Calm'
  BY <1>1, <1>4 DEF Calm, Quiet
<1> QED
  BY <1>3, <1>6, <1>7

\* __resize ends with as many tickets as it counted.
LEMMA InitTicketsRefInv ==
  ASSUME TypeOK, RefInv, initTickets
  PROVE  RefInv'
<1> USE DEF RefInv
<1>1. /\ phase = "resize" /\ phase' = "notify"
      /\ numTickets = NumTickets(target) \/ Len(freeTickets) = NumTickets(target)
      /\ numTickets' = NumTickets(target)
      /\ UNCHANGED <<freeTickets, live, invalid, target, tickets, cur, kept>>
  BY DEF initTickets, subVars, histVars
<1>2. invalid /\ Quiet
  BY <1>1 DEF Calm
<1>3. refCnt' = refCnt
  <2>1. \A t \in Ticket : refCnt'[t] = 0 /\ refCnt[t] = 0
    BY <1>2 DEF initTickets, Quiet
  <2>2. refCnt' = [t \in Ticket |-> 0] /\ refCnt = [t \in Ticket |-> 0]
    BY <2>1 DEF initTickets, TypeOK, BufferType
  <2> QED
    BY <2>2
<1>4. UsesOnce' /\ CountsUsers'
  BY <1>1, <1>3, SameUses, SameUsers
<1>5. Len(freeTickets) = NumTickets(target) /\ Len(freeTickets) = Cardinality(live)
  BY <1>1, <1>2, QuietPool DEF Calm
<1>6. Pooled'
  BY <1>1, <1>3, <1>5 DEF Pooled, Placed, InPool, Filling
<1>7. Calm'
  BY <1>1, <1>2, <1>3 DEF Calm, Quiet
<1> QED
  BY <1>4, <1>6, <1>7

\* The end of __resize; the buffer is valid again.
LEMMA NotifyGeometryRefInv ==
  ASSUME TypeOK, RefInv, notifyGeometry
  PROVE  RefInv'
<1> USE DEF RefInv
<1>1. /\ phase = "notify" /\ phase' = "idle" /\ invalid' = FALSE
      /\ UNCHANGED <<freeTickets, live, refCnt, numTickets, tickets, cur, kept>>
  BY DEF notifyGeometry, histVars
<1>2. UsesOnce' /\ CountsUsers'
  BY <1>1, SameUses, SameUsers
<1>3. Pooled'
  BY <1>1 DEF Pooled, Placed, InPool, Filling
<1>4. Calm'
  BY <1>1 DEF Calm
<1> QED
  BY <1>2, <1>3, <1>4

\* __freeResources deletes every ticket.
LEMMA FreeResourcesRefInv ==
  ASSUME TypeOK, RefInv, freeResources
  PROVE  RefInv'
<1> USE DEF RefInv
<1>1. /\ phase = "free" /\ phase' = "dead" /\ freeTickets' = <<>>
      /\ live' = live \ Range(freeTickets)
      /\ UNCHANGED <<refCnt, invalid, tickets, cur, kept>>
  BY DEF freeResources, subVars, histVars
<1>2. UsesOnce' /\ CountsUsers'
  BY <1>1, SameUses, SameUsers
<1>3. invalid /\ Quiet /\ Range(freeTickets) = live
  BY <1>1, QuietPool DEF Calm
<1>4. NoDuplicates(freeTickets') /\ Range(freeTickets') = {} /\ live' = {}
  BY <1>1, <1>3 DEF NoDuplicates, Range
<1>5. Pooled'
  BY <1>1, <1>3, <1>4 DEF Pooled, Placed, InPool, Filling, Quiet
<1>6. Calm'
  BY <1>1, <1>3 DEF Calm, Quiet
<1> QED
  BY <1>2, <1>5, <1>6

-----------------------------------------------------------------------------
(* The subscriber threads.                                                 *)

\* A step that touches neither queues, counts, pool nor the producer.
LEMMA FrameRefInv ==
  ASSUME RefInv,
         UNCHANGED <<freeTickets, live, refCnt, numTickets, invalid, phase,
                     held, todo, target, tickets, cur, kept>>
  PROVE  RefInv'
BY DEF RefInv, UsesOnce, CountsUsers, Users, Uses, Pooled, Placed, InPool,
       Filling, Calm, Quiet

\* getNext turns a queued use into the current one.
LEMMA GetNextRefInv ==
  ASSUME TypeOK, RefInv, NEW s \in Sub, getNext(s)
  PROVE  RefInv'
<1> USE DEF RefInv
<1>1. /\ tickets[s] \in Seq(Ticket) /\ tickets[s] # <<>>
      /\ tickets \in [Sub -> Seq(Ticket)]
      /\ cur \in [Sub -> Ticket \cup {NoTicket}]
      /\ cur[s] = NoTicket
      /\ cur' = [cur EXCEPT ![s] = Head(tickets[s])]
      /\ tickets' = [tickets EXCEPT ![s] = Tail(tickets[s])]
      /\ todo \in Seq(Sub)
      /\ UNCHANGED <<freeTickets, live, refCnt, numTickets, invalid, phase,
                     held, todo, target, kept>>
  BY DEF getNext, TypeOK, SubscriberType, ProducerType, bufVars, prodVars,
         histVars
<1>2. PICK t \in Ticket : t = Head(tickets[s])
  BY <1>1, HeadTailProperties
<1>3. /\ t \in Range(tickets[s])
      /\ t \notin Range(Tail(tickets[s]))
      /\ Range(Tail(tickets[s])) \subseteq Range(tickets[s])
      /\ Range(tickets[s]) \subseteq Range(Tail(tickets[s])) \cup {t}
      /\ NoDuplicates(Tail(tickets[s]))
  BY <1>1, <1>2, RangeTail DEF UsesOnce
<1>4. /\ cur'[s] = t /\ tickets'[s] = Tail(tickets[s])
      /\ \A x \in Sub \ {s} : cur'[x] = cur[x] /\ tickets'[x] = tickets[x]
  BY <1>1, <1>2
<1>5. Range(todo) \subseteq Sub
  BY <1>1 DEF Range
<1>6. UsesOnce'
  <2>1. \A x \in Sub : NoDuplicates(tickets'[x]) /\ cur'[x] \notin Range(tickets'[x])
    BY <1>3, <1>4 DEF UsesOnce
  <2>2. ASSUME phase = "deliver", NEW x \in Range(todo)
        PROVE  held \notin Range(tickets'[x]) /\ cur'[x] # held
    BY <1>3, <1>4, <1>5, <2>2 DEF UsesOnce
  <2> QED
    BY <1>1, <2>1, <2>2 DEF UsesOnce
<1>7. ASSUME NEW u \in Ticket, NEW x \in Sub PROVE Uses(x, u)' <=> Uses(x, u)
  <2>1. CASE x = s
    BY <1>1, <1>3, <1>4, <2>1, TicketAssumption DEF Uses
  <2>2. CASE x # s
    BY <1>1, <1>4, <2>2 DEF Uses
  <2> QED
    BY <2>1, <2>2
<1>8. CountsUsers'
  <2>1. \A u \in Ticket : Users(u)' = Users(u)
    BY <1>7 DEF Users
  <2> QED
    BY <1>1, <2>1, SameUsers
<1>9. Pooled' /\ Calm'
  BY <1>1 DEF Pooled, Placed, InPool, Filling, Calm, Quiet
<1> QED
  BY <1>6, <1>8, <1>9

\* reGet cannot wrap: a ticket has at most one use per subscriber.
LEMMA ReGetRefInv ==
  ASSUME TypeOK, RefInv, NEW s \in Sub, reGet(s)
  PROVE  RefInv'
<1> USE DEF RefInv
<1>0. PICK t : t = cur[s]
  OBVIOUS
<1>1. /\ t \in Ticket /\ kept[t] < MaxKept
      /\ kept' = [kept EXCEPT ![t] = kept[t] + 1]
      /\ refCnt' = [refCnt EXCEPT ![t] = Wrap(refCnt[t] + 1)]
      /\ UNCHANGED <<freeTickets, live, numTickets, invalid, phase, held,
                     todo, target, tickets, cur>>
      /\ refCnt \in [Ticket -> 0..(RefMod - 1)]
      /\ kept \in [Ticket -> 0..MaxKept]
  BY <1>0 DEF reGet, TypeOK, SubscriberType, BufferType, HistoryType,
              prodVars, subVars
<1>2. s \in Users(t)
  BY <1>0 DEF Users, Uses
<1>3. refCnt[t] > 0 /\ refCnt[t] = Cardinality(Users(t)) + kept[t]
  BY <1>1, <1>2, CountZero DEF CountsUsers
<1>4. /\ Cardinality(Users(t)) \in Nat /\ Cardinality(Sub) \in Nat
      /\ Cardinality(Users(t)) <= Cardinality(Sub)
      /\ kept[t] \in Nat
  BY <1>1, UsersFinite, SubAssumption, FS_CardinalityType, BoundAssumption
<1>5. refCnt[t] + 1 \in Nat /\ refCnt[t] + 1 < RefMod
  BY <1>1, <1>3, <1>4, BoundAssumption
<1>6. refCnt' = [refCnt EXCEPT ![t] = refCnt[t] + 1]
  BY <1>1, <1>5, WrapSmall
<1>7. \A u \in Ticket : Users(u)' = Users(u)
  BY <1>1 DEF Users, Uses
<1>8. CountsUsers'
  <2>1. ASSUME NEW u \in Ticket PROVE refCnt'[u] = Cardinality(Users(u)') + kept'[u]
    <3>1. refCnt[u] = Cardinality(Users(u)) + kept[u] /\ Cardinality(Users(u)) \in Nat
      BY UsersFinite DEF CountsUsers
    <3> QED
      BY <1>1, <1>6, <1>7, <3>1, BoundAssumption
  <2> QED
    BY <2>1 DEF CountsUsers
<1>9. UsesOnce'
  BY <1>1 DEF UsesOnce
<1>10. \A u \in Ticket : refCnt'[u] > 0 <=> refCnt[u] > 0
  BY <1>1, <1>3, <1>6, BoundAssumption
<1>11. Pooled'
  BY <1>1, <1>10 DEF Pooled, Placed, InPool, Filling
<1>12. ~Quiet
  BY <1>1, <1>3 DEF Quiet
<1>13. Calm'
  BY <1>1, <1>12 DEF Calm
<1> QED
  BY <1>8, <1>9, <1>11, <1>13

-----------------------------------------------------------------------------
(* The invariant and what follows from it.                                 *)

\* A buffer that was never sized has no ticket anywhere.
LEMMA RefInit == Init => RefInv
<1> SUFFICES ASSUME Init PROVE RefInv
  OBVIOUS
<1> USE DEF Init
<1>1. TypeOK
  BY TypeInit
<1>2. UsesOnce
  BY DEF UsesOnce, NoDuplicates, Range
<1>3. ASSUME NEW t \in Ticket PROVE Users(t) = {}
  BY TicketAssumption DEF Users, Uses, Range
<1>4. CountsUsers
  <2>1. \A t \in Ticket : refCnt[t] = 0 /\ kept[t] = 0
    OBVIOUS
  <2>2. \A t \in Ticket : Cardinality(Users(t)) = 0
    BY <1>3, FS_EmptySet, Zenon
  <2> QED
    BY <2>1, <2>2 DEF CountsUsers
<1>5. Pooled
  BY FS_EmptySet DEF Pooled, Placed, InPool, Filling, NoDuplicates, Range
<1>6. Calm
  BY DEF Calm, Quiet
<1> QED
  BY <1>2, <1>4, <1>5, <1>6 DEF RefInv

\* Every step keeps the invariant.
LEMMA RefNext ==
  ASSUME TypeOK, ListInv, RefInv, [Next]_vars
  PROVE  RefInv'
<1>1. CASE ProducerCall
  BY <1>1, NextFreeTicketRefInv, GiveBackRefInv, NotifyFillRefInv,
     InvalidateRefInv
     DEF ProducerCall, returnEmpty, releaseTicket, reset, uninit, subVars,
         histVars
<1>2. CASE BufferStep
  BY <1>2, OnTicketAvailableRefInv, FlushRefInv, InvalidateDoneRefInv,
     AllocateRefInv, CreateTicketRefInv, DestroyTicketRefInv,
     InitTicketsRefInv, NotifyGeometryRefInv, FreeResourcesRefInv
     DEF BufferStep
<1>3. ASSUME NEW s \in Sub, subscribe(s) \/ leaveLoop(s) \/ drainDone(s) \/ unsubscribe(s)
      PROVE  RefInv'
  BY <1>3, FrameRefInv DEF subscribe, leaveLoop, drainDone, unsubscribe,
     bufVars, prodVars, histVars
<1>4. ASSUME NEW s \in Sub, drainPut(s) PROVE RefInv'
  BY <1>4, PopAndPutRefInv DEF drainPut, prodVars, histVars
<1>5. ASSUME NEW s \in Sub, getNext(s) \/ onTicketReceived(s) \/ reGet(s)
      PROVE  RefInv'
  BY <1>5, GetNextRefInv, OnTicketReceivedRefInv, ReGetRefInv
<1>6. ASSUME NEW t \in Ticket, putKept(t) PROVE RefInv'
  BY <1>6, PutKeptRefInv
<1>7. CASE UNCHANGED vars
  BY <1>7, FrameRefInv DEF vars, bufVars, prodVars, subVars, histVars
<1> QED
  BY <1>1, <1>2, <1>3, <1>4, <1>5, <1>6, <1>7 DEF Next, SubscriberStep

\* The inductive invariant holds in every behaviour.
THEOREM Invariance == Spec => [](TypeOK /\ ListInv /\ RefInv)
<1>1. TypeOK /\ ListInv /\ RefInv /\ [Next]_vars => RefInv'
  BY RefNext
<1> QED
  BY RefInit, TypeCorrect, ListInvariant, <1>1, PTL DEF Spec

\* ref_cnt is exactly the number of consumers that have, or are about to
\* have, the ticket, through every interleaving of useTicket, put, reGet and
\* __onReset, and never wraps.
THEOREM CountIsExact == Spec => []RefCountExact
<1>1. TypeOK /\ RefInv => RefCountExact
  <2> SUFFICES ASSUME TypeOK, RefInv PROVE RefCountExact
    OBVIOUS
  <2>1. \A t \in Ticket : refCnt[t] = References(t)
    BY ReferencesAreUsers DEF RefInv, CountsUsers
  <2> QED
    BY <2>1 DEF RefCountExact, RefInv, UsesOnce
<1> QED
  BY Invariance, <1>1, PTL

\* No ticket is lost and none is in two places: the last put(), and only the
\* last one, returns it to the free pool.
THEOREM TicketsAreConserved == Spec => []Conservation
<1>1. TypeOK /\ RefInv => Conservation
  <2> SUFFICES ASSUME TypeOK, RefInv PROVE Conservation
    OBVIOUS
  <2>1. \A t \in Ticket : InUse(t) <=> refCnt[t] > 0
    BY ReferencesAreUsers DEF InUse, RefInv, CountsUsers
  <2> QED
    BY <2>1 DEF Conservation, RefInv, Pooled, Placed
<1> QED
  BY Invariance, <1>1, PTL

\* The buffer is resized or freed only while no consumer has a ticket.
THEOREM ResetIsQuiesced == Spec => []ResetQuiesced
<1>1. TypeOK /\ RefInv => ResetQuiesced
  <2> SUFFICES ASSUME TypeOK, RefInv,
                      phase \in {"alloc", "resize", "notify", "free", "dead"}
               PROVE  /\ \A t \in Ticket : refCnt[t] = 0 /\ kept[t] = 0
                      /\ \A s \in Sub : tickets[s] = <<>> /\ cur[s] = NoTicket
    BY DEF ResetQuiesced
  <2>1. Quiet
    BY DEF RefInv, Calm
  <2>2. \A t \in Ticket : refCnt[t] = 0 /\ kept[t] = 0 /\ Users(t) = {}
    BY <2>1, CountZero DEF RefInv, Quiet
  <2>3. ASSUME NEW s \in Sub PROVE tickets[s] = <<>> /\ cur[s] = NoTicket
    <3>1. tickets[s] \in Seq(Ticket) /\ cur[s] \in Ticket \cup {NoTicket}
      BY DEF TypeOK, SubscriberType
    <3>2. \A t \in Ticket : t \notin Range(tickets[s]) /\ cur[s] # t
      BY <2>2 DEF Users, Uses
    <3>3. ASSUME tickets[s] # <<>> PROVE FALSE
      <4>1. Head(tickets[s]) \in Range(tickets[s]) /\ Head(tickets[s]) \in Ticket
        BY <3>1, <3>3, RangeTail, HeadTailProperties
      <4> QED
        BY <3>2, <4>1
    <3> QED
      BY <3>1, <3>2, <3>3
  <2> QED
    BY <2>2, <2>3
<1> QED
  BY Invariance, <1>1, PTL

-----------------------------------------------------------------------------
(* Geometry.                                                               *)

\* Every ticket carries the buffer's geometry except while __resize makes
\* new ones, and every listed subscriber knows it except while it is being
\* told; one that has left the list knows it as long as it has tickets.
GeomInv ==
  /\ phase # "resize" => \A t \in live : fmt[t] = geom
  /\ phase # "notify" => \A s \in Range(subscribers) : known[s] = geom
  /\ \A s \in Sub, t \in Ticket : Uses(s, t) => known[s] = geom

\* A ticket somebody uses exists.
LEMMA UsedIsLive ==
  ASSUME TypeOK, RefInv, NEW s \in Sub, NEW t \in Ticket, Uses(s, t)
  PROVE  t \in live /\ ~Quiet
<1>1. refCnt[t] > 0
  BY CountZero DEF RefInv, Users
<1> QED
  BY <1>1 DEF RefInv, Pooled, Placed, Quiet

\* Ticket::init and onNewGeometry run while nothing is in use.
LEMMA GeomResize ==
  ASSUME TypeOK, RefInv, GeomInv,
         initTickets \/ notifyGeometry \/ createTicket \/ destroyTicket
           \/ allocate \/ freeResources
  PROVE  GeomInv'
<1>1. Quiet /\ phase \in {"alloc", "resize", "notify", "free"}
  BY DEF RefInv, Calm, initTickets, notifyGeometry, createTicket,
         destroyTicket, allocate, freeResources
<1>2. UNCHANGED <<subscribers, tickets, cur>> /\ phase' # "deliver"
  BY DEF initTickets, notifyGeometry, createTicket, destroyTicket, allocate,
         freeResources, bufVars, prodVars, subVars
<1>3. \A s \in Sub, t \in Ticket : ~Uses(s, t)
  BY <1>1, UsedIsLive
<1>4. \A s \in Sub, t \in Ticket : ~Uses(s, t)'
  BY <1>2, <1>3 DEF Uses
<1>5. live \subseteq Ticket /\ Range(freeTickets) = live
  BY <1>1, QuietPool DEF RefInv, TypeOK, BufferType
<1>6. (phase # "resize" => \A t \in live : fmt[t] = geom)'
  BY <1>5 DEF GeomInv, initTickets, notifyGeometry, createTicket,
     destroyTicket, allocate, freeResources, bufVars, prodVars
<1>7. (phase # "notify" => \A s \in Range(subscribers) : known[s] = geom)'
  <2>1. Range(subscribers) \subseteq Sub
    BY DEF TypeOK, BufferType, Range
  <2> QED
    BY <2>1 DEF GeomInv, initTickets, notifyGeometry, createTicket,
       destroyTicket, allocate, freeResources, bufVars, prodVars, subVars
<1> QED
  BY <1>4, <1>6, <1>7 DEF GeomInv

\* Outside of a resize the producer gives tickets to listed threads only.
LEMMA GeomProducer ==
  ASSUME TypeOK, ListInv, GeomInv,
         ProducerCall \/ onTicketAvailable \/ flushLock \/ flushPut
           \/ flushNext \/ invalidateDone
  PROVE  GeomInv'
<1> USE DEF ProducerCall, reset, uninit, invalidate, nextFreeTicket,
        returnEmpty, notifyFill, onTicketAvailable, flushLock, flushPut,
        flushNext, invalidateDone, bufVars, prodVars, subVars
<1>1. /\ UNCHANGED <<live, fmt, geom, subscribers, known>>
      /\ phase \notin {"resize", "notify"}
      /\ phase' \notin {"resize", "notify"}
  OBVIOUS
<1>2. Range(subscribers) \subseteq Sub /\ todo \in Seq(Sub)
  BY DEF TypeOK, BufferType, ProducerType, Range
<1>3. ASSUME NEW s \in Sub, NEW t \in Ticket, Uses(s, t)'
      PROVE  Uses(s, t) \/ s \in Range(subscribers)
  <2>1. CASE onTicketAvailable
    <3>1. todo # <<>> /\ Range(todo) \subseteq Range(subscribers)
      BY <2>1 DEF TypeOK, ProducerType, ListInv, LoopOnList
    <3>2. /\ Head(todo) \in Range(todo)
          /\ Range(Tail(todo)) \subseteq Range(todo)
          /\ Head(todo) \in Sub
      BY <1>2, <3>1, RangeTail, HeadTailProperties
    <3>3. CASE s \in Range(todo)
      BY <3>1, <3>3
    <3>4. CASE s \notin Range(todo)
      <4>1. tickets'[s] = tickets[s] /\ cur'[s] = cur[s] /\ s \notin Range(todo')
        BY <2>1, <3>2, <3>4 DEF TypeOK, SubscriberType
      <4> QED
        BY <1>3, <4>1 DEF Uses
    <3> QED
      BY <3>3, <3>4
  <2>2. CASE flushPut
    <3>1. Head(todo) \in Sub /\ tickets \in [Sub -> Seq(Ticket)]
      BY <2>2, HeadTodo DEF TypeOK, SubscriberType
    <3>2. Range(tickets'[s]) \subseteq Range(tickets[s])
      <4>1. CASE s = Head(todo)
        BY <2>2, <3>1, <4>1, RangeTail DEF popAndPut
      <4>2. CASE s # Head(todo)
        BY <2>2, <3>1, <4>2 DEF popAndPut
      <4> QED
        BY <4>1, <4>2
    <3> QED
      BY <1>3, <2>2, <3>2 DEF Uses
  <2>3. CASE notifyFill
    BY <1>3, <2>3 DEF Uses
  <2>4. CASE UNCHANGED tickets /\ phase' # "deliver"
    BY <1>3, <2>4 DEF Uses
  <2> QED
    BY <2>1, <2>2, <2>3, <2>4
<1> QED
  BY <1>1, <1>2, <1>3 DEF GeomInv

\* A thread is told the geometry when it enters the list.
LEMMA GeomSubscriber ==
  ASSUME TypeOK, ListInv, GeomInv, NEW s \in Sub,
         subscribe(s) \/ SubscriberStep(s) \/ reGet(s) \/ leaveLoop(s)
  PROVE  GeomInv'
<1> USE DEF SubscriberStep, getNext, reGet, onTicketReceived, leaveLoop,
        drainPut, drainDone, unsubscribe, bufVars, prodVars, subVars
<1>1. UNCHANGED <<live, fmt, geom, phase, held, todo>>
  BY DEF subscribe
<1>2. Range(subscribers) \subseteq Sub /\ subscribers \in Seq(Sub)
  BY DEF TypeOK, BufferType, Range
<1>3. CASE subscribe(s)
  <2>1. /\ Range(subscribers') = Range(subscribers) \cup {s}
        /\ known'[s] = geom
        /\ \A x \in Sub \ {s} : known'[x] = known[x]
        /\ UNCHANGED <<tickets, cur>>
    BY <1>2, <1>3, RangeAppend DEF subscribe, TypeOK, SubscriberType
  <2>2. \A x \in Sub, t \in Ticket : Uses(x, t)' <=> Uses(x, t)
    BY <1>1, <2>1 DEF Uses
  <2> QED
    BY <1>1, <1>2, <2>1, <2>2 DEF GeomInv
<1>4. CASE ~subscribe(s)
  <2>1. UNCHANGED known
    BY <1>4
  <2>2. Range(subscribers') \subseteq Range(subscribers)
    <3>1. CASE unsubscribe(s)
      <4>1. PICK i \in DOMAIN subscribers : subscribers' = RemoveAt(subscribers, i)
        BY <3>1
      <4> QED
        BY <1>2, <4>1, RangeRemoveAt DEF ListInv, NothingLeftBehind
    <3>2. CASE UNCHANGED subscribers
      BY <3>2
    <3> QED
      BY <1>4, <3>1, <3>2
  <2>3. ASSUME NEW x \in Sub, NEW t \in Ticket, Uses(x, t)' PROVE Uses(x, t)
    <3>1. /\ tickets \in [Sub -> Seq(Ticket)]
          /\ cur \in [Sub -> Ticket \cup {NoTicket}]
      BY DEF TypeOK, SubscriberType
    <3>2. CASE getNext(s)
      <4>1. /\ Head(tickets[s]) \in Range(tickets[s])
            /\ Range(Tail(tickets[s])) \subseteq Range(tickets[s])
        BY <3>1, <3>2, RangeTail
      <4> QED
        BY <1>1, <2>3, <3>1, <3>2, <4>1 DEF Uses
    <3>3. CASE drainPut(s)
      <4>1. Range(Tail(tickets[s])) \subseteq Range(tickets[s])
        BY <3>1, <3>3, RangeTail DEF popAndPut
      <4> QED
        BY <1>1, <2>3, <3>1, <3>3, <4>1 DEF Uses, popAndPut
    <3>4. CASE onTicketReceived(s)
      BY <1>1, <2>3, <3>1, <3>4, TicketAssumption DEF Uses
    <3>5. CASE UNCHANGED <<tickets, cur>>
      BY <1>1, <2>3, <3>5 DEF Uses
    <3> QED
      BY <1>4, <3>2, <3>3, <3>4, <3>5
  <2> QED
    BY <1>1, <2>1, <2>2, <2>3 DEF GeomInv
<1> QED
  BY <1>3, <1>4

\* The geometries agree in every reachable state.
LEMMA GeomInvariant == Spec => []GeomInv
<1>1. Init => GeomInv
  BY TicketAssumption DEF Init, GeomInv, Uses, Range
<1>2. TypeOK /\ ListInv /\ RefInv /\ GeomInv /\ [Next]_vars => GeomInv'
  <2> SUFFICES ASSUME TypeOK, ListInv, RefInv, GeomInv, [Next]_vars
               PROVE  GeomInv'
    OBVIOUS
  <2>1. CASE UNCHANGED vars \/ \E t \in Ticket : putKept(t)
    <3>1. UNCHANGED <<live, fmt, geom, phase, held, todo, subscribers, known,
                      tickets, cur>>
      BY <2>1 DEF vars, putKept, bufVars, prodVars, subVars
    <3> QED
      BY <3>1 DEF GeomInv, Uses
  <2> QED
    BY <2>1, GeomResize, GeomProducer, GeomSubscriber DEF Next, BufferStep
<1> QED
  BY Invariance, <1>1, <1>2, PTL DEF Spec

\* A subscriber never gets a ticket of a geometry it was not told, whatever
\* resets, subscriptions and posts overlap.
THEOREM GeometryIsKnown == Spec => []GeometryAgrees
<1>1. TypeOK /\ RefInv /\ GeomInv => GeometryAgrees
  <2> SUFFICES ASSUME TypeOK, RefInv, GeomInv, NEW s \in Sub,
                      NEW t \in Range(tickets[s]) \cup ({cur[s]} \ {NoTicket})
               PROVE  known[s] = fmt[t] /\ fmt[t] = geom
    BY DEF GeometryAgrees
  <2>1. t \in Ticket
    BY DEF TypeOK, SubscriberType, Range
  <2>2. Uses(s, t)
    BY DEF Uses
  <2>3. t \in live /\ phase # "resize"
    BY <2>1, <2>2, UsedIsLive DEF RefInv, Calm
  <2> QED
    BY <2>1, <2>2, <2>3 DEF GeomInv
<1> QED
  BY Invariance, GeomInvariant, <1>1, PTL

-----------------------------------------------------------------------------
(* Order.                                                                  *)

\* The posts of b follow each other; the last of them is number n.
Consecutive(b, st) == \A i \in 1..(Len(b) - 1) : st[b[i + 1]] = st[b[i]] + 1
EndsAt(b, st, n)   == b # <<>> => st[b[Len(b)]] = n

\* The last post that a listed thread has been given.
LastGiven(s) == IF phase = "deliver" /\ s \in Range(todo) THEN posted - 1 ELSE posted

\* InOrder, and what it rests on: the ticket being delivered is the last one
\* posted, and the producer does not flush a thread that is at work.
OrderInv ==
  /\ phase = "deliver" => stamp[held] = posted
  /\ locked => pc[Head(todo)] # "busy"
  /\ \A s \in Sub :
       /\ Consecutive(Backlog(s), stamp)
       /\ s \in Range(subscribers) => EndsAt(Backlog(s), stamp, LastGiven(s))

\* A ticket with the next stamp extends a list of consecutive ones.
LEMMA AppendInOrder ==
  ASSUME NEW b \in Seq(Ticket), NEW t \in Ticket, NEW st \in [Ticket -> Nat],
         Consecutive(b, st), EndsAt(b, st, st[t] - 1)
  PROVE  Consecutive(Append(b, t), st) /\ EndsAt(Append(b, t), st, st[t])
<1>1. /\ Len(b) \in Nat /\ DOMAIN b = 1..Len(b) /\ Len(Append(b, t)) = Len(b) + 1
      /\ \A i \in 1..Len(b) : Append(b, t)[i] = b[i]
      /\ Append(b, t)[Len(b) + 1] = t
  BY AppendProperties, LenProperties
<1>2. ASSUME NEW i \in 1..Len(b)
      PROVE  st[Append(b, t)[i + 1]] = st[Append(b, t)[i]] + 1
  <2>1. CASE i = Len(b)
    <3>1. b # <<>> /\ b[i] \in Ticket /\ st[b[i]] = st[t] - 1 /\ st[b[i]] \in Nat /\ st[t] \in Nat
      BY <1>1, <2>1, ElementOfSeq DEF EndsAt
    <3> QED
      BY <1>1, <2>1, <3>1
  <2>2. CASE i < Len(b)
    <3>1. i \in 1..(Len(b) - 1) /\ i + 1 \in 1..Len(b)
      BY <1>1, <2>2
    <3>2. Append(b, t)[i] = b[i] /\ Append(b, t)[i + 1] = b[i + 1]
      BY <1>1, <3>1
    <3> QED
      BY <3>1, <3>2 DEF Consecutive
  <2>3. i = Len(b) \/ i < Len(b)
    <3>1. Len(b) \in Nat
      BY <1>1
    <3> QED
      BY <3>1
  <2> QED
    BY <2>1, <2>2, <2>3
<1> QED
  BY <1>1, <1>2 DEF Consecutive, EndsAt

\* Taking the first ticket leaves the rest consecutive.
LEMMA TailInOrder ==
  ASSUME NEW b \in Seq(Ticket), b # <<>>, NEW st, NEW n, Consecutive(b, st)
  PROVE  /\ Consecutive(Tail(b), st)
         /\ EndsAt(b, st, n) => EndsAt(Tail(b), st, n)
<1>1. /\ Len(b) \in Nat \ {0} /\ Len(Tail(b)) = Len(b) - 1 /\ Tail(b) \in Seq(Ticket)
      /\ \A i \in 1..(Len(b) - 1) : Tail(b)[i] = b[i + 1]
  BY HeadTailProperties, LenProperties, EmptySeq
<1>2. Consecutive(Tail(b), st)
  <2> SUFFICES ASSUME NEW i \in 1..(Len(b) - 2)
               PROVE  st[Tail(b)[i + 1]] = st[Tail(b)[i]] + 1
    BY <1>1 DEF Consecutive
  <2>1. i + 1 \in 1..(Len(b) - 1) /\ Tail(b)[i] = b[i + 1] /\ Tail(b)[i + 1] = b[(i + 1) + 1]
    BY <1>1
  <2> QED
    BY <2>1 DEF Consecutive
<1>3. ASSUME EndsAt(b, st, n), Tail(b) # <<>> PROVE st[Tail(b)[Len(Tail(b))]] = n
  <2>1. Len(b) - 1 \in 1..(Len(b) - 1)
    BY <1>1, <1>3, EmptySeq
  <2>2. Tail(b)[Len(b) - 1] = b[Len(b)]
    BY <1>1, <2>1
  <2> QED
    BY <1>1, <1>3, <2>2 DEF EndsAt
<1> QED
  BY <1>2, <1>3 DEF EndsAt

\* A ticket at work and a queue behind it, by their elements.
Behind(c, q) == (IF c = NoTicket THEN <<>> ELSE <<c>>) \o q

\* What a subscriber works on comes before what it has queued.
LEMMA BehindShape ==
  ASSUME NEW c \in Ticket \cup {NoTicket}, NEW q \in Seq(Ticket)
  PROVE  /\ Behind(c, q) \in Seq(Ticket)
         /\ c = NoTicket => Behind(c, q) = q
         /\ c # NoTicket =>
              /\ Len(Behind(c, q)) = Len(q) + 1
              /\ Behind(c, q)[1] = c
              /\ \A i \in 1..Len(q) : Behind(c, q)[i + 1] = q[i]
         /\ \A i \in 1..Len(Behind(c, q)) : Behind(c, q)[i] \in Range(q) \cup {c}
<1> DEFINE b == Behind(c, q)
<1>1. Len(q) \in Nat /\ DOMAIN q = 1..Len(q)
  BY LenProperties
<1>2. CASE c = NoTicket
  <2>1. b = <<>> \o q
    BY <1>2 DEF Behind
  <2>2. b = q
    BY <2>1, ConcatEmptySeq
  <2> QED
    BY <1>1, <1>2, <2>2 DEF Range
<1>3. CASE c # NoTicket
  <2>1. b = <<c>> \o q /\ <<c>> \in Seq(Ticket) /\ c \in Ticket
    BY <1>3 DEF Behind
  <2>2. Len(<<c>>) = 1 /\ <<c>>[1] = c
    OBVIOUS
  <2>3. /\ b \in Seq(Ticket) /\ Len(b) = Len(q) + 1
        /\ \A i \in 1..(1 + Len(q)) : b[i] = IF i <= 1 THEN <<c>>[i] ELSE q[i - 1]
    BY <1>1, <2>1, <2>2, ConcatProperties
  <2>4. b[1] = c
    BY <1>1, <2>2, <2>3
  <2>5. \A i \in 1..Len(q) : b[i + 1] = q[i]
    BY <1>1, <2>3
  <2>6. ASSUME NEW i \in 1..Len(b), i # 1 PROVE b[i] \in Range(q)
    <3>1. i - 1 \in 1..Len(q) /\ b[i] = q[i - 1]
      BY <1>1, <2>3, <2>6
    <3> QED
      BY <1>1, <3>1 DEF Range
  <2> QED
    BY <1>3, <2>3, <2>4, <2>5, <2>6
<1> QED
  BY <1>2, <1>3

\* A new ticket at the back of the queue is one at the back of both ...
LEMMA BehindGrows ==
  ASSUME NEW c \in Ticket \cup {NoTicket}, NEW q \in Seq(Ticket), NEW t \in Ticket
  PROVE  Behind(c, Append(q, t)) = Append(Behind(c, q), t)
<1> DEFINE p == IF c = NoTicket THEN <<>> ELSE <<c>>
<1>1. p \in Seq(Ticket) /\ <<t>> \in Seq(Ticket)
  OBVIOUS
<1>2. Append(q, t) = q \o <<t>> /\ Append(p \o q, t) = (p \o q) \o <<t>>
  BY <1>1, AppendIsConcat, ConcatProperties
<1>3. p \o (q \o <<t>>) = (p \o q) \o <<t>>
  BY <1>1, ConcatAssociative
<1> QED
  BY <1>2, <1>3 DEF Behind

\* ... and beginning the next ticket, or being done with one, moves nothing.
LEMMA BehindMoves ==
  ASSUME NEW q \in Seq(Ticket)
  PROVE  /\ q # <<>> => Behind(Head(q), Tail(q)) = q
         /\ \A c \in Ticket : Behind(c, q) # <<>> /\ Tail(Behind(c, q)) = q
<1>1. ASSUME q # <<>> PROVE Behind(Head(q), Tail(q)) = q
  <2> DEFINE b == Behind(Head(q), Tail(q))
  <2>1. /\ Head(q) \in Ticket /\ Head(q) = q[1] /\ Tail(q) \in Seq(Ticket) /\ Len(q) \in Nat \ {0}
        /\ Len(Tail(q)) = Len(q) - 1
        /\ \A i \in 1..(Len(q) - 1) : Tail(q)[i] = q[i + 1]
    BY <1>1, HeadTailProperties, EmptySeq
  <2>2. /\ b \in Seq(Ticket) /\ Len(b) = Len(q) /\ b[1] = q[1]
        /\ \A i \in 1..(Len(q) - 1) : b[i + 1] = q[i + 1]
    <3>1. /\ b \in Seq(Ticket) /\ Len(b) = Len(Tail(q)) + 1 /\ b[1] = Head(q)
          /\ \A i \in 1..Len(Tail(q)) : b[i + 1] = Tail(q)[i]
      <4>1. Head(q) \in Ticket \cup {NoTicket} /\ Head(q) # NoTicket
        BY <2>1, TicketAssumption
      <4> QED
        BY <2>1, <4>1, BehindShape
    <3> HIDE DEF b
    <3> QED
      BY <2>1, <3>1
  <2> HIDE DEF b
  <2>3. ASSUME NEW i \in 1..Len(q) PROVE b[i] = q[i]
    <3>1. i = 1 \/ (i - 1 \in 1..(Len(q) - 1) /\ (i - 1) + 1 = i)
      BY <2>1
    <3> QED
      BY <2>2, <3>1
  <2> QED
    BY <2>2, <2>3, SeqEqual DEF b
<1>2. ASSUME NEW c \in Ticket PROVE Behind(c, q) # <<>> /\ Tail(Behind(c, q)) = q
  <2> DEFINE b == Behind(c, q)
  <2>1. /\ b \in Seq(Ticket) /\ Len(b) = Len(q) + 1 /\ Len(q) \in Nat
        /\ \A i \in 1..Len(q) : b[i + 1] = q[i]
    BY BehindShape, TicketAssumption, LenProperties
  <2> HIDE DEF b
  <2>2. b # <<>>
    BY <2>1
  <2>3. /\ Tail(b) \in Seq(Ticket) /\ Len(Tail(b)) = Len(q)
        /\ \A i \in 1..Len(q) : Tail(b)[i] = b[i + 1]
    BY <2>1, <2>2, HeadTailProperties
  <2>4. Tail(b) = q
    BY <2>1, <2>3, SeqEqual
  <2> QED
    BY <2>2, <2>4 DEF b
<1> QED
  BY <1>1, <1>2

\* The buffer's steps that deliver nothing touch no backlog.
LEMMA OrderFrame ==
  ASSUME TypeOK, OrderInv,
         UNCHANGED <<tickets, cur, stamp, posted>>,
         \/ phase # "deliver" /\ phase' # "deliver"
         \/ UNCHANGED <<phase, todo, held>>,
         \A s \in Sub : s \in Range(subscribers') /\ s \notin Range(subscribers) => Backlog(s) = <<>>,
         locked' => pc'[Head(todo')] # "busy"
  PROVE  OrderInv'
<1>1. \A s \in Sub : Backlog(s)' = Backlog(s) /\ LastGiven(s)' = LastGiven(s)
  BY DEF Backlog, LastGiven
<1> QED
  BY <1>1 DEF OrderInv, EndsAt

\* These steps of the producer touch no subscriber's list.
LEMMA OrderProducer ==
  ASSUME TypeOK, OrderInv,
         \/ nextFreeTicket \/ returnEmpty \/ reset \/ uninit \/ flushLock \/ flushNext
         \/ invalidateDone \/ allocate \/ createTicket \/ destroyTicket \/ initTickets
         \/ notifyGeometry \/ freeResources
  PROVE  OrderInv'
<1> USE DEF nextFreeTicket, returnEmpty, reset, uninit, invalidate, flushLock, flushNext,
        invalidateDone, allocate, createTicket, destroyTicket, initTickets, notifyGeometry,
        freeResources, bufVars, prodVars, subVars, histVars
<1>1. UNCHANGED <<tickets, cur, stamp, posted, subscribers, pc>> /\ phase # "deliver" /\ phase' # "deliver"
  OBVIOUS
<1>2. locked' => pc[Head(todo')] # "busy"
  BY DEF OrderInv, TypeOK, ProducerType, Unlocked
<1> QED
  BY <1>1, <1>2, OrderFrame

\* A post begins: the ticket gets the next stamp.
LEMMA OrderNotifyFill ==
  ASSUME TypeOK, RefInv, OrderInv, notifyFill
  PROVE  OrderInv'
<1>1. /\ held \in Ticket /\ phase = "filling" /\ ~locked /\ posted \in Nat
      /\ stamp \in [Ticket -> 0..MaxPosts]
  BY DEF notifyFill, TypeOK, ProducerType, HistoryType
<1>2. /\ stamp' = [stamp EXCEPT ![held] = posted + 1] /\ posted' = posted + 1
      /\ UNCHANGED <<tickets, cur, subscribers, locked>>
  BY DEF notifyFill, subVars
<1>3. \A s \in Sub : ~Uses(s, held)
  <2>1. refCnt[held] = 0
    BY <1>1 DEF RefInv, Pooled, Placed, Filling, TypeOK, BufferType
  <2>2. Users(held) = {}
    BY <1>1, <2>1, CountZero DEF RefInv
  <2> QED
    BY <2>2 DEF Users
<1>4. ASSUME NEW s \in Sub
      PROVE  /\ Backlog(s)' = Backlog(s) /\ Backlog(s) \in Seq(Ticket)
             /\ \A i \in 1..Len(Backlog(s)) : stamp'[Backlog(s)[i]] = stamp[Backlog(s)[i]]
  <2>1. /\ tickets[s] \in Seq(Ticket) /\ cur[s] \in Ticket \cup {NoTicket}
        /\ Backlog(s) = Behind(cur[s], tickets[s])
    BY DEF TypeOK, SubscriberType, Backlog, Behind
  <2>2. /\ Backlog(s) \in Seq(Ticket)
        /\ \A i \in 1..Len(Backlog(s)) : Backlog(s)[i] \in Range(tickets[s]) \cup {cur[s]}
    <3>1. PICK c \in Ticket \cup {NoTicket}, q \in Seq(Ticket) : c = cur[s] /\ q = tickets[s]
      BY <2>1
    <3>2. /\ Behind(c, q) \in Seq(Ticket)
          /\ \A i \in 1..Len(Behind(c, q)) : Behind(c, q)[i] \in Range(q) \cup {c}
      BY BehindShape
    <3> QED
      BY <2>1, <3>1, <3>2
  <2>3. \A i \in 1..Len(Backlog(s)) : Backlog(s)[i] # held /\ Backlog(s)[i] \in Ticket
    BY <1>3, <2>2, ElementOfSeq DEF Uses
  <2>4. Backlog(s)' = Backlog(s)
    BY <1>2 DEF Backlog
  <2> QED
    BY <1>1, <1>2, <2>2, <2>3, <2>4
<1>5. ASSUME NEW s \in Sub PROVE Consecutive(Backlog(s)', stamp')
  <2>1. Len(Backlog(s)) \in Nat
    BY <1>4, LenProperties
  <2>2. \A i \in 1..(Len(Backlog(s)) - 1) : i \in 1..Len(Backlog(s)) /\ i + 1 \in 1..Len(Backlog(s))
    BY <2>1
  <2>3. Consecutive(Backlog(s), stamp)
    BY DEF OrderInv
  <2>4. Consecutive(Backlog(s), stamp')
    BY <1>4, <2>2, <2>3 DEF Consecutive
  <2> QED
    BY <1>4, <2>4
<1>6. ASSUME NEW s \in Sub, s \in Range(subscribers)
      PROVE  LastGiven(s)' = LastGiven(s) /\ phase' = "deliver"
  <2>1. subscribers # <<>>
    BY <1>6 DEF Range
  <2>2. phase' = "deliver" /\ todo' = subscribers
    BY <2>1 DEF notifyFill
  <2> QED
    BY <1>1, <1>2, <1>6, <2>2 DEF LastGiven
<1>7. ASSUME NEW s \in Sub, s \in Range(subscribers)
      PROVE  EndsAt(Backlog(s)', stamp', LastGiven(s)')
  <2>1. EndsAt(Backlog(s), stamp, LastGiven(s))
    BY <1>7 DEF OrderInv
  <2>2. Backlog(s) # <<>> => Len(Backlog(s)) \in 1..Len(Backlog(s))
    BY <1>4, EmptySeq
  <2> QED
    BY <1>4, <1>6, <1>7, <2>1, <2>2 DEF EndsAt
<1>8. phase' = "deliver" => stamp'[held'] = posted'
  BY <1>1, <1>2 DEF notifyFill
<1> QED
  BY <1>1, <1>2, <1>5, <1>7, <1>8 DEF OrderInv

\* A ticket is delivered behind the ones with smaller stamps.
LEMMA OrderDeliver ==
  ASSUME TypeOK, ListInv, RefInv, OrderInv, onTicketAvailable
  PROVE  OrderInv'
<1>0. PICK h : h = Head(todo)
  OBVIOUS
<1>1. /\ phase = "deliver" /\ held \in Ticket /\ todo \in Seq(Sub) /\ todo # <<>> /\ ~locked
      /\ stamp[held] = posted /\ posted \in Nat /\ stamp \in [Ticket -> Nat] /\ NoDuplicates(todo)
  BY BoundAssumption DEF onTicketAvailable, TypeOK, ProducerType, HistoryType, OrderInv, RefInv, UsesOnce
<1>2. /\ h \in Range(todo) /\ h \in Sub /\ h \notin Range(Tail(todo))
      /\ Range(todo) = Range(Tail(todo)) \cup {h}
  BY <1>0, <1>1, RangeTail, HeadTailProperties
<1>3. h \in Range(subscribers)
  BY <1>1, <1>2 DEF ListInv, LoopOnList
<1>4. /\ tickets' = [tickets EXCEPT ![h] = Append(tickets[h], held)] /\ todo' = Tail(todo)
      /\ UNCHANGED <<subscribers, locked, cur, stamp, posted>>
      /\ \/ Tail(todo) = <<>> /\ phase' = "idle"
         \/ Tail(todo) # <<>> /\ phase' = phase /\ held' = held
  BY <1>0 DEF onTicketAvailable, histVars
<1>5. \A s \in Sub : tickets[s] \in Seq(Ticket) /\ cur[s] \in Ticket \cup {NoTicket}
  BY DEF TypeOK, SubscriberType
<1>6. tickets'[h] = Append(tickets[h], held) /\ \A s \in Sub : s # h => tickets'[s] = tickets[s]
  BY <1>2, <1>4 DEF TypeOK, SubscriberType
<1>7. Backlog(h)' = Append(Backlog(h), held) /\ Backlog(h) \in Seq(Ticket)
  <2>1. Backlog(h) = Behind(cur[h], tickets[h]) /\ Backlog(h)' = Behind(cur[h], Append(tickets[h], held))
    BY <1>4, <1>6 DEF Backlog, Behind
  <2>2. cur[h] \in Ticket \cup {NoTicket} /\ tickets[h] \in Seq(Ticket) /\ held \in Ticket
    BY <1>1, <1>2, <1>5
  <2>3. Behind(cur[h], Append(tickets[h], held)) = Append(Behind(cur[h], tickets[h]), held)
    BY <2>2, BehindGrows
  <2>4. Behind(cur[h], tickets[h]) \in Seq(Ticket)
    BY <2>2, BehindShape
  <2> QED
    BY <2>1, <2>3, <2>4
<1>8. Consecutive(Backlog(h)', stamp') /\ EndsAt(Backlog(h)', stamp', posted')
  <2>1. Consecutive(Backlog(h), stamp) /\ EndsAt(Backlog(h), stamp, posted - 1)
    BY <1>1, <1>2, <1>3 DEF OrderInv, LastGiven
  <2> QED
    BY <1>1, <1>4, <1>7, <2>1, AppendInOrder
<1>9. LastGiven(h)' = posted' /\ \A s \in Sub : s # h => LastGiven(s)' = LastGiven(s)
  <2>1. Tail(todo) = <<>> => Range(Tail(todo)) = {}
    BY DEF Range
  <2> QED
    BY <1>1, <1>2, <1>4, <2>1 DEF LastGiven
<1>10. \A s \in Sub : s # h => Backlog(s)' = Backlog(s)
  BY <1>4, <1>6 DEF Backlog
<1> QED
  BY <1>1, <1>2, <1>4, <1>8, <1>9, <1>10 DEF OrderInv

\* What s has loses its front, or nothing; nobody else's backlog changes.
LEMMA OrderShrinks ==
  ASSUME TypeOK, OrderInv, NEW s \in Sub,
         UNCHANGED <<phase, held, todo, locked, stamp, posted, subscribers>>,
         \A x \in Sub : x # s => tickets'[x] = tickets[x] /\ cur'[x] = cur[x] /\ pc'[x] = pc[x],
         locked => pc'[Head(todo)] # "busy",
         \/ Backlog(s)' = Backlog(s)
         \/ Backlog(s) # <<>> /\ Backlog(s)' = Tail(Backlog(s))
  PROVE  OrderInv'
<1>1. Backlog(s) \in Seq(Ticket)
  BY BehindShape DEF TypeOK, SubscriberType, Backlog, Behind
<1>2. \A x \in Sub : LastGiven(x)' = LastGiven(x) /\ (x # s => Backlog(x)' = Backlog(x))
  BY DEF LastGiven, Backlog
<1>3. Consecutive(Backlog(s), stamp) /\ (s \in Range(subscribers) => EndsAt(Backlog(s), stamp, LastGiven(s)))
  BY DEF OrderInv
<1>4. /\ Consecutive(Backlog(s)', stamp)
      /\ s \in Range(subscribers) => EndsAt(Backlog(s)', stamp, LastGiven(s))
  BY <1>1, <1>3, TailInOrder
<1> QED
  BY <1>2, <1>4 DEF OrderInv

\* A subscriber takes its tickets from the front.
LEMMA OrderSubscriber ==
  ASSUME TypeOK, ListInv, OrderInv, NEW s \in Sub,
         subscribe(s) \/ SubscriberStep(s) \/ reGet(s) \/ leaveLoop(s)
  PROVE  OrderInv'
<1>1. /\ tickets[s] \in Seq(Ticket) /\ cur[s] \in Ticket \cup {NoTicket}
      /\ cur[s] # NoTicket <=> pc[s] = "busy"
      /\ Backlog(s) = Behind(cur[s], tickets[s]) /\ tickets \in [Sub -> Seq(Ticket)]
      /\ cur \in [Sub -> Ticket \cup {NoTicket}] /\ pc \in [Sub -> PCs]
  BY DEF TypeOK, SubscriberType, Backlog, Behind
<1>2. cur[s] = NoTicket => Backlog(s) = tickets[s]
  BY <1>1, BehindShape
<1>3. locked => pc[Head(todo)] # "busy" /\ Head(todo) \in Sub /\ phase = "flush"
  <2>1. locked => phase = "flush" /\ todo # <<>> /\ todo \in Seq(Sub)
    BY DEF TypeOK, ProducerType
  <2> QED
    BY <2>1, HeadTailProperties DEF OrderInv
<1>4. CASE subscribe(s) \/ unsubscribe(s)
  <2>1. UNCHANGED <<tickets, cur, stamp, posted, phase, todo, held, locked>>
    BY <1>4 DEF subscribe, unsubscribe, prodVars, histVars
  <2>2. ~locked
    BY <1>3, <1>4 DEF subscribe, unsubscribe, ListUnlocked
  <2>3. ASSUME NEW x \in Sub, x \in Range(subscribers'), x \notin Range(subscribers)
        PROVE  Backlog(x) = <<>>
    <3>1. CASE subscribe(s)
      <4>1. x = s
        BY <2>3, <3>1, RangeAppend DEF subscribe, TypeOK, BufferType
      <4>2. tickets[s] = <<>> /\ pc[s] = "off"
        BY <3>1 DEF subscribe, ListInv, NothingLeftBehind
      <4> QED
        BY <1>1, <1>2, <4>1, <4>2
    <3>2. CASE unsubscribe(s)
      <4>1. PICK i \in DOMAIN subscribers : subscribers' = RemoveAt(subscribers, i)
        BY <3>2 DEF unsubscribe
      <4> QED
        BY <2>3, <4>1, RangeRemoveAt DEF ListInv, NothingLeftBehind, TypeOK, BufferType
    <3> QED
      BY <1>4, <3>1, <3>2
  <2> QED
    BY <2>1, <2>2, <2>3, OrderFrame
<1>5. CASE getNext(s)
  <2>1. /\ pc[s] = "loop" /\ tickets[s] # <<>> /\ cur'[s] = Head(tickets[s])
        /\ tickets'[s] = Tail(tickets[s])
        /\ \A x \in Sub : x # s => tickets'[x] = tickets[x] /\ cur'[x] = cur[x] /\ pc'[x] = pc[x]
        /\ UNCHANGED <<phase, held, todo, locked, stamp, posted, subscribers>>
        /\ locked => Head(todo) # s
    BY <1>1, <1>3, <1>5 DEF getNext, Unlocked, Flushing, prodVars, histVars
  <2>2. Backlog(s)' = Backlog(s)
    <3>1. Backlog(s)' = Behind(Head(tickets[s]), Tail(tickets[s]))
      BY <2>1 DEF Backlog, Behind
    <3> QED
      BY <1>1, <1>2, <2>1, <3>1, BehindMoves
  <2> QED
    BY <1>3, <2>1, <2>2, OrderShrinks
<1>6. CASE onTicketReceived(s)
  <2>1. /\ cur[s] \in Ticket /\ cur'[s] = NoTicket /\ tickets' = tickets
        /\ \A x \in Sub : x # s => tickets'[x] = tickets[x] /\ cur'[x] = cur[x] /\ pc'[x] = pc[x]
        /\ UNCHANGED <<phase, held, todo, locked, stamp, posted, subscribers>>
        /\ pc'[s] = "loop"
    BY <1>1, <1>6 DEF onTicketReceived, prodVars, histVars
  <2>2. Backlog(s) # <<>> /\ Backlog(s)' = Tail(Backlog(s))
    <3>1. Backlog(s)' = Behind(NoTicket, tickets[s])
      BY <2>1 DEF Backlog, Behind
    <3>2. Backlog(s)' = tickets[s]
      BY <1>1, <3>1, BehindShape
    <3> QED
      BY <1>1, <2>1, <3>2, BehindMoves
  <2> QED
    BY <1>3, <2>1, <2>2, OrderShrinks
<1>7. CASE drainPut(s)
  <2>1. /\ pc[s] # "busy" /\ tickets[s] # <<>> /\ UNCHANGED <<cur, pc>>
        /\ tickets'[s] = Tail(tickets[s]) /\ \A x \in Sub : x # s => tickets'[x] = tickets[x]
        /\ UNCHANGED <<phase, held, todo, locked, stamp, posted, subscribers>>
    BY <1>1, <1>7 DEF drainPut, Draining, popAndPut, prodVars, histVars
  <2>2. Backlog(s)' = Tail(Backlog(s)) /\ Backlog(s) # <<>>
    <3>1. Backlog(s)' = Behind(NoTicket, Tail(tickets[s])) /\ Tail(tickets[s]) \in Seq(Ticket)
      BY <1>1, <2>1, HeadTailProperties DEF Backlog, Behind
    <3> QED
      BY <1>1, <1>2, <2>1, <3>1, BehindShape
  <2> QED
    BY <1>3, <2>1, <2>2, OrderShrinks
<1>8. CASE reGet(s) \/ leaveLoop(s) \/ drainDone(s)
  <2>1. /\ UNCHANGED <<tickets, cur, stamp, posted, phase, held, todo, locked, subscribers>>
        /\ \A x \in Sub : pc'[x] = pc[x] \/ pc'[x] # "busy"
    BY <1>1, <1>8 DEF reGet, leaveLoop, drainDone, prodVars, subVars, histVars
  <2> QED
    BY <1>3, <2>1, OrderFrame
<1> QED
  BY <1>4, <1>5, <1>6, <1>7, <1>8 DEF SubscriberStep

\* A reset takes what is queued from the front as well.
LEMMA OrderFlushPut ==
  ASSUME TypeOK, OrderInv, flushPut
  PROVE  OrderInv'
<1>0. PICK s : s = Head(todo)
  OBVIOUS
<1>1. s \in Sub /\ locked /\ pc[s] # "busy"
  BY <1>0, HeadTodo DEF flushPut, OrderInv
<1>2. /\ tickets[s] \in Seq(Ticket) /\ cur[s] = NoTicket /\ tickets \in [Sub -> Seq(Ticket)]
      /\ Backlog(s) = tickets[s]
  <2>1. tickets[s] \in Seq(Ticket) /\ cur[s] = NoTicket /\ tickets \in [Sub -> Seq(Ticket)]
    BY <1>1 DEF TypeOK, SubscriberType
  <2> QED
    BY <2>1, BehindShape DEF Backlog, Behind
<1>3. /\ tickets[s] # <<>> /\ UNCHANGED <<cur, pc>>
      /\ tickets'[s] = Tail(tickets[s]) /\ \A x \in Sub : x # s => tickets'[x] = tickets[x]
      /\ UNCHANGED <<phase, held, todo, locked, stamp, posted, subscribers>>
  BY <1>0, <1>1, <1>2 DEF flushPut, popAndPut, prodVars, histVars
<1>4. Backlog(s)' = Tail(Backlog(s)) /\ Backlog(s) # <<>>
  <2>1. Backlog(s)' = Behind(NoTicket, Tail(tickets[s])) /\ Tail(tickets[s]) \in Seq(Ticket)
    BY <1>2, <1>3, HeadTailProperties DEF Backlog, Behind
  <2> QED
    BY <1>2, <1>3, <2>1, BehindShape
<1> QED
  BY <1>0, <1>1, <1>3, <1>4, OrderShrinks

\* Every step keeps the order.
LEMMA OrderNext ==
  ASSUME TypeOK, ListInv, RefInv, OrderInv, [Next]_vars
  PROVE  OrderInv'
<1>1. CASE UNCHANGED vars \/ \E t \in Ticket : putKept(t)
  <2>1. UNCHANGED <<tickets, cur, stamp, posted, phase, held, todo, locked, subscribers, pc>>
    BY <1>1 DEF vars, putKept, prodVars, subVars, histVars
  <2> QED
    BY <2>1, OrderFrame DEF OrderInv
<1> QED
  BY <1>1, OrderProducer, OrderNotifyFill, OrderDeliver, OrderSubscriber, OrderFlushPut
     DEF Next, ProducerCall, BufferStep

\* The order holds in every reachable state.
LEMMA OrderInvariant == Spec => []OrderInv
<1>1. Init => OrderInv
  <2> SUFFICES ASSUME Init PROVE OrderInv
    OBVIOUS
  <2>1. ASSUME NEW s \in Sub PROVE Backlog(s) = <<>>
    <3>1. <<>> \in Seq(Ticket) /\ Backlog(s) = Behind(NoTicket, <<>>)
      BY DEF Init, Backlog, Behind
    <3> QED
      BY <3>1, BehindShape
  <2>2. Consecutive(<<>>, stamp) /\ \A n : EndsAt(<<>>, stamp, n)
    BY DEF Consecutive, EndsAt
  <2>3. phase = "idle" /\ locked = FALSE
    BY DEF Init
  <2> QED
    BY <2>1, <2>2, <2>3 DEF OrderInv
<1> QED
  BY Invariance, OrderNext, <1>1, PTL DEF Spec

\* A subscriber sees every post since it subscribed, in order and none
\* missing, until it or a reset drops its backlog from the front.
THEOREM PostsStayInOrder == Spec => []InOrder
<1>1. OrderInv => InOrder
  BY DEF OrderInv, InOrder, Consecutive, EndsAt, LastGiven
<1> QED
  BY OrderInvariant, <1>1, PTL
=============================================================================
