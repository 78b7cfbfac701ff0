---------------------------- MODULE TicketBuffer ----------------------------
(***************************************************************************)
(* The ticket buffer of DROS2 (Streaming/TicketBuffer.h) with the          *)
(* subscriber threads that consume it (Streaming/QueuedSubscriber.h,       *)
(* Streaming/SubscriberThread.h).                                          *)
(*                                                                         *)
(* One producer (the Receiver thread) takes tickets from the free pool,    *)
(* fills them and posts them to every subscriber; a reference count says   *)
(* how many consumers still use a ticket, and the last put() returns it to *)
(* the pool.  A reset() to a new geometry revokes what is queued, waits    *)
(* for what is in use, and re-initialises every ticket.                    *)
(*                                                                         *)
(* Atomicity follows the locks.  A ticket's mutex and the free list's are  *)
(* held for one step.  The subscribers_list mutex is held by the producer  *)
(* for the whole of useTicket and for the revoking half of __invalidate    *)
(* (phases "deliver" and "flush").  A SubscriberThread's mutex is held     *)
(* while it processes a ticket ("busy") and while it drains its queue; its *)
(* QueuedSubscriber mutex only while it drains.                            *)
(***************************************************************************)
EXTENDS Integers, Sequences, FiniteSets, Functions

CONSTANTS
  Ticket,    \* identities of Ticket objects
  Sub,       \* SubscriberThread objects
  Geom,      \* buffer geometries [size, framesize, framesPerTicket]
  NoTicket,  \* the null Ticket*
  NoGeom,    \* the geometry of a buffer that was never sized
  MaxPosts,  \* bound: tickets posted in one behaviour
  MaxKept,   \* bound: references a ticket gets through reGet
  RefMod     \* ref_cnt is a size_t: it counts modulo RefMod

(***************************************************************************)
(* How many tickets __resize makes of a geometry.                          *)
(***************************************************************************)
NumTickets(g) ==
  LET newNumFrames    == g.size \div g.framesize
      newNumFramesFix == ((newNumFrames \div g.framesPerTicket) + 1)
                           * g.framesPerTicket - g.framesPerTicket
  IN  newNumFramesFix \div g.framesPerTicket

ASSUME TicketAssumption ==
  /\ IsFiniteSet(Ticket)
  /\ NoTicket \notin Ticket

ASSUME SubAssumption == IsFiniteSet(Sub)

ASSUME GeomAssumption ==
  /\ NoGeom \notin Geom
  /\ \A g \in Geom : NumTickets(g) \in 1..Cardinality(Ticket)

ASSUME BoundAssumption ==
  /\ MaxPosts \in Nat
  /\ MaxKept \in Nat
  /\ RefMod \in Nat
  /\ RefMod > Cardinality(Sub) + MaxKept

VARIABLES
  \* the buffer
  freeTickets,  \* the free pool, a deque
  live,         \* the Ticket objects that exist
  refCnt,       \* Ticket::ref_cnt
  fmt,          \* the geometry a ticket was last initialised for
  geom,         \* size, framesize and framesPerTicket of the buffer
  numTickets,   \* how many tickets the buffer believes it owns
  invalid,      \* _invalid
  subscribers,  \* the subscriber list, a deque
  \* the producer thread
  phase,        \* where the producer is in the buffer's code
  held,         \* the ticket it is filling or posting
  todo,         \* subscribers its current loop has still to visit
  locked,       \* it holds the mutex of the subscriber it is flushing
  target,       \* the geometry it is resetting to, NoGeom for uninit
  \* the subscriber threads
  pc,           \* where each one is in SubscriberThread::run
  tickets,      \* QueuedSubscriber::tickets
  cur,          \* the ticket in onTicketReceived
  known,        \* the geometry it was last told
  \* bookkeeping
  kept,         \* references taken by reGet and not yet put
  posted,       \* how many tickets were posted
  stamp         \* which post a ticket's contents come from

bufVars  == <<freeTickets, live, refCnt, fmt, geom, numTickets, invalid>>
prodVars == <<phase, held, todo, locked, target>>
subVars  == <<pc, tickets, cur, known>>
histVars == <<kept, posted, stamp>>
vars     == <<bufVars, subscribers, prodVars, subVars, histVars>>

Phases == {"idle", "filling", "deliver", "flush", "wait", "alloc", "resize",
           "notify", "free", "dead"}
PCs    == {"off", "loop", "busy", "drain", "unsubscribe", "redrain"}

-----------------------------------------------------------------------------
(* Locks.                                                                  *)

\* Nobody holds the subscribers_list mutex: only the producer keeps it
\* across steps.
ListUnlocked == phase \notin {"deliver", "flush"}

Draining(s) == pc[s] \in {"drain", "redrain"}

\* The producer is inside onReset() of s and holds both mutexes of s.
Flushing(s) == phase = "flush" /\ locked /\ Head(todo) = s

\* Nobody holds the SubscriberThread mutex of s.
Unlocked(s) == pc[s] # "busy" /\ ~Draining(s) /\ ~Flushing(s)

-----------------------------------------------------------------------------
(* Ticket operations, as effects on refCnt and freeTickets.                *)

releaseTicket(t) == freeTickets' = Append(freeTickets, t)

\* ref_cnt is a size_t: 0 - 1 wraps round.
Wrap(n) == n % RefMod

\* Mutant of put: released one reference too early.
putEarly(t) ==
  LET n == Wrap(refCnt[t] - 1)
  IN  /\ refCnt' = [refCnt EXCEPT ![t] = n]
      /\ IF n = 1 THEN releaseTicket(t) ELSE UNCHANGED freeTickets

\* Ticket::put: the last reference returns the ticket to the pool.
put(t) ==
  LET n == Wrap(refCnt[t] - 1)
  IN  /\ refCnt' = [refCnt EXCEPT ![t] = n]
      /\ IF n = 0 THEN releaseTicket(t) ELSE UNCHANGED freeTickets

\* Mutant of popAndPut: the ticket is dropped.
popOnly(s) ==
  /\ tickets[s] # <<>>
  /\ tickets' = [tickets EXCEPT ![s] = Tail(@)]
  /\ UNCHANGED <<refCnt, freeTickets>>

\* One round of __onReset: pop the front ticket of s and put it.
popAndPut(s) ==
  /\ tickets[s] # <<>>
  /\ put(Head(tickets[s]))
  /\ tickets' = [tickets EXCEPT ![s] = Tail(@)]

-----------------------------------------------------------------------------
(* The producer: Ticket::notifyFill/returnEmpty and the producer interface *)
(* of TicketBuffer.                                                        *)

nextFreeTicket ==
  /\ phase = "idle"
  /\ ~invalid
  /\ freeTickets # <<>>
  /\ held' = Head(freeTickets)
  /\ freeTickets' = Tail(freeTickets)
  /\ phase' = "filling"
  /\ UNCHANGED <<live, refCnt, fmt, geom, numTickets, invalid, subscribers,
                 todo, locked, target, subVars, histVars>>

\* Mutant of returnEmpty: the producer keeps its pointer.
returnEmptyKeep ==
  /\ phase = "filling"
  /\ releaseTicket(held)
  /\ phase' = "idle"
  /\ UNCHANGED <<live, refCnt, fmt, geom, numTickets, invalid, subscribers,
                 held, todo, locked, target, subVars, histVars>>

returnEmpty ==
  /\ phase = "filling"
  /\ releaseTicket(held)
  /\ held' = NoTicket
  /\ phase' = "idle"
  /\ UNCHANGED <<live, refCnt, fmt, geom, numTickets, invalid, subscribers,
                 todo, locked, target, subVars, histVars>>

\* useTicket up to its loop: without subscribers the ticket goes back at
\* once; otherwise one reference per subscriber is taken before any of
\* them sees the ticket.
notifyFill ==
  /\ phase = "filling"
  /\ posted < MaxPosts
  /\ posted' = posted + 1
  /\ stamp' = [stamp EXCEPT ![held] = posted + 1]
  /\ \/ /\ subscribers = <<>>
        /\ releaseTicket(held)
        /\ held' = NoTicket
        /\ phase' = "idle"
        /\ UNCHANGED <<refCnt, todo>>
     \/ /\ subscribers # <<>>
        /\ refCnt' = [refCnt EXCEPT ![held] = Wrap(Len(subscribers))]
        /\ todo' = subscribers
        /\ phase' = "deliver"
        /\ UNCHANGED <<freeTickets, held>>
  /\ UNCHANGED <<live, fmt, geom, numTickets, invalid, subscribers, locked,
                 target, subVars, kept>>

\* Mutant of onTicketAvailable: push_front for push_back.
pushFront ==
  /\ phase = "deliver"
  /\ ~Draining(Head(todo))
  /\ tickets' = [tickets EXCEPT ![Head(todo)] = <<held>> \o @]
  /\ todo' = Tail(todo)
  /\ IF Tail(todo) = <<>>
       THEN held' = NoTicket /\ phase' = "idle"
       ELSE UNCHANGED <<held, phase>>
  /\ UNCHANGED <<bufVars, subscribers, locked, target, pc, cur, known,
                 histVars>>

\* onTicketAvailable of the next subscriber in the loop of useTicket.
onTicketAvailable ==
  /\ phase = "deliver"
  /\ ~Draining(Head(todo))
  /\ tickets' = [tickets EXCEPT ![Head(todo)] = Append(@, held)]
  /\ todo' = Tail(todo)
  /\ IF Tail(todo) = <<>>
       THEN held' = NoTicket /\ phase' = "idle"
       ELSE UNCHANGED <<held, phase>>
  /\ UNCHANGED <<bufVars, subscribers, locked, target, pc, cur, known,
                 histVars>>

\* __invalidate up to its loop over the subscribers; g = NoGeom is uninit().
invalidate(g) ==
  /\ phase = "idle"
  /\ target' = g
  /\ \/ /\ invalid
        /\ phase' = IF g = NoGeom THEN "free" ELSE "alloc"
        /\ UNCHANGED <<invalid, todo>>
     \/ /\ ~invalid
        /\ subscribers = <<>>
        /\ invalid' = TRUE
        /\ phase' = "wait"
        /\ UNCHANGED todo
     \/ /\ ~invalid
        /\ subscribers # <<>>
        /\ todo' = subscribers
        /\ phase' = "flush"
        /\ UNCHANGED invalid
  /\ UNCHANGED <<freeTickets, live, refCnt, fmt, geom, numTickets,
                 subscribers, held, locked, subVars, histVars>>

reset  == \E g \in Geom : invalidate(g)
uninit == invalidate(NoGeom)

\* onReset of the next subscriber: take its mutex ...
flushLock ==
  /\ phase = "flush"
  /\ ~locked
  /\ Unlocked(Head(todo))
  /\ locked' = TRUE
  /\ UNCHANGED <<bufVars, subscribers, phase, held, todo, target, subVars,
                 histVars>>

\* ... return what it has queued, one ticket at a time ...
flushPut ==
  /\ phase = "flush"
  /\ locked
  /\ popAndPut(Head(todo))
  /\ UNCHANGED <<live, fmt, geom, numTickets, invalid, subscribers, prodVars,
                 pc, cur, known, histVars>>

\* ... and go on to the next one.  After the last, _invalid is raised and
\* the list is unlocked.
flushNext ==
  /\ phase = "flush"
  /\ locked
  /\ tickets[Head(todo)] = <<>>
  /\ locked' = FALSE
  /\ todo' = Tail(todo)
  /\ IF Tail(todo) = <<>>
       THEN invalid' = TRUE /\ phase' = "wait"
       ELSE UNCHANGED <<invalid, phase>>
  /\ UNCHANGED <<freeTickets, live, refCnt, fmt, geom, numTickets,
                 subscribers, held, target, subVars, histVars>>

\* Mutant of invalidateDone: no wait for the tickets in use.
invalidateNow ==
  /\ phase = "wait"
  /\ phase' = IF target = NoGeom THEN "free" ELSE "alloc"
  /\ UNCHANGED <<bufVars, subscribers, held, todo, locked, target, subVars,
                 histVars>>

\* The second half of __invalidate: spin until the pool is full.
invalidateDone ==
  /\ phase = "wait"
  /\ Len(freeTickets) = numTickets
  /\ phase' = IF target = NoGeom THEN "free" ELSE "alloc"
  /\ UNCHANGED <<bufVars, subscribers, held, todo, locked, target, subVars,
                 histVars>>

\* __resize allocates the data areas first; when that fails the buffer
\* stays invalid and nothing else has changed.
allocate ==
  /\ phase = "alloc"
  /\ \/ phase' = "resize"
     \/ phase' = "idle"
  /\ UNCHANGED <<bufVars, subscribers, held, todo, locked, target, subVars,
                 histVars>>

\* The pool grows or shrinks only if the ticket count changes.
createTicket ==
  /\ phase = "resize"
  /\ numTickets # NumTickets(target)
  /\ Len(freeTickets) < NumTickets(target)
  /\ \E t \in Ticket \ live :
       /\ live' = live \cup {t}
       /\ freeTickets' = Append(freeTickets, t)
  /\ UNCHANGED <<refCnt, fmt, geom, numTickets, invalid, subscribers,
                 prodVars, subVars, histVars>>

destroyTicket ==
  /\ phase = "resize"
  /\ numTickets # NumTickets(target)
  /\ Len(freeTickets) > NumTickets(target)
  /\ live' = live \ {Head(freeTickets)}
  /\ freeTickets' = Tail(freeTickets)
  /\ UNCHANGED <<refCnt, fmt, geom, numTickets, invalid, subscribers,
                 prodVars, subVars, histVars>>

\* Ticket::init of every pooled ticket, then the buffer's own fields.
initTickets ==
  /\ phase = "resize"
  /\ \/ numTickets = NumTickets(target)
     \/ Len(freeTickets) = NumTickets(target)
  /\ refCnt' = [t \in Ticket |->
                  IF t \in Range(freeTickets) THEN 0 ELSE refCnt[t]]
  /\ fmt' = [t \in Ticket |->
                  IF t \in Range(freeTickets) THEN target ELSE fmt[t]]
  /\ geom' = target
  /\ numTickets' = NumTickets(target)
  /\ phase' = "notify"
  /\ UNCHANGED <<freeTickets, live, invalid, subscribers, held, todo, locked,
                 target, subVars, histVars>>

\* onNewGeometry of every subscriber, under the subscribers_list mutex;
\* then reset() lowers _invalid.
notifyGeometry ==
  /\ phase = "notify"
  /\ known' = [s \in Sub |-> IF s \in Range(subscribers) THEN geom
                                                         ELSE known[s]]
  /\ invalid' = FALSE
  /\ phase' = "idle"
  /\ UNCHANGED <<freeTickets, live, refCnt, fmt, geom, numTickets,
                 subscribers, held, todo, locked, target, pc, tickets, cur,
                 histVars>>

\* __freeResources deletes the pooled tickets; numTickets keeps its value.
freeResources ==
  /\ phase = "free"
  /\ live' = live \ Range(freeTickets)
  /\ freeTickets' = <<>>
  /\ phase' = "dead"
  /\ UNCHANGED <<refCnt, fmt, geom, numTickets, invalid, subscribers, held,
                 todo, locked, target, subVars, histVars>>

-----------------------------------------------------------------------------
(* A subscriber thread: SubscriberThread::run.                             *)

\* Mutant of subscribe: the new subscriber is not told the geometry.
subscribeUntold(s) ==
  /\ pc[s] = "off"
  /\ ListUnlocked
  /\ subscribers' = Append(subscribers, s)
  /\ pc' = [pc EXCEPT ![s] = "loop"]
  /\ UNCHANGED <<bufVars, prodVars, tickets, cur, known, histVars>>

subscribe(s) ==
  /\ pc[s] = "off"
  /\ ListUnlocked
  /\ subscribers' = Append(subscribers, s)
  /\ known' = [known EXCEPT ![s] = geom]
  /\ pc' = [pc EXCEPT ![s] = "loop"]
  /\ UNCHANGED <<bufVars, prodVars, tickets, cur, histVars>>

\* A round of the receive loop that finds a ticket.
getNext(s) ==
  /\ pc[s] = "loop"
  /\ Unlocked(s)
  /\ tickets[s] # <<>>
  /\ cur' = [cur EXCEPT ![s] = Head(tickets[s])]
  /\ tickets' = [tickets EXCEPT ![s] = Tail(@)]
  /\ pc' = [pc EXCEPT ![s] = "busy"]
  /\ UNCHANGED <<bufVars, subscribers, prodVars, known, histVars>>

\* onTicketReceived may take a further reference (Capture::insert) ...
reGet(s) ==
  /\ pc[s] = "busy"
  /\ kept[cur[s]] < MaxKept
  /\ kept' = [kept EXCEPT ![cur[s]] = @ + 1]
  /\ refCnt' = [refCnt EXCEPT ![cur[s]] = Wrap(@ + 1)]
  /\ UNCHANGED <<freeTickets, live, fmt, geom, numTickets, invalid,
                 subscribers, prodVars, subVars, posted, stamp>>

\* ... which another thread gives up later.
putKept(t) ==
  /\ kept[t] > 0
  /\ kept' = [kept EXCEPT ![t] = @ - 1]
  /\ put(t)
  /\ UNCHANGED <<live, fmt, geom, numTickets, invalid, subscribers, prodVars,
                 subVars, posted, stamp>>

\* Mutant of onTicketReceived: the ticket is not put.
receiveOnly(s) ==
  /\ pc[s] = "busy"
  /\ cur' = [cur EXCEPT ![s] = NoTicket]
  /\ pc' = [pc EXCEPT ![s] = "loop"]
  /\ UNCHANGED <<bufVars, subscribers, prodVars, tickets, known, histVars>>

\* onTicketReceived ends by putting the ticket it was given.
onTicketReceived(s) ==
  /\ pc[s] = "busy"
  /\ put(cur[s])
  /\ cur' = [cur EXCEPT ![s] = NoTicket]
  /\ pc' = [pc EXCEPT ![s] = "loop"]
  /\ UNCHANGED <<live, fmt, geom, numTickets, invalid, subscribers, prodVars,
                 tickets, known, histVars>>

\* The thread is interrupted, or one of its hooks ends the loop: onReset().
leaveLoop(s) ==
  /\ pc[s] = "loop"
  /\ Unlocked(s)
  /\ pc' = [pc EXCEPT ![s] = "drain"]
  /\ UNCHANGED <<bufVars, subscribers, prodVars, tickets, cur, known,
                 histVars>>

drainPut(s) ==
  /\ Draining(s)
  /\ popAndPut(s)
  /\ UNCHANGED <<live, fmt, geom, numTickets, invalid, subscribers, prodVars,
                 pc, cur, known, histVars>>

drainDone(s) ==
  /\ Draining(s)
  /\ tickets[s] = <<>>
  /\ pc' = [pc EXCEPT ![s] = IF @ = "drain" THEN "unsubscribe" ELSE "off"]
  /\ UNCHANGED <<bufVars, subscribers, prodVars, tickets, cur, known,
                 histVars>>

\* q without its element number i.
RemoveAt(q, i) == SubSeq(q, 1, i - 1) \o SubSeq(q, i + 1, Len(q))

\* Mutant of unsubscribe: no second onReset().
unsubscribeAndEnd(s) ==
  /\ pc[s] = "unsubscribe"
  /\ ListUnlocked
  /\ \E i \in DOMAIN subscribers :
       /\ subscribers[i] = s
       /\ subscribers' = RemoveAt(subscribers, i)
  /\ pc' = [pc EXCEPT ![s] = "off"]
  /\ UNCHANGED <<bufVars, prodVars, tickets, cur, known, histVars>>

\* Leave the list, then onReset() once more for what was posted meanwhile.
\* The erasing loop of unsubscribe() finds the thread once: NothingLeftBehind
\* says that a thread is on the list exactly once until it comes here.
unsubscribe(s) ==
  /\ pc[s] = "unsubscribe"
  /\ ListUnlocked
  /\ \E i \in DOMAIN subscribers :
       /\ subscribers[i] = s
       /\ subscribers' = RemoveAt(subscribers, i)
  /\ pc' = [pc EXCEPT ![s] = "redrain"]
  /\ UNCHANGED <<bufVars, prodVars, tickets, cur, known, histVars>>

-----------------------------------------------------------------------------
Init ==
  /\ freeTickets = <<>>
  /\ live = {}
  /\ refCnt = [t \in Ticket |-> 0]
  /\ fmt = [t \in Ticket |-> NoGeom]
  /\ geom = NoGeom
  /\ numTickets = 0
  /\ invalid = TRUE
  /\ subscribers = <<>>
  /\ phase = "idle"
  /\ held = NoTicket
  /\ todo = <<>>
  /\ locked = FALSE
  /\ target = NoGeom
  /\ pc = [s \in Sub |-> "off"]
  /\ tickets = [s \in Sub |-> <<>>]
  /\ cur = [s \in Sub |-> NoTicket]
  /\ known = [s \in Sub |-> NoGeom]
  /\ kept = [t \in Ticket |-> 0]
  /\ posted = 0
  /\ stamp = [t \in Ticket |-> 0]

\* What the buffer's code does once the producer has called it.
BufferStep ==
  \/ onTicketAvailable
  \/ flushLock \/ flushPut \/ flushNext \/ invalidateDone
  \/ allocate \/ createTicket \/ destroyTicket \/ initTickets
  \/ notifyGeometry \/ freeResources

\* Calls the producer makes.
ProducerCall == nextFreeTicket \/ returnEmpty \/ notifyFill \/ reset \/ uninit

\* What a subscriber thread does on its own until it is done.
SubscriberStep(s) ==
  \/ getNext(s) \/ onTicketReceived(s)
  \/ drainPut(s) \/ drainDone(s) \/ unsubscribe(s)

Next ==
  \/ ProducerCall
  \/ BufferStep
  \/ \E s \in Sub : subscribe(s) \/ SubscriberStep(s) \/ reGet(s)
                      \/ leaveLoop(s)
  \/ \E t \in Ticket : putKept(t)

Spec == Init /\ [][Next]_vars

(***************************************************************************)
(* Fairness.  The threads run on a preemptive scheduler, so a thread that  *)
(* can go on does: the producer inside the buffer's code and a subscriber  *)
(* with work in its queue.  Nothing forces a subscriber to exist or to     *)
(* stop, nor the producer to call: it may block in recvmmsg for ever.      *)
(* Nothing forces the holder of an extra reference to put it either: a     *)
(* capture that is not complete keeps its tickets until more of them come. *)
(***************************************************************************)
Fairness ==
  /\ WF_vars(BufferStep)
  /\ \A s \in Sub : WF_vars(SubscriberStep(s))

FairSpec == Spec /\ Fairness

-----------------------------------------------------------------------------
(* Properties.                                                             *)

BufferType ==
  /\ freeTickets \in Seq(Ticket)
  /\ live \subseteq Ticket
  /\ refCnt \in [Ticket -> 0..(RefMod - 1)]
  /\ fmt \in [Ticket -> Geom \cup {NoGeom}]
  /\ geom \in Geom \cup {NoGeom}
  /\ numTickets \in 0..Cardinality(Ticket)
  /\ invalid \in BOOLEAN
  /\ subscribers \in Seq(Sub)

ProducerType ==
  /\ phase \in Phases
  /\ held \in Ticket \cup {NoTicket}
  /\ held # NoTicket <=> phase \in {"filling", "deliver"}
  /\ todo \in Seq(Sub)
  /\ todo # <<>> <=> phase \in {"deliver", "flush"}
  /\ locked \in BOOLEAN
  /\ locked => phase = "flush"
  /\ target \in Geom \cup {NoGeom}
  /\ phase \in {"alloc", "resize", "notify"} => target \in Geom

SubscriberType ==
  /\ pc \in [Sub -> PCs]
  /\ tickets \in [Sub -> Seq(Ticket)]
  /\ cur \in [Sub -> Ticket \cup {NoTicket}]
  /\ \A s \in Sub : cur[s] # NoTicket <=> pc[s] = "busy"
  /\ known \in [Sub -> Geom \cup {NoGeom}]

HistoryType ==
  /\ kept \in [Ticket -> 0..MaxKept]
  /\ posted \in 0..MaxPosts
  /\ stamp \in [Ticket -> 0..MaxPosts]

\* Type correctness.  The producer holds a ticket exactly while it fills or
\* posts one, and has subscribers left to visit exactly while it is inside
\* one of its two loops over the list; a subscriber has a current ticket
\* exactly while it processes one.
TypeOK == BufferType /\ ProducerType /\ SubscriberType /\ HistoryType

Queueing(t)   == {s \in Sub : t \in Range(tickets[s])}
Processing(t) == {s \in Sub : cur[s] = t}
Undelivered(t) == IF phase = "deliver" /\ held = t THEN Len(todo) ELSE 0

\* The references to a ticket that consumers have or are about to get.
References(t) == Cardinality(Queueing(t)) + Cardinality(Processing(t))
                   + kept[t] + Undelivered(t)

NoDuplicates(q) == \A i, j \in DOMAIN q : q[i] = q[j] => i = j

\* Ticket::ref_cnt counts the consumers that still have the ticket: those
\* that queue it, process it, kept it with reGet, or are next in the loop of
\* useTicket.  No subscriber has it twice.
RefCountExact ==
  /\ \A t \in Ticket : refCnt[t] = References(t)
  /\ \A s \in Sub : NoDuplicates(tickets[s]) /\ cur[s] \notin Range(tickets[s])

\* Ticket conservation.  The pool has no ticket twice; a ticket is in the
\* pool, with the producer, or in use, never in two of these places and, if
\* it exists, never in none: "When all consumers have finished with the
\* data, the ticket is returned to the free pool" (TicketBuffer.h:93), and
\* not before.
InPool(t)  == t \in Range(freeTickets)
Filling(t) == phase = "filling" /\ held = t
InUse(t)   == References(t) > 0

Conservation ==
  /\ NoDuplicates(freeTickets)
  /\ \A t \in Ticket :
       /\ t \in live <=> InPool(t) \/ Filling(t) \/ InUse(t)
       /\ ~(InPool(t) /\ Filling(t))
       /\ ~(InUse(t) /\ (InPool(t) \/ Filling(t)))
  /\ phase \notin {"resize", "dead"} => Cardinality(live) = numTickets

\* From the end of __invalidate until the buffer is valid again no ticket is
\* out: the geometry changes "only once all outstanding tickets have been
\* returned by all co-subscribers" (TicketBuffer.h:284).
ResetQuiesced ==
  phase \in {"alloc", "resize", "notify", "free", "dead"} =>
    /\ \A t \in Ticket : refCnt[t] = 0 /\ kept[t] = 0
    /\ \A s \in Sub : tickets[s] = <<>> /\ cur[s] = NoTicket

\* A subscriber was told the geometry of every ticket it gets before it gets
\* the ticket, whatever resets and subscriptions overlap.
GeometryAgrees ==
  \A s \in Sub : \A t \in Range(tickets[s]) \cup ({cur[s]} \ {NoTicket}) :
    known[s] = fmt[t] /\ fmt[t] = geom

\* What s has, oldest first.
Backlog(s) == (IF cur[s] = NoTicket THEN <<>> ELSE <<cur[s]>>) \o tickets[s]

\* A subscriber sees every post since it subscribed, in order, none missing,
\* until it or a reset drops its backlog from the front.
InOrder ==
  \A s \in Sub :
    LET b == Backlog(s)
    IN  /\ \A i \in 1..(Len(b) - 1) : stamp[b[i + 1]] = stamp[b[i]] + 1
        /\ s \in Range(subscribers) /\ b # <<>> =>
             stamp[b[Len(b)]] =
               IF phase = "deliver" /\ s \in Range(todo) THEN posted - 1
                                                         ELSE posted

\* A subscriber thread is on the list, once, from subscribe() to
\* unsubscribe(), and when it has ended it has left nothing behind: the second
\* onReset() of run() caught what was posted between the first one and
\* unsubscribe().
NothingLeftBehind ==
  /\ NoDuplicates(subscribers)
  /\ \A s \in Sub :
       /\ s \in Range(subscribers) <=> pc[s] \notin {"off", "redrain"}
       /\ pc[s] = "off" => tickets[s] = <<>>

\* A reset() or uninit() that has begun ends: the producer never spins for
\* ever on a ticket no consumer gives back, unless a reference taken with
\* reGet is kept.
ResetTerminates ==
  phase \in {"flush", "wait"} ~> phase \notin {"flush", "wait"} \/ \E t \in Ticket : kept[t] > 0

\* A ticket that was posted comes back to the pool, unless it is kept.
TicketsComeBack == \A t \in Ticket : refCnt[t] > 0 ~> refCnt[t] = 0 \/ kept[t] > 0

\* Neither side hangs: a reset gets past its waiting and every posted ticket
\* comes back, unless the holder of an extra reference keeps it.
TicketsReturn == ResetTerminates /\ TicketsComeBack
=============================================================================
