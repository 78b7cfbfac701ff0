----------------------------- MODULE LiveBuffer -----------------------------
(***************************************************************************)
(* The live buffer (LiveBuffer/: LiveBuffer, Capture, CaptureTransmitter,  *)
(* Trigger).  Its thread subscribes to the receive buffer and, when it is  *)
(* triggered, keeps references to the tickets that hold the next N0        *)
(* frames: a capture.  The transmitter thread sends full captures to a     *)
(* configured address.  BUF commands change the configuration and trigger  *)
(* captures while both threads run; the receiver delivers tickets and      *)
(* resets the buffer when the format of the data changes.                  *)
(*                                                                         *)
(* One pass of the loop of onTicketReceived is one step, except for        *)
(* acquire_buffer, whose accesses to the two queues are steps of their     *)
(* own.  A failing assert (the build keeps them) ends the process.         *)
(***************************************************************************)
EXTENDS Integers, Sequences, SequencesExt, FiniteSets

CONSTANTS
  Ticket,       \* the tickets of the receive buffer
  Capture,      \* names for Capture objects
  FrameSize,    \* frame sizes of the data formats
  Counts,       \* numbers of frames a ticket is delivered with
  Burst,        \* mmpt: messages per call of sendmmsg
  Bufs,         \* BUF commands: a sequence of groups of settings
  MaxTickets,   \* bound on the tickets delivered
  MaxBufs       \* bound on the BUF commands

None == "none"

\* CaptureRule, and the groups of settings of a BUF command.
Rule  == [N : Nat, N0 : Nat, auto : BOOLEAN, vampire : BOOLEAN]
Group == [group : {"receiver"}, val : [ok : BOOLEAN]]
         \cup [group : {"capture"}, enabled : BOOLEAN, val : Rule]
         \cup [group : {"buffer"}, val : [max : 0 .. Cardinality(Capture), chunks : Nat]]

\* A ticket is delivered with frames in it, which onTicketReceived asserts,
\* and there are names for as many captures as a BUF may allow.
ASSUME LiveBufferAssumption ==
  /\ Ticket \subseteq Nat \ {0} /\ Counts \subseteq Nat \ {0}
  /\ IsFiniteSet(Capture) /\ None \notin Capture
  /\ Burst \in Nat \ {0} /\ MaxTickets \in Nat
  /\ Bufs \subseteq Seq(Group)

NoTicket == [t |-> 0, cnt |-> 0, fs |-> 0, seq |-> 0]

VARIABLES
  conf,         \* _rule, _max_*, _auto_ip: the configuration BUF writes
  changed,      \* _config_changed
  use,          \* the copy in _capture_state
  todo,         \* groups the BUF being handled has still to apply
  trg, chk,     \* Trigger
  serv_trg,
  pc,           \* the live buffer's thread
  stopping,     \* interrupted
  cur, ofs,     \* ticket of onTicketReceived and frames_consumed
  n, capturing, filling, count_cap_buffs,
  cap,          \* the Capture objects
  free, full,   \* _free_buffers and _full_buffers
  tx, sending,  \* the transmitter thread and its capture
  running,
  queue,        \* tickets delivered to the subscriber, with their content
  ref,          \* reference counts of the tickets
  resetting, fsize,
  delivered, commands \* bounded counters

config  == <<conf, changed, todo, commands>>
trigger == <<trg, chk>>
pool    == <<cap, free, full, count_cap_buffs, filling>>
thread  == <<use, serv_trg, pc, cur, ofs, n, capturing>>
sender  == <<tx, sending, running>>
stream  == <<queue, resetting, fsize, delivered>>
lbVars  == <<config, trigger, pool, thread, sender, stream, ref, stopping>>

\* A failed assert has not ended the process.
Alive == pc # "abort"

-----------------------------------------------------------------------------
\* Capture.
Dead     == [state |-> "dead", N0 |-> 0, fs |-> 0, n |-> 0, chunks |-> <<>>, commit |-> 0]
Live     == {c \in Capture : cap[c].state # "dead"}
isComplete(c) == c.n = c.N0 /\ c.n # 0

\* How many of the references in chunks lo+1.. are to ticket t.
RefsFrom(c, lo, t) == Cardinality({i \in lo + 1 .. Len(c.chunks) : c.chunks[i].of.t = t})

\* cancel: every reference is returned and the counters are reset.
cancel(c) == [c EXCEPT !.n = 0, !.N0 = 0, !.fs = 0, !.chunks = <<>>, !.commit = 0]

putAll(c, lo) == [t \in Ticket |-> ref[t] - RefsFrom(c, lo, t)]

prepare_for_transmission(c) == [c EXCEPT !.n = 0, !.commit = 0]

-----------------------------------------------------------------------------
\* BUF commands: groups are applied one after the other, each under the
\* configuration's mutex, and an invalid one ends the command without
\* undoing the groups before it.
Disabled == [N |-> 0, N0 |-> 0, auto |-> FALSE, vampire |-> FALSE]
Valid(g) ==
  CASE g.group = "receiver" -> g.val.ok
    [] g.group = "capture"  -> g.val.N # 0 /\ g.val.N0 # 0 /\ g.val.N0 <= g.val.N
    [] g.group = "buffer"   -> g.val.max # 0 /\ g.val.chunks # 0
Settings(g) == IF g.group = "capture" /\ ~g.enabled THEN Disabled ELSE g.val

onBuf(m) ==
  /\ Alive /\ commands < MaxBufs /\ todo = <<>> /\ m # <<>>
  /\ todo' = m
  /\ commands' = commands + 1
  /\ UNCHANGED <<conf, changed, trigger, pool, thread, sender, stream, ref, stopping>>

configure ==
  /\ Alive /\ todo # <<>>
  /\ LET g == Head(todo) IN
     IF Valid(g)
     THEN /\ conf' = [conf EXCEPT ![g.group] = Settings(g)]
          /\ changed' = TRUE
          /\ todo' = Tail(todo)
     ELSE todo' = <<>> /\ UNCHANGED <<conf, changed>>
  /\ UNCHANGED <<commands, trigger, pool, thread, sender, stream, ref, stopping>>

\* A BUF without settings is a trigger; triggers coalesce.
trigger_capture ==
  /\ Alive /\ commands < MaxBufs /\ todo = <<>>
  /\ commands' = commands + 1
  /\ trg' = 1
  /\ UNCHANGED <<conf, changed, todo, chk, pool, thread, sender, stream, ref, stopping>>

-----------------------------------------------------------------------------
\* The receiver (TicketBuffer and QueuedSubscriber as the live buffer sees
\* them).  Delivery and reset take the subscriber's mutex, which
\* onTicketReceived holds.
deliver(t, k) ==
  /\ pc = "wait" /\ ~resetting /\ delivered < MaxTickets
  /\ ref[t] = 0 /\ \A u \in Ticket : ref[u] = 0 => t <= u
  /\ ref' = [ref EXCEPT ![t] = 1]
  /\ queue' = Append(queue, [t |-> t, cnt |-> k, fs |-> fsize, seq |-> delivered + 1])
  /\ delivered' = delivered + 1
  /\ UNCHANGED <<resetting, fsize, config, trigger, pool, thread, sender, stopping>>

Queued == {queue[i].t : i \in 1 .. Len(queue)}
dropQueued == [t \in Ticket |-> IF t \in Queued THEN ref[t] - 1 ELSE ref[t]]

onReset ==
  /\ pc = "wait" /\ ~resetting
  /\ resetting' = TRUE
  /\ ref' = dropQueued
  /\ queue' = <<>>
  /\ UNCHANGED <<fsize, delivered, config, trigger, pool, thread, sender, stopping>>

\* The reset waits until no ticket is referenced.
resetDone(f) ==
  /\ Alive /\ resetting /\ \A t \in Ticket : ref[t] = 0
  /\ resetting' = FALSE
  /\ fsize' = f
  /\ UNCHANGED <<queue, delivered, ref, config, trigger, pool, thread, sender, stopping>>

-----------------------------------------------------------------------------
\* The live buffer's thread: the receive loop of SubscriberThread.
getNext ==
  /\ pc = "wait" /\ ~stopping /\ queue # <<>>
  /\ cur' = Head(queue) /\ ofs' = 0
  /\ queue' = Tail(queue)
  /\ pc' = "loop"
  /\ UNCHANGED <<resetting, fsize, delivered, use, serv_trg, n, capturing, ref,
                 config, trigger, pool, sender, stopping>>

left == cur.cnt - ofs

\* frames_consumed reached cnt_used, or the thread is interrupted.
put ==
  /\ pc = "loop" /\ (left = 0 \/ stopping)
  /\ ref' = [ref EXCEPT ![cur.t] = @ - 1]
  /\ cur' = NoTicket /\ ofs' = 0
  /\ pc' = "wait"
  /\ UNCHANGED <<use, serv_trg, n, capturing, config, trigger, pool, sender, stream, stopping>>

Looping == pc = "loop" /\ left > 0 /\ ~stopping

\* Trigger::service spins until trg and chk are 1.
service == trg = 1 /\ chk = 1 /\ trg' = 0 /\ chk' = 0

reset_trigger ==
  /\ IF serv_trg THEN service ELSE UNCHANGED trigger
  /\ serv_trg' = FALSE

reset_capture == reset_trigger /\ n' = 0 /\ capturing' = FALSE

\* Capture::insert: the frames that the capture needs, as one more chunk.
NeededAll(c) == c.N0 - c.n
Needed(c)    == IF left < c.N0 - c.n THEN left ELSE c.N0 - c.n
Inserted(c) ==
  [c EXCEPT !.fs = IF c.n = 0 THEN cur.fs ELSE @,
            !.n = @ + Needed(c),
            !.chunks = Append(@, [of |-> cur, index |-> ofs, count |-> Needed(c)])]
SizeMatches(c) == c.n = 0 \/ cur.fs = c.fs

insertRef == ref' = [ref EXCEPT ![cur.t] = @ + 1]

\* More frames are needed than the ticket has.
insert ==
  LET c == cap[filling]
      d == Inserted(c)
  IN /\ Looping /\ capturing /\ filling # None
     /\ SizeMatches(c)
     /\ d.n # d.N0 /\ Len(d.chunks) # use["buffer"].chunks
     /\ cap' = [cap EXCEPT ![filling] = d]
     /\ insertRef
     /\ ofs' = ofs + Needed(c) /\ n' = n + Needed(c)
     /\ UNCHANGED <<use, serv_trg, pc, cur, capturing, free, full, count_cap_buffs, filling,
                    config, trigger, sender, stream, stopping>>

\* The last chunk of a complete capture: it is queued for transmission.
insertLast ==
  LET c == cap[filling]
      d == Inserted(c)
  IN /\ Looping /\ capturing /\ filling # None
     /\ SizeMatches(c) /\ d.n = d.N0
     /\ insertRef
     /\ ofs' = ofs + Needed(c) /\ n' = n + Needed(c)
     /\ cap' = [cap EXCEPT ![filling] = [prepare_for_transmission(d) EXCEPT !.state = "full"]]
     /\ full' = Append(full, filling)
     /\ filling' = None
     /\ UNCHANGED <<use, serv_trg, pc, cur, capturing, free, count_cap_buffs,
                    config, trigger, sender, stream, stopping>>

\* The capture ends incomplete, for a change of the frame size or for want
\* of chunks.  It is deleted; _count_cap_buffs keeps counting it.
insertFails ==
  LET c == cap[filling]
      d == IF SizeMatches(c) THEN Inserted(c) ELSE c
  IN /\ Looping /\ capturing /\ filling # None
     /\ SizeMatches(c) => d.n # d.N0 /\ Len(d.chunks) = use["buffer"].chunks
     /\ ofs' = ofs + (d.n - c.n)
     /\ ref' = putAll(c, 0)   \* a chunk inserted now is returned at once
     /\ cap' = [cap EXCEPT ![filling] = Dead]
     /\ filling' = None
     /\ reset_capture
     /\ UNCHANGED <<use, pc, cur, free, full, count_cap_buffs, config, sender, stream, stopping>>

\* The frames between the end of one capture and the beginning of the next.
drop ==
  LET k == IF use["capture"].N - n < left THEN use["capture"].N - n ELSE left
  IN /\ Looping /\ capturing /\ filling = None
     /\ ofs' = ofs + k
     /\ IF n + k = use["capture"].N THEN reset_capture
        ELSE n' = n + k /\ UNCHANGED <<serv_trg, capturing, trigger>>
     /\ UNCHANGED <<use, pc, cur, config, pool, sender, stream, ref, stopping>>

\* check_config: the new configuration is read between captures only.
read_config == use' = IF changed THEN conf ELSE use
is_current_config_valid(c) ==
  c["receiver"].ok /\ c["capture"].N # 0 /\ c["capture"].N0 # 0

check_config ==
  /\ Looping /\ ~capturing
  /\ read_config
  /\ changed' = FALSE
  /\ IF is_current_config_valid(use') THEN pc' = "trigger" /\ UNCHANGED ofs
     ELSE ofs' = cur.cnt /\ UNCHANGED pc
  /\ UNCHANGED <<conf, todo, commands, serv_trg, cur, n, capturing, trigger, pool, sender,
                 stream, ref, stopping>>

checkedNot == chk
checked    == IF trg # 0 THEN 1 ELSE chk

check_trigger ==
  /\ pc = "trigger"
  /\ serv_trg' = (trg # 0 /\ chk = 0)
  /\ chk' = checked
  /\ IF serv_trg' \/ use["capture"].auto THEN pc' = "clean" /\ UNCHANGED ofs
     ELSE pc' = "loop" /\ ofs' = cur.cnt
  /\ UNCHANGED <<trg, use, cur, n, capturing, config, pool, sender, stream, ref, stopping>>

\* acquire_buffer: free captures are deleted while fewer than the limit
\* exist.
cleanup ==
  /\ pc = "clean"
  /\ IF count_cap_buffs < use["buffer"].max /\ free # <<>>
     THEN /\ free' = Tail(free)
          /\ cap' = [cap EXCEPT ![Head(free)] = Dead]
          /\ count_cap_buffs' = count_cap_buffs - 1
          /\ UNCHANGED pc
     ELSE pc' = "take" /\ UNCHANGED <<free, cap, count_cap_buffs>>
  /\ UNCHANGED <<full, filling, use, serv_trg, cur, ofs, n, capturing, config, trigger,
                 sender, stream, ref, stopping>>

\* set_rule asserts that the capture is empty.
set_rule(c, rec) ==
  IF rec.n # 0
  THEN pc' = "abort" /\ UNCHANGED <<cap, filling, n, capturing>>
  ELSE /\ cap' = [cap EXCEPT ![c] = [rec EXCEPT !.state = "filling", !.N0 = use["capture"].N0]]
       /\ filling' = c
       /\ n' = 0 /\ capturing' = TRUE
       /\ pc' = "loop"

takeFree ==
  /\ pc = "take" /\ free # <<>>
  /\ free' = Tail(free)
  /\ set_rule(Head(free), cap[Head(free)])
  /\ UNCHANGED <<full, count_cap_buffs, use, serv_trg, cur, ofs, config, trigger, sender,
                 stream, ref, stopping>>

noneFree ==
  /\ pc = "take" /\ free = <<>>
  /\ pc' = "more"
  /\ UNCHANGED <<use, serv_trg, cur, ofs, n, capturing, config, trigger, pool, sender,
                 stream, ref, stopping>>

newCapture ==
  /\ pc = "more" /\ count_cap_buffs < use["buffer"].max
  /\ count_cap_buffs' = count_cap_buffs + 1
  /\ set_rule(CHOOSE c \in Capture : c \notin Live, Dead)
  /\ UNCHANGED <<free, full, use, serv_trg, cur, ofs, config, trigger, sender, stream, ref,
                 stopping>>

\* The eldest capture that has not been sent is given up for a new one.
vampire ==
  /\ pc = "more" /\ count_cap_buffs >= use["buffer"].max
  /\ use["capture"].vampire /\ full # <<>>
  /\ full' = Tail(full)
  /\ ref' = putAll(cap[Head(full)], 0)
  /\ set_rule(Head(full), cancel(cap[Head(full)]))
  /\ UNCHANGED <<free, count_cap_buffs, use, serv_trg, cur, ofs, config, trigger, sender,
                 stream, stopping>>

noBuffer ==
  /\ pc = "more" /\ count_cap_buffs >= use["buffer"].max
  /\ use["capture"].vampire => full = <<>>
  /\ reset_trigger
  /\ ofs' = cur.cnt
  /\ pc' = "loop"
  /\ UNCHANGED <<use, cur, n, capturing, config, pool, sender, stream, ref, stopping>>

-----------------------------------------------------------------------------
\* The transmitter thread.
txTake ==
  /\ Alive /\ tx = "idle" /\ running /\ full # <<>>
  /\ tx' = "send" /\ sending' = Head(full)
  /\ full' = Tail(full)
  /\ cap' = [cap EXCEPT ![Head(full)].state = "sending"]
  /\ UNCHANGED <<running, free, count_cap_buffs, filling, config, trigger, thread, stream,
                 ref, stopping>>

\* One burst of the first chunk.  next_out sets _cur_chunk_out to
\* _cur_chunk_in at the end of a chunk; commit_out returns the reference
\* with the last frame of the chunk.
Sendable(c) == c.chunks[1].count - c.n
send ==
  LET c == cap[sending]
      k == IF Burst < Sendable(c) THEN Burst ELSE Sendable(c)
      last == k = Sendable(c)
  IN /\ Alive /\ tx = "send" /\ c.commit = 0
     /\ cap' = [cap EXCEPT ![sending].n = c.n + k, ![sending].commit = IF last THEN 1 ELSE 0]
     /\ ref' = IF last THEN [ref EXCEPT ![c.chunks[1].of.t] = @ - 1] ELSE ref
     /\ tx' = IF last /\ Len(c.chunks) = 1 THEN "sent" ELSE "send"
     /\ UNCHANGED <<sending, running, free, full, count_cap_buffs, filling, config, trigger,
                    thread, stream, stopping>>

\* With last_in_chunk still set the next burst is empty, which is taken for
\* an error: abort_all returns the chunks that were not sent.
abort_allNot(c) == UNCHANGED ref
abort_all(c)    == ref' = putAll(c, c.commit)

sendNothingRetry == Alive /\ tx = "send" /\ cap[sending].commit > 0 /\ UNCHANGED lbVars
sendNothing ==
  LET c == cap[sending]
  IN /\ Alive /\ tx = "send" /\ c.commit > 0
     /\ abort_all(c)
     /\ cap' = [cap EXCEPT ![sending].commit = Len(c.chunks)]
     /\ tx' = "sent"
     /\ UNCHANGED <<sending, running, free, full, count_cap_buffs, filling, config, trigger,
                    thread, stream, stopping>>

txReturn ==
  /\ Alive /\ tx = "sent"
  /\ free' = Append(free, sending)
  /\ cap' = [cap EXCEPT ![sending].state = "free"]
  /\ tx' = "idle" /\ sending' = None
  /\ UNCHANGED <<running, full, count_cap_buffs, filling, config, trigger, thread, stream,
                 ref, stopping>>

\* run sets _started; the thread may come to that only after the stop.
txStart ==
  /\ Alive /\ tx = "new"
  /\ tx' = "idle"
  /\ UNCHANGED <<sending, running, config, trigger, pool, thread, stream, ref, stopping>>

txDone ==
  /\ Alive /\ tx = "idle" /\ ~running
  /\ tx' = "done"
  /\ UNCHANGED <<sending, running, config, trigger, pool, thread, stream, ref, stopping>>

-----------------------------------------------------------------------------
\* stop and onUninit.
interrupt ==
  /\ Alive /\ ~stopping
  /\ stopping' = TRUE
  /\ UNCHANGED <<config, trigger, pool, thread, sender, stream, ref>>

\* CaptureTransmitter::shutdown
shutdownNot == UNCHANGED running
shutdown    == running' = FALSE

\* The subscriber leaves: the tickets still queued are returned, and no
\* more are delivered.
unsubscribe ==
  /\ pc = "wait" /\ stopping
  /\ ref' = dropQueued
  /\ queue' = <<>>
  /\ shutdown
  /\ pc' = "txstop"
  /\ UNCHANGED <<resetting, fsize, delivered, use, serv_trg, cur, ofs, n, capturing, tx,
                 sending, config, trigger, pool, stopping>>

\* The transmitter has ended, or has not set _started yet and will find that
\* it is not to run: shutdown returns.  The capture in progress and the full
\* ones are cancelled, and the free ones deleted.
Kept == (IF filling = None THEN {} ELSE {filling}) \union ToSet(full)
onUninit ==
  /\ pc = "txstop" /\ tx \in {"new", "done"}
  /\ ref' = [t \in Ticket |->
              ref[t] - Cardinality({p \in Kept \X (1 .. MaxTickets) :
                          /\ p[2] <= Len(cap[p[1]].chunks)
                          /\ cap[p[1]].chunks[p[2]].of.t = t})]
  /\ cap' = [c \in Capture |-> Dead]
  /\ free' = <<>> /\ full' = <<>> /\ filling' = None
  /\ count_cap_buffs' = count_cap_buffs - Cardinality(Kept) - Len(free)
  /\ IF capturing THEN reset_capture ELSE UNCHANGED <<serv_trg, n, capturing, trigger>>
  /\ pc' = IF count_cap_buffs' = 0 THEN "end" ELSE "abort"
  /\ UNCHANGED <<use, cur, ofs, config, sender, stream, stopping>>

-----------------------------------------------------------------------------
Start == [receiver |-> [ok |-> FALSE], capture |-> Disabled,
          buffer |-> [max |-> Cardinality(Capture), chunks |-> MaxTickets + 1]]

LbInit ==
  /\ conf = Start /\ changed = TRUE /\ use = Start
  /\ todo = <<>> /\ commands = 0
  /\ trg = 0 /\ chk = 0 /\ serv_trg = FALSE
  /\ pc = "wait" /\ stopping = FALSE
  /\ cur = NoTicket /\ ofs = 0 /\ n = 0
  /\ capturing = FALSE /\ filling = None /\ count_cap_buffs = 0
  /\ cap = [c \in Capture |-> Dead] /\ free = <<>> /\ full = <<>>
  /\ tx = "new" /\ sending = None /\ running = TRUE
  /\ queue = <<>> /\ delivered = 0
  /\ ref = [t \in Ticket |-> 0]
  /\ resetting = FALSE /\ fsize \in FrameSize

Thread ==
  \/ getNext \/ put
  \/ insert \/ insertLast \/ insertFails \/ drop
  \/ check_config \/ check_trigger
  \/ cleanup \/ takeFree \/ noneFree \/ newCapture \/ vampire \/ noBuffer
  \/ unsubscribe \/ onUninit
Transmitter == txStart \/ txTake \/ send \/ sendNothing \/ txReturn \/ txDone
Receive     == \/ \E t \in Ticket, k \in Counts : deliver(t, k)
               \/ onReset \/ \E f \in FrameSize : resetDone(f)
Command     == (\E m \in Bufs : onBuf(m)) \/ configure \/ trigger_capture

LbNext == Thread \/ Transmitter \/ Receive \/ Command \/ interrupt

LbSpec == LbInit /\ [][LbNext]_lbVars

\* Both threads and the receiver's reset run on; commands, data and the stop
\* come or not.
LbFairSpec ==
  /\ LbSpec
  /\ WF_lbVars(Thread) /\ WF_lbVars(Transmitter)
  /\ WF_lbVars(\E f \in FrameSize : resetDone(f))

-----------------------------------------------------------------------------
\* Captures are where their state says, in at most one place, and a trigger
\* is only serviced while it is set, so that Trigger::service cannot spin.
LbTypeOK ==
  /\ pc # "abort" => \A c \in Capture : LET s == cap[c].state IN
       /\ s = "filling" <=> c = filling
       /\ s = "sending" <=> c = sending
       /\ s = "full" <=> c \in ToSet(full)
       /\ s = "free" <=> c \in ToSet(free)
       /\ s \notin {"filling", "sending", "full", "free"} => cap[c] = Dead
  /\ IsInjective(free \o full)
  /\ serv_trg => trg = 1 /\ chk = 1
  /\ ofs \in 0 .. cur.cnt
  /\ pc # "abort" => count_cap_buffs >= Cardinality(Live)
  /\ filling # None => capturing

\* A ticket's reference count is exactly the references the live buffer
\* holds: one in the queue or in onTicketReceived, and one for each chunk of
\* a capture that has not been returned.  Neither thread returns a reference
\* twice, and none is lost when a capture is dropped, given up, sent or
\* cancelled.
ReferencesBalanced ==
  \A t \in Ticket :
    ref[t] = (IF t \in Queued THEN 1 ELSE 0)
             + (IF cur.t = t THEN 1 ELSE 0)
             + Cardinality({c \in Capture :
                 /\ cap[c].state \in {"filling", "full", "sending"}
                 /\ \E i \in cap[c].commit + 1 .. Len(cap[c].chunks) : cap[c].chunks[i].of.t = t})

\* The frames of a capture are consecutive frames of the stream, at most N0
\* of them, and the chunks refer to frames that are still in the ticket.
CaptureIsContiguous ==
  \A c \in Capture : cap[c].state \in {"filling", "full"} =>
    LET ch == cap[c].chunks IN
    /\ \A i \in 1 .. Len(ch) :
         /\ ch[i].count > 0 /\ ref[ch[i].of.t] > 0
         /\ ch[i].index + ch[i].count <= ch[i].of.cnt
         /\ ch[i].of.fs = cap[c].fs
    /\ \A i \in 1 .. Len(ch) - 1 :
         /\ ch[i + 1].of.seq = ch[i].of.seq + 1
         /\ ch[i + 1].index = 0
         /\ ch[i].index + ch[i].count = ch[i].of.cnt

\* The live buffer's thread ends when it is stopped, unless an assert ends
\* the process first.
LiveBufferStops == stopping ~> (pc \in {"end", "abort"})

\* A reset of the receive buffer is only held up by a capture being filled,
\* which nothing will fill any more.
ResetWaitsForCapture ==
  resetting ~> (~resetting \/ (filling # None /\ cap[filling].n > 0) \/ pc = "abort")

\* A capture that is complete is handed to the transmitter or given up: it
\* does not stay queued.
FullCaptureLeaves ==
  \A c \in Capture : (c \in ToSet(full)) ~> (c \notin ToSet(full) \/ pc = "abort")

\* Captures are in one place each, and their references are all accounted for.
CapturesSound == LbTypeOK /\ ReferencesBalanced

\* Neither a stop, nor a reset of the receive buffer, nor a full capture is
\* held up for ever.
LiveBufferProgress == LiveBufferStops /\ ResetWaitsForCapture /\ FullCaptureLeaves

\* assert(_n == 0) of Capture::set_rule and
\* assert(_capture_state._count_cap_buffs == 0) of onUninit.
AssertionsHold == pc # "abort"
=============================================================================
