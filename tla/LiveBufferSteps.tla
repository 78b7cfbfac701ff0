-------------------------- MODULE LiveBufferSteps ---------------------------
(***************************************************************************)
(* The live buffer's invariant, and that commands, the stream of tickets   *)
(* and the filling of a capture preserve it.                               *)
(*                                                                         *)
(* The inductive invariant LbInv says where each capture is (PlaceInv),    *)
(* what is in it (CaptureInv), how the stream of tickets continues a       *)
(* capture that is being filled (FillInv), that a ticket delivered again   *)
(* is in no capture (FreshInv), and that the counts are exact.             *)
(***************************************************************************)
EXTENDS LiveBuffer, FiniteSetTheorems, SequenceTheorems, TLAPS

-----------------------------------------------------------------------------
(* The inductive invariant.                                                *)

TicketSet == [t : Ticket, cnt : Nat \ {0}, fs : FrameSize, seq : 1 .. MaxTickets]
ChunkSet  == [of : TicketSet, index : Nat, count : Nat \ {0}]
States    == {"dead", "filling", "full", "sending", "free"}
CapSet    == [state : States, N0 : Nat, fs : FrameSize \cup {0}, n : Nat,
              chunks : Seq(ChunkSet), commit : Nat]
ConfSet   == [receiver : [ok : BOOLEAN],
              capture : {r \in Rule : r.N0 <= r.N},
              buffer : [max : 0 .. Cardinality(Capture), chunks : Nat]]

\* The types of the variables.
ConfInv == conf \in ConfSet /\ use \in ConfSet /\ todo \in Seq(Group)

TypeInv ==
  /\ trg \in {0, 1} /\ chk \in {0, 1}
  /\ pc \in {"wait", "loop", "trigger", "clean", "take", "more", "txstop", "end", "abort"}
  /\ tx \in {"new", "idle", "send", "sent", "done"}
  /\ cur \in TicketSet \cup {NoTicket} /\ ofs \in Nat /\ n \in Nat
  /\ filling \in Capture \cup {None} /\ sending \in Capture \cup {None}
  /\ cap \in [Capture -> CapSet]
  /\ free \in Seq(Capture) /\ full \in Seq(Capture)
  /\ count_cap_buffs \in Int
  /\ queue \in Seq(TicketSet) /\ delivered \in 0 .. MaxTickets
  /\ ref \in [Ticket -> Int] /\ fsize \in FrameSize

\* Where the live buffer's thread is.
Acquiring == {"trigger", "clean", "take", "more"}

ThreadInv ==
  /\ pc \in {"wait", "txstop", "end"} => cur = NoTicket
  /\ pc \in Acquiring \cup {"loop"} => cur \in TicketSet
  /\ ofs <= cur.cnt
  /\ pc \in Acquiring => ~capturing /\ use["capture"].N0 # 0
  /\ filling # None => capturing
  /\ capturing => n <= use["capture"].N
  /\ serv_trg => trg = 1 /\ chk = 1
  /\ resetting \/ pc \in {"txstop", "end"} => queue = <<>>
  /\ tx \in {"send", "sent"} <=> sending # None

\* A capture is where its state says, and in one place.
Placed(c) ==
  LET s == cap[c].state IN
  /\ s = "filling" <=> c = filling
  /\ s = "sending" <=> c = sending
  /\ s = "full" <=> c \in ToSet(full)
  /\ s = "free" <=> c \in ToSet(free)
  /\ s = "dead" => cap[c] = Dead

PlaceInv ==
  /\ pc # "abort" => \A c \in Capture : Placed(c)
  /\ IsInjective(free) /\ IsInjective(full)
  /\ ToSet(free) \cap ToSet(full) = {}

CountInv == pc # "abort" => count_cap_buffs >= Cardinality(Live)

\* What is in a capture: no ticket twice, and consecutive frames.
Distinct(r) ==
  \A i, j \in 1 .. Len(r.chunks) : r.chunks[i].of.t = r.chunks[j].of.t => i = j

Chain(r) ==
  \A i \in 1 .. Len(r.chunks) :
    LET ch == r.chunks[i] IN
    /\ ch.index + ch.count <= ch.of.cnt
    /\ ch.of.fs = r.fs
    /\ ch.of.seq = r.chunks[1].of.seq + i - 1
    /\ i > 1 => ch.index = 0
    /\ i < Len(r.chunks) => ch.index + ch.count = ch.of.cnt

FillingOK(r) ==
  /\ Distinct(r) /\ Chain(r)
  /\ r.commit = 0 /\ r.n < r.N0
  /\ r.n = 0 <=> r.chunks = <<>>

FullOK(r) == Distinct(r) /\ Chain(r) /\ r.commit = 0 /\ r.n = 0 /\ Len(r.chunks) > 0

\* While a capture is sent, commit counts the chunks that were returned.
SendingOK(r, where) ==
  /\ Distinct(r)
  /\ where = "send" => \/ r.commit = 0 /\ Len(r.chunks) > 0 /\ r.n < r.chunks[1].count
                       \/ r.commit = 1 /\ Len(r.chunks) > 1 /\ r.n > 0
  /\ where = "sent" => r.commit = Len(r.chunks) /\ r.n > 0

CapOK(r, where) ==
  /\ r.state = "filling" => FillingOK(r)
  /\ r.state = "full" => FullOK(r)
  /\ r.state = "sending" => SendingOK(r, where)
  /\ r.state = "free" => r.n > 0

CaptureInv == \A c \in Capture : CapOK(cap[c], tx)

\* The references that a capture has to a ticket.
Held == {"filling", "full", "sending"}
Holds(r, t) ==
  r.state \in Held /\ \E i \in r.commit + 1 .. Len(r.chunks) : r.chunks[i].of.t = t
Holders(cp, t) == {c \in Capture : Holds(cp[c], t)}

\* A ticket that waits is in no capture, and a ticket is inserted once.
FreshInv ==
  /\ \A i, j \in 1 .. Len(queue) : queue[i].t = queue[j].t => i = j
  /\ \A i \in 1 .. Len(queue) : queue[i].t # cur.t
  /\ \A i \in 1 .. Len(queue) : \A c \in Capture : ~Holds(cap[c], queue[i].t)
  /\ \A c \in Capture : cap[c].state = "filling" /\ left > 0 => ~Holds(cap[c], cur.t)

\* Tickets come in their order.
OrderInv ==
  /\ \A i \in 1 .. Len(queue) : queue[i].seq = delivered - Len(queue) + i
  /\ cur # NoTicket => cur.seq = delivered - Len(queue)

\* A capture that is being filled goes on with the next frame.
NextFrame(r) ==
  LET last == r.chunks[Len(r.chunks)] IN
  /\ last.index + last.count = last.of.cnt
  /\ left > 0 => ofs = 0 /\ cur.seq = last.of.seq + 1
  /\ cur # NoTicket /\ left = 0 => cur.seq = last.of.seq
  /\ pc = "wait" /\ ~resetting => last.of.seq = delivered - Len(queue)

FillInv ==
  filling # None =>
    /\ cap[filling].n = n /\ cap[filling].N0 = use["capture"].N0
    /\ ~stopping /\ cap[filling].chunks # <<>> => NextFrame(cap[filling])

\* The reference counts are exact.
One(b) == IF b THEN 1 ELSE 0
RefInv ==
  \A t \in Ticket :
    ref[t] = One(t \in Queued) + One(cur.t = t) + Cardinality(Holders(cap, t))

LbInv ==
  /\ ConfInv
  /\ TypeInv
  /\ ThreadInv
  /\ PlaceInv
  /\ CountInv
  /\ CaptureInv
  /\ FreshInv
  /\ OrderInv
  /\ FillInv
  /\ RefInv

-----------------------------------------------------------------------------
(* Sequences without repetitions.                                          *)

LEMMA TailOf ==
  ASSUME NEW S, NEW s \in Seq(S), s # <<>>, IsInjective(s)
  PROVE  /\ Head(s) \in S /\ Head(s) \in ToSet(s)
         /\ Tail(s) \in Seq(S) /\ IsInjective(Tail(s))
         /\ ToSet(Tail(s)) = ToSet(s) \ {Head(s)}
<1>1. /\ Len(s) \in Nat \ {0} /\ Head(s) = s[1] /\ s[1] \in S /\ Tail(s) \in Seq(S)
      /\ Len(Tail(s)) = Len(s) - 1 /\ DOMAIN s = 1 .. Len(s)
      /\ DOMAIN Tail(s) = 1 .. Len(s) - 1
      /\ \A i \in 1 .. Len(s) - 1 : Tail(s)[i] = s[i + 1]
  BY HeadTailProperties, LenProperties
<1>2. \A i, j \in 1 .. Len(s) : s[i] = s[j] => i = j
  BY <1>1 DEF IsInjective
<1>3. IsInjective(Tail(s))
  BY <1>1, <1>2 DEF IsInjective
<1>4. ASSUME NEW x \in ToSet(s), x # Head(s)
      PROVE  x \in ToSet(Tail(s))
  <2>1. PICK i \in 1 .. Len(s) : x = s[i]
    BY <1>1, <1>4 DEF ToSet
  <2>2. i - 1 \in 1 .. Len(s) - 1 /\ Tail(s)[i - 1] = x
    BY <1>1, <1>4, <2>1
  <2> QED
    BY <1>1, <2>2 DEF ToSet
<1>5. ASSUME NEW x \in ToSet(Tail(s))
      PROVE  x \in ToSet(s) /\ x # Head(s)
  <2>1. PICK i \in 1 .. Len(s) - 1 : x = Tail(s)[i]
    BY <1>1 DEF ToSet
  <2>2. x = s[i + 1] /\ i + 1 \in 1 .. Len(s) /\ i + 1 # 1 /\ 1 \in 1 .. Len(s)
    BY <1>1, <2>1
  <2> QED
    BY <1>1, <1>2, <2>2 DEF ToSet
<1>6. Head(s) \in ToSet(s)
  BY <1>1 DEF ToSet
<1> QED
  BY <1>1, <1>3, <1>4, <1>5, <1>6

LEMMA AppendOf ==
  ASSUME NEW S, NEW s \in Seq(S), NEW e \in S, IsInjective(s), e \notin ToSet(s)
  PROVE  /\ Append(s, e) \in Seq(S) /\ IsInjective(Append(s, e))
         /\ ToSet(Append(s, e)) = ToSet(s) \cup {e}
<1>1. PICK q : q = Append(s, e)
  OBVIOUS
<1>2. /\ q \in Seq(S) /\ Len(s) \in Nat /\ Len(q) = Len(s) + 1
      /\ DOMAIN s = 1 .. Len(s) /\ DOMAIN q = 1 .. Len(s) + 1
      /\ \A i \in 1 .. Len(s) : q[i] = s[i]
      /\ q[Len(s) + 1] = e
  BY <1>1, AppendProperties, LenProperties
<1>3. \A i, j \in 1 .. Len(s) : s[i] = s[j] => i = j
  BY <1>2 DEF IsInjective
<1>4. \A i \in 1 .. Len(s) : s[i] # e
  BY <1>2 DEF ToSet
<1>5. IsInjective(q)
  <2>1. SUFFICES ASSUME NEW a \in 1 .. Len(s) + 1, NEW b \in 1 .. Len(s) + 1, q[a] = q[b]
                 PROVE  a = b
    BY <1>2 DEF IsInjective
  <2>2. /\ a \in 1 .. Len(s) \/ a = Len(s) + 1
        /\ b \in 1 .. Len(s) \/ b = Len(s) + 1
    BY <1>2
  <2> QED
    BY <1>2, <1>3, <1>4, <2>1, <2>2
<1>6. ToSet(q) \subseteq ToSet(s) \cup {e}
  <2>1. SUFFICES ASSUME NEW a \in 1 .. Len(s) + 1
                 PROVE  q[a] \in ToSet(s) \cup {e}
    BY <1>2 DEF ToSet
  <2>2. a \in 1 .. Len(s) \/ a = Len(s) + 1
    BY <1>2
  <2> QED
    BY <1>2, <2>2 DEF ToSet
<1>7. ToSet(s) \cup {e} \subseteq ToSet(q)
  <2>1. ASSUME NEW a \in 1 .. Len(s)
        PROVE  s[a] \in ToSet(q)
    BY <1>2 DEF ToSet
  <2>2. e \in ToSet(q)
    BY <1>2 DEF ToSet
  <2> QED
    BY <1>2, <2>1, <2>2 DEF ToSet
<1> QED
  BY <1>1, <1>2, <1>5, <1>6, <1>7

LEMMA ConcatOf ==
  ASSUME NEW S, NEW s \in Seq(S), NEW q \in Seq(S), IsInjective(s), IsInjective(q),
         ToSet(s) \cap ToSet(q) = {}
  PROVE  IsInjective(s \o q)
<1>1. /\ Len(s) \in Nat /\ Len(q) \in Nat
      /\ DOMAIN s = 1 .. Len(s) /\ DOMAIN q = 1 .. Len(q)
      /\ DOMAIN (s \o q) = 1 .. Len(s) + Len(q)
      /\ \A i \in 1 .. Len(s) : (s \o q)[i] = s[i]
      /\ \A i \in 1 .. Len(s) + Len(q) : i > Len(s) => (s \o q)[i] = q[i - Len(s)]
  BY ConcatProperties, LenProperties
<1>2. /\ \A i, j \in 1 .. Len(s) : s[i] = s[j] => i = j
      /\ \A i, j \in 1 .. Len(q) : q[i] = q[j] => i = j
  BY <1>1 DEF IsInjective
<1>3. \A i \in 1 .. Len(s) : \A j \in 1 .. Len(q) : s[i] # q[j]
  BY <1>1 DEF ToSet
<1>4. SUFFICES ASSUME NEW a \in 1 .. Len(s) + Len(q), NEW b \in 1 .. Len(s) + Len(q),
                      (s \o q)[a] = (s \o q)[b]
               PROVE  a = b
  BY <1>1 DEF IsInjective
<1>5. /\ \/ a \in 1 .. Len(s) /\ (s \o q)[a] = s[a]
         \/ a - Len(s) \in 1 .. Len(q) /\ (s \o q)[a] = q[a - Len(s)]
      /\ \/ b \in 1 .. Len(s) /\ (s \o q)[b] = s[b]
         \/ b - Len(s) \in 1 .. Len(q) /\ (s \o q)[b] = q[b - Len(s)]
  BY <1>1
<1> QED
  BY <1>1, <1>2, <1>3, <1>4, <1>5

-----------------------------------------------------------------------------
(* The references of captures.                                             *)

LEMMA OneType == \A b \in BOOLEAN : One(b) \in {0, 1} /\ (One(b) = 1 <=> b)
  BY DEF One

LEMMA HoldersFinite ==
  ASSUME NEW cp, NEW t
  PROVE  IsFiniteSet(Holders(cp, t)) /\ Cardinality(Holders(cp, t)) \in Nat
<1>1. Holders(cp, t) \in SUBSET Capture
  BY DEF Holders
<1> QED
  BY <1>1, LiveBufferAssumption, FS_Subset, FS_CardinalityType

LEMMA LessOne ==
  ASSUME NEW A, IsFiniteSet(A), Cardinality(A) \in Nat, NEW x
  PROVE  Cardinality(A \ {x}) = Cardinality(A) - One(x \in A)
<1>1. CASE x \in A
  BY <1>1, FS_RemoveElement DEF One
<1>2. CASE x \notin A
  <2>1. A \ {x} = A
    BY <1>2
  <2>2. One(x \in A) = 0
    BY <1>2 DEF One
  <2>3. Cardinality(A) = Cardinality(A) - 0
    OBVIOUS
  <2> QED
    BY <2>1, <2>2, <2>3
<1> QED
  BY <1>1, <1>2

\* One capture changes.
LEMMA HoldersChange ==
  ASSUME NEW cp, NEW cq, NEW x \in Capture, NEW t,
         \A c \in Capture : c # x => cq[c] = cp[c],
         NEW v, v = One(Holds(cp[x], t)), NEW w, w = One(Holds(cq[x], t))
  PROVE  Cardinality(Holders(cq, t)) = Cardinality(Holders(cp, t)) - v + w
<1>1. PICK A, B : A = Holders(cp, t) /\ B = Holders(cq, t)
  OBVIOUS
<1>2. /\ IsFiniteSet(A) /\ Cardinality(A) \in Nat
      /\ IsFiniteSet(B) /\ Cardinality(B) \in Nat
  BY <1>1, HoldersFinite
<1>3. /\ A \ {x} = B \ {x}
      /\ x \in A <=> Holds(cp[x], t)
      /\ x \in B <=> Holds(cq[x], t)
  BY <1>1 DEF Holders
<1>4. PICK a, b : a = One(x \in A) /\ b = One(x \in B)
  OBVIOUS
<1>5. /\ Cardinality(A \ {x}) = Cardinality(A) - a
      /\ Cardinality(B \ {x}) = Cardinality(B) - b
  BY <1>2, <1>4, LessOne
<1>6. a \in {0, 1} /\ b \in {0, 1}
  BY <1>4 DEF One
<1>8. Cardinality(B) = Cardinality(A) - a + b
  <2>1. Cardinality(A) - a = Cardinality(B) - b
    BY <1>3, <1>5
  <2> QED
    BY <1>2, <1>6, <2>1
<1>7. One(x \in A) = One(Holds(cp[x], t)) /\ One(x \in B) = One(Holds(cq[x], t))
  BY <1>3 DEF One
<1> QED
  BY <1>1, <1>4, <1>7, <1>8

\* What putAll returns of one capture.
LEMMA RefsFromIs ==
  ASSUME NEW r \in CapSet, Distinct(r), NEW lo \in Nat, NEW t
  PROVE  RefsFrom(r, lo, t) = One(\E i \in lo + 1 .. Len(r.chunks) : r.chunks[i].of.t = t)
<1>1. PICK I : I = {i \in lo + 1 .. Len(r.chunks) : r.chunks[i].of.t = t}
  OBVIOUS
<1>2. RefsFrom(r, lo, t) = Cardinality(I)
  BY <1>1 DEF RefsFrom
<1>3. CASE I = {}
  BY <1>1, <1>2, <1>3, FS_EmptySet DEF One
<1>4. ASSUME NEW i \in I
      PROVE  I = {i}
  <2>1. r.chunks \in Seq(ChunkSet) /\ Len(r.chunks) \in Nat
    BY DEF CapSet
  <2>2. \A j \in I : j \in 1 .. Len(r.chunks) /\ r.chunks[j].of.t = t
    BY <1>1, <2>1
  <2> QED
    BY <1>4, <2>2 DEF Distinct
<1>5. ASSUME NEW i \in I
      PROVE  RefsFrom(r, lo, t) = One(\E j \in lo + 1 .. Len(r.chunks) : r.chunks[j].of.t = t)
  BY <1>1, <1>2, <1>4, <1>5, FS_Singleton DEF One
<1> QED
  BY <1>3, <1>5

\* A ticket without references is in no capture.
LEMMA NoReference ==
  ASSUME LbInv, NEW t \in Ticket, ref[t] = 0
  PROVE  /\ t \notin Queued /\ cur.t # t
         /\ \A c \in Capture : ~Holds(cap[c], t)
<1>1. /\ ref[t] = One(t \in Queued) + One(cur.t = t) + Cardinality(Holders(cap, t))
      /\ One(t \in Queued) \in {0, 1} /\ One(cur.t = t) \in {0, 1}
      /\ Cardinality(Holders(cap, t)) \in Nat
  BY HoldersFinite DEF LbInv, RefInv, One
<1>2. One(t \in Queued) = 0 /\ One(cur.t = t) = 0 /\ Cardinality(Holders(cap, t)) = 0
  BY <1>1
<1>3. Holders(cap, t) = {}
  BY <1>2, HoldersFinite, FS_EmptySet
<1> QED
  BY <1>2, <1>3 DEF One, Holders
-----------------------------------------------------------------------------
(* What a conjunct depends on.                                             *)

LEMMA ConfSame ==
  ASSUME LbInv, UNCHANGED <<conf, use, todo>>
  PROVE  ConfInv'
  BY DEF LbInv, ConfInv

LEMMA TypeSame ==
  ASSUME LbInv, UNCHANGED <<trg, chk, pc, tx, cur, ofs, n, filling, sending,
                            cap, free, full, count_cap_buffs, queue, delivered,
                            ref, fsize>>
  PROVE  TypeInv'
  BY DEF LbInv, TypeInv

LEMMA ThreadSame ==
  ASSUME LbInv, UNCHANGED <<pc, cur, ofs, capturing, use, filling, n, serv_trg,
                            trg, chk, resetting, queue, tx, sending>>
  PROVE  ThreadInv'
  BY DEF LbInv, ThreadInv

LEMMA PlaceSame ==
  ASSUME LbInv, UNCHANGED <<pc, cap, filling, sending, full, free>>
  PROVE  PlaceInv'
  BY DEF LbInv, PlaceInv, Placed

LEMMA CountSame ==
  ASSUME LbInv, UNCHANGED <<pc, count_cap_buffs, cap>>
  PROVE  CountInv'
  BY DEF LbInv, CountInv, Live

LEMMA CaptureSame ==
  ASSUME LbInv, UNCHANGED <<cap, tx>>
  PROVE  CaptureInv'
  BY DEF LbInv, CaptureInv

LEMMA FreshSame ==
  ASSUME LbInv, UNCHANGED <<queue, cur, ofs, cap>>
  PROVE  FreshInv'
  BY DEF LbInv, FreshInv, left

LEMMA OrderSame ==
  ASSUME LbInv, UNCHANGED <<queue, delivered, cur>>
  PROVE  OrderInv'
  BY DEF LbInv, OrderInv

LEMMA FillSame ==
  ASSUME LbInv, UNCHANGED <<filling, cap, n, use, stopping, cur, ofs, pc,
                            resetting, delivered, queue>>
  PROVE  FillInv'
  BY DEF LbInv, FillInv, NextFrame, left

LEMMA RefSame ==
  ASSUME LbInv, UNCHANGED <<ref, queue, cur, cap>>
  PROVE  RefInv'
  BY DEF LbInv, RefInv, Queued

-----------------------------------------------------------------------------
(* Commands.                                                               *)

\* A BUF is taken up, applied group by group, or triggers a capture.
LEMMA OnBufKeeps ==
  ASSUME LbInv, NEW m \in Bufs, onBuf(m)
  PROVE  LbInv'
<1>0. UNCHANGED <<conf, changed, use, trg, chk, serv_trg, pc, stopping, cur, ofs, n,
                 capturing, filling, count_cap_buffs, cap, free, full, tx,
                 sending, running, queue, ref, resetting, fsize, delivered>>
  BY DEF onBuf, config, trigger, pool, thread, sender, stream
<1>same. TypeInv' /\ ThreadInv' /\ PlaceInv' /\ CountInv' /\ CaptureInv'
         /\ FreshInv' /\ OrderInv' /\ FillInv' /\ RefInv'
  BY <1>0, TypeSame, ThreadSame, PlaceSame, CountSame, CaptureSame, FreshSame,
     OrderSame, FillSame, RefSame
<1>ConfInv. ConfInv'
  <2>1. todo' = m /\ m \in Seq(Group)
    BY LiveBufferAssumption DEF onBuf
  <2> QED
    BY <1>0, <2>1 DEF LbInv, ConfInv
<1> QED
  BY <1>same, <1>ConfInv DEF LbInv

LEMMA ConfigureKeeps ==
  ASSUME LbInv, configure
  PROVE  LbInv'
<1>0. UNCHANGED <<use, trg, chk, serv_trg, pc, stopping, cur, ofs, n, capturing,
                 filling, count_cap_buffs, cap, free, full, tx, sending,
                 running, queue, ref, resetting, fsize, delivered, commands>>
  BY DEF configure, config, trigger, pool, thread, sender, stream
<1>same. TypeInv' /\ ThreadInv' /\ PlaceInv' /\ CountInv' /\ CaptureInv'
         /\ FreshInv' /\ OrderInv' /\ FillInv' /\ RefInv'
  BY <1>0, TypeSame, ThreadSame, PlaceSame, CountSame, CaptureSame, FreshSame,
     OrderSame, FillSame, RefSame
<1>ConfInv. ConfInv'
  <2>1. conf \in ConfSet /\ use \in ConfSet /\ todo \in Seq(Group)
    BY DEF LbInv, ConfInv
  <2>2. PICK g : g = Head(todo)
    OBVIOUS
  <2>3. g \in Group /\ Tail(todo) \in Seq(Group) /\ <<>> \in Seq(Group)
    BY <2>1, <2>2, HeadTailProperties DEF configure
  <2>4. use' = use
    BY <1>0
  <2>5. \/ todo' = <<>> /\ conf' = conf
        \/ todo' = Tail(todo) /\ Valid(g) /\ conf' = [conf EXCEPT ![g.group] = Settings(g)]
    BY <2>2 DEF configure
  <2>6. ASSUME Valid(g)
        PROVE  [conf EXCEPT ![g.group] = Settings(g)] \in ConfSet
    <3>1. CASE g.group = "receiver"
      <4>1. Settings(g) \in [ok : BOOLEAN]
        BY <2>3, <3>1 DEF Group, Settings
      <4> QED
        BY <2>1, <3>1, <4>1 DEF ConfSet
    <3>2. CASE g.group = "capture"
      <4>1. g.val \in Rule /\ g.val.N0 <= g.val.N
        BY <2>3, <2>6, <3>2 DEF Group, Valid
      <4>2. Disabled \in Rule /\ Disabled.N0 <= Disabled.N
        BY DEF Disabled, Rule
      <4>3. Settings(g) \in {r \in Rule : r.N0 <= r.N}
        BY <3>2, <4>1, <4>2 DEF Settings
      <4> QED
        BY <2>1, <3>2, <4>3 DEF ConfSet
    <3>3. CASE g.group = "buffer"
      <4>1. Settings(g) \in [max : 0 .. Cardinality(Capture), chunks : Nat]
        BY <2>3, <3>3 DEF Group, Settings
      <4> QED
        BY <2>1, <3>3, <4>1 DEF ConfSet
    <3> QED
      BY <2>3, <3>1, <3>2, <3>3 DEF Group
  <2> QED
    BY <2>1, <2>3, <2>4, <2>5, <2>6 DEF ConfInv
<1> QED
  BY <1>same, <1>ConfInv DEF LbInv

LEMMA Trigger_captureKeeps ==
  ASSUME LbInv, trigger_capture
  PROVE  LbInv'
<1>0. UNCHANGED <<conf, changed, use, todo, chk, serv_trg, pc, stopping, cur, ofs, n,
                 capturing, filling, count_cap_buffs, cap, free, full, tx,
                 sending, running, queue, ref, resetting, fsize, delivered>>
  BY DEF trigger_capture, config, trigger, pool, thread, sender, stream
<1>same. ConfInv' /\ PlaceInv' /\ CountInv' /\ CaptureInv' /\ FreshInv'
         /\ OrderInv' /\ FillInv' /\ RefInv'
  BY <1>0, ConfSame, PlaceSame, CountSame, CaptureSame, FreshSame, OrderSame,
     FillSame, RefSame
<1>TypeInv. TypeInv'
  BY <1>0 DEF LbInv, TypeInv, trigger_capture
<1>ThreadInv. ThreadInv'
  BY <1>0 DEF LbInv, TypeInv, ThreadInv, trigger_capture
<1> QED
  BY <1>same, <1>TypeInv, <1>ThreadInv DEF LbInv

\* The thread is told to stop.
LEMMA InterruptKeeps ==
  ASSUME LbInv, interrupt
  PROVE  LbInv'
<1>0. UNCHANGED <<conf, changed, use, todo, trg, chk, serv_trg, pc, cur, ofs, n,
                 capturing, filling, count_cap_buffs, cap, free, full, tx,
                 sending, running, queue, ref, resetting, fsize, delivered,
                 commands>>
  BY DEF interrupt, config, trigger, pool, thread, sender, stream
<1>same. ConfInv' /\ TypeInv' /\ ThreadInv' /\ PlaceInv' /\ CountInv'
         /\ CaptureInv' /\ FreshInv' /\ OrderInv' /\ RefInv'
  BY <1>0, ConfSame, TypeSame, ThreadSame, PlaceSame, CountSame, CaptureSame,
     FreshSame, OrderSame, RefSame
<1>FillInv. FillInv'
  BY <1>0 DEF LbInv, FillInv, interrupt
<1> QED
  BY <1>same, <1>FillInv DEF LbInv

\* The transmitter comes to its loop with nothing to send yet.
LEMMA TxStartKeeps ==
  ASSUME LbInv, txStart
  PROVE  LbInv'
<1>0. UNCHANGED <<conf, changed, use, todo, trg, chk, serv_trg, pc, stopping, cur,
                 ofs, n, capturing, filling, count_cap_buffs, cap, free, full,
                 sending, running, queue, ref, resetting, fsize, delivered,
                 commands>>
  BY DEF txStart, config, trigger, pool, thread, sender, stream
<1>same. ConfInv' /\ PlaceInv' /\ CountInv' /\ FreshInv' /\ OrderInv'
         /\ FillInv' /\ RefInv'
  BY <1>0, ConfSame, PlaceSame, CountSame, FreshSame, OrderSame, FillSame,
     RefSame
<1>TypeInv. TypeInv'
  BY <1>0 DEF LbInv, TypeInv, txStart
<1>ThreadInv. ThreadInv'
  BY <1>0 DEF LbInv, ThreadInv, txStart
<1>CaptureInv. CaptureInv'
  <2>1. tx = "new" /\ tx' = "idle" /\ sending = None /\ Alive
    BY DEF txStart, LbInv, ThreadInv
  <2>2. \A c \in Capture : cap[c].state # "sending"
    BY <2>1, LiveBufferAssumption DEF LbInv, PlaceInv, Placed, Alive
  <2> QED
    BY <1>0, <2>2 DEF LbInv, CaptureInv, CapOK
<1> QED
  BY <1>same, <1>TypeInv, <1>ThreadInv, <1>CaptureInv DEF LbInv

\* The transmitter ends when nothing is being sent.
LEMMA TxDoneKeeps ==
  ASSUME LbInv, txDone
  PROVE  LbInv'
<1>0. UNCHANGED <<conf, changed, use, todo, trg, chk, serv_trg, pc, stopping, cur,
                 ofs, n, capturing, filling, count_cap_buffs, cap, free, full,
                 sending, running, queue, ref, resetting, fsize, delivered,
                 commands>>
  BY DEF txDone, config, trigger, pool, thread, sender, stream
<1>same. ConfInv' /\ PlaceInv' /\ CountInv' /\ FreshInv' /\ OrderInv'
         /\ FillInv' /\ RefInv'
  BY <1>0, ConfSame, PlaceSame, CountSame, FreshSame, OrderSame, FillSame,
     RefSame
<1>TypeInv. TypeInv'
  BY <1>0 DEF LbInv, TypeInv, txDone
<1>ThreadInv. ThreadInv'
  BY <1>0 DEF LbInv, ThreadInv, txDone
<1>CaptureInv. CaptureInv'
  <2>1. tx = "idle" /\ tx' = "done" /\ sending = None /\ Alive
    BY DEF txDone, LbInv, ThreadInv
  <2>2. \A c \in Capture : cap[c].state # "sending"
    BY <2>1, LiveBufferAssumption DEF LbInv, PlaceInv, Placed, Alive
  <2> QED
    BY <1>0, <2>2 DEF LbInv, CaptureInv, CapOK
<1> QED
  BY <1>same, <1>TypeInv, <1>ThreadInv, <1>CaptureInv DEF LbInv

LEMMA NoneFreeKeeps ==
  ASSUME LbInv, noneFree
  PROVE  LbInv'
<1>0. UNCHANGED <<conf, changed, use, todo, trg, chk, serv_trg, stopping, cur, ofs, n,
                 capturing, filling, count_cap_buffs, cap, free, full, tx,
                 sending, running, queue, ref, resetting, fsize, delivered,
                 commands>>
  BY DEF noneFree, config, trigger, pool, thread, sender, stream
<1>same. ConfInv' /\ CaptureInv' /\ FreshInv' /\ OrderInv' /\ RefInv'
  BY <1>0, ConfSame, CaptureSame, FreshSame, OrderSame, RefSame
<1>TypeInv. TypeInv'
  BY <1>0 DEF LbInv, TypeInv, noneFree
<1>ThreadInv. ThreadInv'
  BY <1>0 DEF LbInv, ThreadInv, Acquiring, noneFree
<1>PlaceInv. PlaceInv'
  BY <1>0 DEF LbInv, PlaceInv, Placed, noneFree
<1>CountInv. CountInv'
  BY <1>0 DEF LbInv, CountInv, Live, noneFree
<1>FillInv. FillInv'
  BY <1>0 DEF LbInv, FillInv, ThreadInv, Acquiring, noneFree
<1> QED
  BY <1>same, <1>TypeInv, <1>ThreadInv, <1>PlaceInv, <1>CountInv, <1>FillInv DEF LbInv

-----------------------------------------------------------------------------
(* The stream of tickets.                                                  *)

\* A ticket that nobody refers to is delivered.
LEMMA DeliverKeeps ==
  ASSUME LbInv, NEW t \in Ticket, NEW k \in Counts, deliver(t, k)
  PROVE  LbInv'
<1>0. UNCHANGED <<conf, changed, use, todo, trg, chk, serv_trg, pc, stopping, cur,
                 ofs, n, capturing, filling, count_cap_buffs, cap, free, full,
                 tx, sending, running, resetting, fsize, commands>>
  BY DEF deliver, config, trigger, pool, thread, sender, stream
<1>1. /\ pc = "wait" /\ ~resetting /\ cur = NoTicket /\ ref[t] = 0
      /\ delivered' = delivered + 1 /\ ref' = [ref EXCEPT ![t] = 1]
      /\ t \notin Queued /\ cur.t # t /\ \A c \in Capture : ~Holds(cap[c], t)
  BY NoReference DEF deliver, LbInv, ThreadInv
<1>2. /\ ref \in [Ticket -> Int] /\ ref' \in [Ticket -> Int]
      /\ queue' \in Seq(TicketSet) /\ Len(queue) \in Nat /\ Len(queue') = Len(queue) + 1
      /\ \A i \in 1 .. Len(queue) : queue'[i] = queue[i]
      /\ queue'[Len(queue) + 1].t = t /\ queue'[Len(queue) + 1].seq = delivered + 1
      /\ delivered \in Nat /\ delivered' \in 0 .. MaxTickets
  <2>1. PICK e : e = [t |-> t, cnt |-> k, fs |-> fsize, seq |-> delivered + 1]
    OBVIOUS
  <2>2. /\ delivered \in 0 .. MaxTickets /\ delivered < MaxTickets /\ MaxTickets \in Nat
        /\ k \in Nat \ {0} /\ fsize \in FrameSize /\ queue \in Seq(TicketSet)
        /\ ref \in [Ticket -> Int]
    BY LiveBufferAssumption DEF deliver, LbInv, TypeInv
  <2>3. e \in TicketSet /\ e.t = t /\ e.seq = delivered + 1
    BY <2>1, <2>2 DEF TicketSet
  <2>4. queue' = Append(queue, e)
    BY <2>1 DEF deliver
  <2> QED
    BY <1>1, <2>2, <2>3, <2>4, AppendProperties
<1>same. ConfInv' /\ PlaceInv' /\ CountInv' /\ CaptureInv'
  BY <1>0, ConfSame, PlaceSame, CountSame, CaptureSame
<1>TypeInv. TypeInv'
  BY <1>0, <1>2 DEF LbInv, TypeInv
<1>ThreadInv. ThreadInv'
  BY <1>0, <1>1 DEF LbInv, ThreadInv
<1>FreshInv. FreshInv'
  <2>1. /\ \A i, j \in 1 .. Len(queue) : queue[i].t = queue[j].t => i = j
        /\ \A i \in 1 .. Len(queue) : queue[i].t # t /\ queue[i].t # cur.t
        /\ \A i \in 1 .. Len(queue) : \A c \in Capture : ~Holds(cap[c], queue[i].t)
        /\ \A c \in Capture : cap[c].state = "filling" /\ left > 0 => ~Holds(cap[c], cur.t)
    BY <1>1 DEF LbInv, FreshInv, Queued
  <2>2. \A i \in 1 .. Len(queue) + 1 : i \in 1 .. Len(queue) \/ i = Len(queue) + 1
    BY <1>2
  <2>3. left' = left
    BY <1>0 DEF left
  <2>4. \A i \in 1 .. Len(queue') : \/ i \in 1 .. Len(queue) /\ queue'[i] = queue[i]
                                    \/ i = Len(queue) + 1 /\ queue'[i].t = t
    BY <1>2, <2>2
  <2>5. \A i, j \in 1 .. Len(queue') : queue'[i].t = queue'[j].t => i = j
    BY <2>1, <2>4
  <2>6. \A i \in 1 .. Len(queue') : queue'[i].t # cur.t
    BY <1>1, <2>1, <2>4
  <2>7. \A i \in 1 .. Len(queue') : \A c \in Capture : ~Holds(cap[c], queue'[i].t)
    BY <1>1, <2>1, <2>4
  <2>8. cap' = cap /\ cur' = cur
    BY <1>0
  <2> QED
    BY <2>1, <2>3, <2>5, <2>6, <2>7, <2>8 DEF FreshInv
<1>OrderInv. OrderInv'
  <2>1. /\ \A i \in 1 .. Len(queue) : queue[i].seq = delivered - Len(queue) + i
        /\ cur # NoTicket => cur.seq = delivered - Len(queue)
    BY DEF LbInv, OrderInv
  <2>2. delivered' - Len(queue') = delivered - Len(queue)
    BY <1>1, <1>2
  <2>3. \A i \in 1 .. Len(queue) + 1 : i \in 1 .. Len(queue) \/ i = Len(queue) + 1
    BY <1>2
  <2>4. queue'[Len(queue) + 1].seq = delivered' - Len(queue') + (Len(queue) + 1)
    BY <1>1, <1>2
  <2> QED
    BY <1>0, <1>1, <1>2, <2>1, <2>2, <2>3, <2>4 DEF OrderInv
<1>FillInv. FillInv'
  <2>1. delivered' - Len(queue') = delivered - Len(queue)
    BY <1>1, <1>2
  <2> QED
    BY <1>0, <1>1, <2>1 DEF LbInv, FillInv, NextFrame, left
<1>RefInv. RefInv'
  <2>1. Queued' = Queued \cup {t}
    <3>1. \A i \in 1 .. Len(queue) + 1 : i \in 1 .. Len(queue) \/ i = Len(queue) + 1
      BY <1>2
    <3> QED
      BY <1>1, <1>2, <3>1 DEF Queued
  <2>2. SUFFICES ASSUME NEW u \in Ticket
                 PROVE  ref'[u] = One(u \in Queued') + One(cur'.t = u)
                                  + Cardinality(Holders(cap', u))
    BY DEF RefInv
  <2>3. ref[u] = One(u \in Queued) + One(cur.t = u) + Cardinality(Holders(cap, u))
    BY DEF LbInv, RefInv
  <2>4. CASE u = t
    <3>1. /\ One(u \in Queued) = 0 /\ One(cur.t = u) = 0 /\ One(cur'.t = u) = 0
          /\ One(u \in Queued') = 1
      BY <1>0, <1>1, <2>1, <2>4 DEF One
    <3>2. Cardinality(Holders(cap, u)) = 0
      <4>1. Holders(cap, u) = {}
        BY <1>1, <2>4 DEF Holders
      <4> QED
        BY <4>1, FS_EmptySet
    <3>3. ref'[u] = 1
      BY <1>1, <1>2, <2>4
    <3>4. cap' = cap
      BY <1>0
    <3> QED
      BY <3>1, <3>2, <3>3, <3>4
  <2>5. CASE u # t
    <3>1. u \in Queued' <=> u \in Queued
      BY <2>1, <2>5
    <3>2. ref'[u] = ref[u]
      BY <1>1, <1>2, <2>5
    <3> QED
      BY <1>0, <2>3, <3>1, <3>2 DEF One
  <2> QED
    BY <2>4, <2>5
<1> QED
  BY <1>same, <1>TypeInv, <1>ThreadInv, <1>FreshInv, <1>OrderInv, <1>FillInv,
     <1>RefInv DEF LbInv

LEMMA DropQueuedExact ==
  ASSUME LbInv, ref' = dropQueued, queue' = <<>>, cur' = cur, cap' = cap
  PROVE  RefInv'
<1>1. Queued' = {}
  BY DEF Queued
<1>2. SUFFICES ASSUME NEW u \in Ticket
               PROVE  ref'[u] = One(u \in Queued') + One(cur'.t = u)
                                + Cardinality(Holders(cap', u))
  BY DEF RefInv
<1>3. /\ ref[u] = One(u \in Queued) + One(cur.t = u) + Cardinality(Holders(cap, u))
      /\ Cardinality(Holders(cap, u)) \in Nat /\ One(cur.t = u) \in {0, 1}
      /\ ref[u] \in Int
  BY HoldersFinite DEF LbInv, RefInv, TypeInv, One
<1>4. ref'[u] = IF u \in Queued THEN ref[u] - 1 ELSE ref[u]
  BY DEF dropQueued
<1>5. CASE u \in Queued
  <2>1. One(u \in Queued) = 1 /\ One(u \in Queued') = 0
    BY <1>1, <1>5 DEF One
  <2> QED
    BY <1>3, <1>4, <1>5, <2>1
<1>6. CASE u \notin Queued
  <2>1. One(u \in Queued) = 0 /\ One(u \in Queued') = 0
    BY <1>1, <1>6 DEF One
  <2> QED
    BY <1>3, <1>4, <1>6, <2>1
<1> QED
  BY <1>5, <1>6

\* A reset takes back what is queued.
LEMMA OnResetKeeps ==
  ASSUME LbInv, onReset
  PROVE  LbInv'
<1>0. UNCHANGED <<conf, changed, use, todo, trg, chk, serv_trg, pc, stopping, cur,
                 ofs, n, capturing, filling, count_cap_buffs, cap, free, full,
                 tx, sending, running, fsize, delivered, commands>>
  BY DEF onReset, config, trigger, pool, thread, sender, stream
<1>1. /\ pc = "wait" /\ cur = NoTicket /\ resetting' = TRUE
      /\ ref' = dropQueued /\ queue' = <<>>
  BY DEF onReset, LbInv, ThreadInv
<1>2. ref' \in [Ticket -> Int] /\ queue' \in Seq(TicketSet)
  <2>1. ref \in [Ticket -> Int]
    BY DEF LbInv, TypeInv
  <2>2. <<>> \in Seq(TicketSet)
    OBVIOUS
  <2> QED
    BY <1>1, <2>1, <2>2 DEF dropQueued
<1>same. ConfInv' /\ PlaceInv' /\ CountInv' /\ CaptureInv'
  BY <1>0, ConfSame, PlaceSame, CountSame, CaptureSame
<1>TypeInv. TypeInv'
  BY <1>0, <1>1, <1>2 DEF LbInv, TypeInv
<1>ThreadInv. ThreadInv'
  BY <1>0, <1>1 DEF LbInv, ThreadInv
<1>FreshInv. FreshInv'
  BY <1>0, <1>1 DEF LbInv, FreshInv, left
<1>OrderInv. OrderInv'
  BY <1>0, <1>1 DEF LbInv, OrderInv
<1>FillInv. FillInv'
  BY <1>0, <1>1 DEF LbInv, FillInv, NextFrame, left
<1>RefInv. RefInv'
  BY <1>0, <1>1, DropQueuedExact
<1> QED
  BY <1>same, <1>TypeInv, <1>ThreadInv, <1>FreshInv, <1>OrderInv, <1>FillInv,
     <1>RefInv DEF LbInv

\* A reset ends: then no capture that is being filled has any frames.
LEMMA ResetDoneKeeps ==
  ASSUME LbInv, NEW f \in FrameSize, resetDone(f)
  PROVE  LbInv'
<1>0. UNCHANGED <<conf, changed, use, todo, trg, chk, serv_trg, pc, stopping, cur,
                 ofs, n, capturing, filling, count_cap_buffs, cap, free, full,
                 tx, sending, running, queue, ref, delivered, commands>>
  BY DEF resetDone, config, trigger, pool, thread, sender, stream
<1>same. ConfInv' /\ PlaceInv' /\ CountInv' /\ CaptureInv' /\ FreshInv'
         /\ OrderInv' /\ RefInv'
  BY <1>0, ConfSame, PlaceSame, CountSame, CaptureSame, FreshSame, OrderSame,
     RefSame
<1>TypeInv. TypeInv'
  BY <1>0 DEF LbInv, TypeInv, resetDone
<1>ThreadInv. ThreadInv'
  BY <1>0 DEF LbInv, ThreadInv, resetDone
<1>FillInv. FillInv'
  <2>1. ASSUME filling # None, cap[filling].chunks # <<>>
        PROVE  FALSE
    <3>1. filling \in Capture /\ cap[filling] \in CapSet /\ cap[filling].state = "filling"
      BY <2>1 DEF LbInv, TypeInv, PlaceInv, Placed, resetDone, Alive
    <3>2. cap[filling].commit = 0
      BY <3>1 DEF LbInv, CaptureInv, CapOK, FillingOK
    <3>7. PICK ch : ch = cap[filling].chunks
      OBVIOUS
    <3>8. ch \in Seq(ChunkSet) /\ ch # <<>>
      BY <2>1, <3>1, <3>7 DEF CapSet
    <3>9. 1 \in 1 .. Len(ch) /\ ch[1] \in ChunkSet
      BY <3>8
    <3>3. 1 \in 1 .. Len(cap[filling].chunks)
      BY <3>7, <3>9
    <3>4. cap[filling].chunks[1].of.t \in Ticket
      BY <3>7, <3>9 DEF ChunkSet, TicketSet
    <3>5. Holds(cap[filling], cap[filling].chunks[1].of.t)
      BY <3>1, <3>2, <3>3 DEF Holds, Held
    <3>6. ref[cap[filling].chunks[1].of.t] = 0
      BY <3>4 DEF resetDone
    <3> QED
      BY <3>1, <3>4, <3>5, <3>6, NoReference
  <2> QED
    BY <1>0, <2>1 DEF LbInv, FillInv
<1> QED
  BY <1>same, <1>TypeInv, <1>ThreadInv, <1>FillInv DEF LbInv

-----------------------------------------------------------------------------
(* The loop over a ticket.                                                 *)

\* The next ticket is taken from the queue.
LEMMA GetNextKeeps ==
  ASSUME LbInv, getNext
  PROVE  LbInv'
<1>0. UNCHANGED <<conf, changed, use, todo, trg, chk, serv_trg, stopping, n,
                 capturing, filling, count_cap_buffs, cap, free, full, tx,
                 sending, running, ref, resetting, fsize, delivered, commands>>
  BY DEF getNext, config, trigger, pool, thread, sender, stream
<1>1. /\ pc = "wait" /\ pc' = "loop" /\ cur = NoTicket /\ ~stopping /\ queue # <<>>
      /\ ~resetting /\ ofs' = 0 /\ cur' = Head(queue) /\ queue' = Tail(queue)
  BY DEF getNext, LbInv, ThreadInv
<1>2. /\ Len(queue) \in Nat \ {0} /\ Len(queue') = Len(queue) - 1
      /\ queue' \in Seq(TicketSet) /\ cur' = queue[1] /\ cur' \in TicketSet
      /\ \A i \in 1 .. Len(queue') : queue'[i] = queue[i + 1]
  <2>1. queue \in Seq(TicketSet)
    BY DEF LbInv, TypeInv
  <2> QED
    BY <1>1, <2>1, HeadTailProperties
<1>3. cur'.cnt \in Nat \ {0}
  BY <1>2 DEF TicketSet
<1>same. ConfInv' /\ CaptureInv'
  BY <1>0, ConfSame, CaptureSame
<1>TypeInv. TypeInv'
  BY <1>0, <1>1, <1>2 DEF LbInv, TypeInv
<1>ThreadInv. ThreadInv'
  BY <1>0, <1>1, <1>2, <1>3 DEF LbInv, ThreadInv, Acquiring
<1>PlaceInv. PlaceInv'
  BY <1>0, <1>1 DEF LbInv, PlaceInv, Placed
<1>CountInv. CountInv'
  BY <1>0, <1>1 DEF LbInv, CountInv, Live
<1>FreshInv. FreshInv'
  <2>1. /\ \A i, j \in 1 .. Len(queue) : queue[i].t = queue[j].t => i = j
        /\ \A i \in 1 .. Len(queue) : \A c \in Capture : ~Holds(cap[c], queue[i].t)
    BY DEF LbInv, FreshInv
  <2>2. \A i, j \in 1 .. Len(queue') : queue'[i].t = queue'[j].t => i = j
    <3>1. SUFFICES ASSUME NEW i \in 1 .. Len(queue'), NEW j \in 1 .. Len(queue'),
                          queue'[i].t = queue'[j].t
                   PROVE  i = j
      OBVIOUS
    <3>2. i + 1 \in 1 .. Len(queue) /\ j + 1 \in 1 .. Len(queue)
      BY <1>2
    <3>3. queue[i + 1].t = queue[j + 1].t
      BY <1>2, <3>1
    <3>4. i + 1 = j + 1
      BY <2>1, <3>2, <3>3
    <3> QED
      BY <1>2, <3>4
  <2>3. ASSUME NEW i \in 1 .. Len(queue')
        PROVE  queue'[i].t # cur'.t /\ \A c \in Capture : ~Holds(cap'[c], queue'[i].t)
    <3>1. i + 1 \in 1 .. Len(queue) /\ 1 \in 1 .. Len(queue) /\ i + 1 # 1
      BY <1>2
    <3> QED
      BY <1>0, <1>2, <2>1, <3>1
  <2>4. \A c \in Capture : ~Holds(cap'[c], cur'.t)
    <3>1. 1 \in 1 .. Len(queue)
      BY <1>2
    <3> QED
      BY <1>0, <1>2, <2>1, <3>1
  <2> QED
    BY <2>2, <2>3, <2>4 DEF FreshInv
<1>OrderInv. OrderInv'
  <2>1. /\ \A i \in 1 .. Len(queue) : queue[i].seq = delivered - Len(queue) + i
        /\ delivered \in Nat
    BY LiveBufferAssumption DEF LbInv, OrderInv, TypeInv
  <2>2. ASSUME NEW i \in 1 .. Len(queue')
        PROVE  queue'[i].seq = delivered' - Len(queue') + i
    <3>1. i + 1 \in 1 .. Len(queue)
      BY <1>2
    <3>2. queue'[i].seq = delivered - Len(queue) + (i + 1)
      BY <1>2, <2>1, <3>1
    <3> QED
      BY <1>0, <1>2, <2>1, <3>2
  <2>3. cur'.seq = delivered' - Len(queue')
    <3>1. 1 \in 1 .. Len(queue)
      BY <1>2
    <3>2. cur'.seq = delivered - Len(queue) + 1
      BY <1>2, <2>1, <3>1
    <3> QED
      BY <1>0, <1>2, <2>1, <3>2
  <2> QED
    BY <2>2, <2>3 DEF OrderInv
<1>FillInv. FillInv'
  <2>1. SUFFICES ASSUME filling # None
                 PROVE  /\ cap[filling].n = n /\ cap[filling].N0 = use["capture"].N0
                        /\ cap[filling].chunks # <<>> => NextFrame(cap[filling])'
    BY <1>0 DEF FillInv
  <2>2. /\ cap[filling].n = n /\ cap[filling].N0 = use["capture"].N0
        /\ cap[filling].chunks # <<>> => NextFrame(cap[filling])
    BY <1>1, <2>1 DEF LbInv, FillInv
  <2>3. ASSUME cap[filling].chunks # <<>>
        PROVE  NextFrame(cap[filling])'
    <3>1. PICK last : last = cap[filling].chunks[Len(cap[filling].chunks)]
      OBVIOUS
    <3>2. last.index + last.count = last.of.cnt /\ last.of.seq = delivered - Len(queue)
      BY <1>1, <2>2, <2>3, <3>1 DEF NextFrame
    <3>3. cur'.seq = delivered - Len(queue) + 1
      <4>1. 1 \in 1 .. Len(queue)
        BY <1>2
      <4>2. queue[1].seq = delivered - Len(queue) + 1
        BY <4>1 DEF LbInv, OrderInv
      <4> QED
        BY <1>2, <4>2
    <3>4. left' > 0 /\ left' # 0
      BY <1>1, <1>3 DEF left
    <3>5. cap' = cap /\ filling' = filling
      BY <1>0
    <3> QED
      BY <1>1, <3>1, <3>2, <3>3, <3>4, <3>5 DEF NextFrame
  <2> QED
    BY <2>2, <2>3
<1>RefInv. RefInv'
  <2>1. /\ \A i \in 1 .. Len(queue') : queue'[i].t # cur'.t
        /\ cur'.t \in Ticket
    BY <1>2, <1>FreshInv DEF FreshInv, TicketSet
  <2>2. Queued = Queued' \cup {cur'.t} /\ cur'.t \notin Queued'
    <3>1. Queued \subseteq Queued' \cup {cur'.t}
      <4>1. SUFFICES ASSUME NEW i \in 1 .. Len(queue)
                     PROVE  queue[i].t \in Queued' \cup {cur'.t}
        BY DEF Queued
      <4>2. CASE i = 1
        BY <1>2, <4>2
      <4>3. CASE i # 1
        <5>1. i - 1 \in 1 .. Len(queue') /\ queue'[i - 1] = queue[i]
          BY <1>2, <4>3
        <5> QED
          BY <5>1 DEF Queued
      <4> QED
        BY <4>2, <4>3
    <3>2. Queued' \subseteq Queued /\ cur'.t \in Queued
      <4>1. 1 \in 1 .. Len(queue) /\ \A i \in 1 .. Len(queue') : i + 1 \in 1 .. Len(queue)
        BY <1>2
      <4> QED
        BY <1>2, <4>1 DEF Queued
    <3> QED
      BY <2>1, <3>1, <3>2 DEF Queued
  <2>3. SUFFICES ASSUME NEW u \in Ticket
                 PROVE  ref[u] = One(u \in Queued') + One(cur'.t = u)
                                 + Cardinality(Holders(cap, u))
    BY <1>0 DEF RefInv
  <2>4. ref[u] = One(u \in Queued) + One(cur.t = u) + Cardinality(Holders(cap, u))
    BY DEF LbInv, RefInv
  <2>5. cur.t # u
    BY <1>1, LiveBufferAssumption DEF NoTicket
  <2> QED
    BY <2>2, <2>4, <2>5 DEF One
<1> QED
  BY <1>same, <1>TypeInv, <1>ThreadInv, <1>PlaceInv, <1>CountInv, <1>FreshInv,
     <1>OrderInv, <1>FillInv, <1>RefInv DEF LbInv

\* The ticket is returned when its frames are consumed, or on a stop.
LEMMA PutKeeps ==
  ASSUME LbInv, put
  PROVE  LbInv'
<1>0. UNCHANGED <<conf, changed, use, todo, trg, chk, serv_trg, stopping, n,
                 capturing, filling, count_cap_buffs, cap, free, full, tx,
                 sending, running, queue, resetting, fsize, delivered, commands>>
  BY DEF put, config, trigger, pool, thread, sender, stream
<1>1. /\ pc = "loop" /\ pc' = "wait" /\ cur \in TicketSet /\ cur.t \in Ticket
      /\ cur' = NoTicket /\ ofs' = 0 /\ ref' = [ref EXCEPT ![cur.t] = @ - 1]
      /\ ref' \in [Ticket -> Int] /\ (left = 0 \/ stopping)
  BY DEF put, LbInv, ThreadInv, TypeInv, TicketSet
<1>2. \A i \in 1 .. Len(queue) : queue[i] \in TicketSet
  BY DEF LbInv, TypeInv
<1>same. ConfInv' /\ CaptureInv'
  BY <1>0, ConfSame, CaptureSame
<1>TypeInv. TypeInv'
  BY <1>0, <1>1 DEF LbInv, TypeInv
<1>ThreadInv. ThreadInv'
  BY <1>0, <1>1 DEF LbInv, ThreadInv, Acquiring, NoTicket
<1>PlaceInv. PlaceInv'
  BY <1>0, <1>1 DEF LbInv, PlaceInv, Placed
<1>CountInv. CountInv'
  BY <1>0, <1>1 DEF LbInv, CountInv, Live
<1>FreshInv. FreshInv'
  <2>1. \A i \in 1 .. Len(queue) : queue[i].t # 0
    BY <1>2, LiveBufferAssumption DEF TicketSet
  <2>2. left' = 0 /\ cur'.t = 0
    BY <1>1 DEF left, NoTicket
  <2> QED
    BY <1>0, <2>1, <2>2 DEF LbInv, FreshInv
<1>OrderInv. OrderInv'
  BY <1>0, <1>1 DEF LbInv, OrderInv
<1>FillInv. FillInv'
  <2>1. SUFFICES ASSUME filling # None
                 PROVE  /\ cap[filling].n = n /\ cap[filling].N0 = use["capture"].N0
                        /\ ~stopping /\ cap[filling].chunks # <<>> => NextFrame(cap[filling])'
    BY <1>0 DEF FillInv
  <2>2. /\ cap[filling].n = n /\ cap[filling].N0 = use["capture"].N0
        /\ ~stopping /\ cap[filling].chunks # <<>> => NextFrame(cap[filling])
    BY <2>1 DEF LbInv, FillInv
  <2>3. ASSUME ~stopping, cap[filling].chunks # <<>>
        PROVE  NextFrame(cap[filling])'
    <3>1. PICK last : last = cap[filling].chunks[Len(cap[filling].chunks)]
      OBVIOUS
    <3>2. cur # NoTicket
      BY <1>1, LiveBufferAssumption DEF TicketSet, NoTicket
    <3>3. last.index + last.count = last.of.cnt /\ last.of.seq = cur.seq
      BY <1>1, <2>2, <2>3, <3>1, <3>2 DEF NextFrame
    <3>4. cur.seq = delivered - Len(queue)
      BY <3>2 DEF LbInv, OrderInv
    <3>5. left' = 0 /\ cur' = NoTicket
      BY <1>1 DEF left, NoTicket
    <3>6. cap' = cap /\ filling' = filling /\ delivered' = delivered /\ queue' = queue
      BY <1>0
    <3> QED
      BY <3>1, <3>3, <3>4, <3>5, <3>6 DEF NextFrame
  <2> QED
    BY <2>2, <2>3
<1>RefInv. RefInv'
  <2>1. SUFFICES ASSUME NEW u \in Ticket
                 PROVE  ref'[u] = One(u \in Queued) + One(cur'.t = u)
                                  + Cardinality(Holders(cap, u))
    BY <1>0 DEF RefInv, Queued
  <2>2. /\ ref[u] = One(u \in Queued) + One(cur.t = u) + Cardinality(Holders(cap, u))
        /\ Cardinality(Holders(cap, u)) \in Nat /\ One(u \in Queued) \in {0, 1}
        /\ ref[u] \in Int
    BY HoldersFinite DEF LbInv, RefInv, TypeInv, One
  <2>3. One(cur'.t = u) = 0
    BY <1>1, LiveBufferAssumption DEF NoTicket, One
  <2>4. CASE u = cur.t
    <3>1. ref'[u] = ref[u] - 1 /\ One(cur.t = u) = 1
      BY <1>1, <2>2, <2>4 DEF LbInv, TypeInv, One
    <3> QED
      BY <2>2, <2>3, <3>1
  <2>5. CASE u # cur.t
    <3>1. ref'[u] = ref[u] /\ One(cur.t = u) = 0
      BY <1>1, <2>5 DEF LbInv, TypeInv, One
    <3> QED
      BY <2>2, <2>3, <3>1
  <2> QED
    BY <2>4, <2>5
<1> QED
  BY <1>same, <1>TypeInv, <1>ThreadInv, <1>PlaceInv, <1>CountInv, <1>FreshInv,
     <1>OrderInv, <1>FillInv, <1>RefInv DEF LbInv

-----------------------------------------------------------------------------
(* A capture changes.                                                      *)

LEMMA RefsFollow ==
  ASSUME LbInv, NEW x \in Capture, queue' = queue, cur' = cur,
         \A c \in Capture : c # x => cap'[c] = cap[c],
         \A t \in Ticket : ref'[t] = ref[t] - One(Holds(cap[x], t)) + One(Holds(cap'[x], t))
  PROVE  RefInv'
<1>1. SUFFICES ASSUME NEW t \in Ticket
               PROVE  ref'[t] = One(t \in Queued) + One(cur.t = t)
                                + Cardinality(Holders(cap', t))
  BY DEF RefInv, Queued
<1>2. PICK a, b : a = Cardinality(Holders(cap, t)) /\ b = Cardinality(Holders(cap', t))
  OBVIOUS
<1>3. PICK p, q : p = One(Holds(cap[x], t)) /\ q = One(Holds(cap'[x], t))
  OBVIOUS
<1>4. b = a - p + q
  <2>1. PICK cp, cq : cp = cap /\ cq = cap'
    OBVIOUS
  <2>2. \A c \in Capture : c # x => cq[c] = cp[c]
    BY <2>1
  <2>3. p = One(Holds(cp[x], t)) /\ q = One(Holds(cq[x], t))
    BY <1>3, <2>1
  <2>4. Cardinality(Holders(cq, t)) = Cardinality(Holders(cp, t)) - p + q
    BY <2>2, <2>3, HoldersChange
  <2> QED
    BY <1>2, <2>1, <2>4
<1>5. PICK v, w : v = One(t \in Queued) /\ w = One(cur.t = t)
  OBVIOUS
<1>6. /\ a \in Nat /\ {p, q, v, w} \subseteq {0, 1}
      /\ ref[t] = v + w + a /\ ref'[t] = ref[t] - p + q
  BY <1>2, <1>3, <1>5, HoldersFinite DEF LbInv, RefInv, One
<1>7. ref'[t] = v + w + b
  BY <1>4, <1>6
<1> QED
  BY <1>2, <1>5, <1>7

LEMMA OthersKeep ==
  ASSUME LbInv, NEW x \in Capture,
         \A c \in Capture : c # x => cap'[c] = cap[c],
         CapOK(cap'[x], tx'),
         tx' = tx \/ \A c \in Capture : c # x => cap[c].state # "sending"
  PROVE  CaptureInv'
<1>1. SUFFICES ASSUME NEW c \in Capture, c # x
               PROVE  CapOK(cap[c], tx')
  BY DEF CaptureInv
<1>2. CapOK(cap[c], tx)
  BY DEF LbInv, CaptureInv
<1> QED
  BY <1>1, <1>2 DEF CapOK

LEMMA FreshFollows ==
  ASSUME LbInv, NEW x \in Capture, queue' = queue, cur' = cur,
         \A c \in Capture : c # x => cap'[c] = cap[c],
         \A t \in Ticket : Holds(cap'[x], t) => Holds(cap[x], t) \/ t = cur.t,
         left' > 0 => left > 0,
         cap'[x].state = "filling" /\ left' > 0 => ~Holds(cap'[x], cur.t)
  PROVE  FreshInv'
<1>1. /\ \A i, j \in 1 .. Len(queue) : queue[i].t = queue[j].t => i = j
      /\ \A i \in 1 .. Len(queue) : queue[i].t # cur.t
      /\ \A i \in 1 .. Len(queue) : \A c \in Capture : ~Holds(cap[c], queue[i].t)
      /\ \A c \in Capture : cap[c].state = "filling" /\ left > 0 => ~Holds(cap[c], cur.t)
  BY DEF LbInv, FreshInv
<1>2. \A i \in 1 .. Len(queue) : queue[i].t \in Ticket
  <2>1. \A i \in 1 .. Len(queue) : queue[i] \in TicketSet
    BY DEF LbInv, TypeInv
  <2> QED
    BY <2>1 DEF TicketSet
<1>3. ASSUME NEW i \in 1 .. Len(queue), NEW c \in Capture
      PROVE  ~Holds(cap'[c], queue[i].t)
  <2>1. CASE c = x
    BY <1>1, <1>2, <2>1
  <2>2. CASE c # x
    BY <1>1, <2>2
  <2> QED
    BY <2>1, <2>2
<1>4. ASSUME NEW c \in Capture, cap'[c].state = "filling", left' > 0
      PROVE  ~Holds(cap'[c], cur.t)
  <2>1. CASE c = x
    BY <1>4, <2>1
  <2>2. CASE c # x
    BY <1>1, <1>4, <2>2
  <2> QED
    BY <2>1, <2>2
<1> QED
  BY <1>1, <1>3, <1>4 DEF FreshInv

\* The capture that is being filled.
LEMMA FillingIs ==
  ASSUME LbInv, Alive, filling # None
  PROVE  /\ filling \in Capture /\ cap[filling] \in CapSet /\ cap[filling].state = "filling"
         /\ FillingOK(cap[filling]) /\ cap[filling].n = n
         /\ cap[filling].N0 = use["capture"].N0 /\ capturing
         /\ {use["capture"].N, use["capture"].N0} \subseteq Nat
         /\ use["capture"].N0 <= use["capture"].N
<1>1. filling \in Capture /\ cap[filling] \in CapSet /\ cap[filling].state = "filling"
  BY DEF LbInv, TypeInv, PlaceInv, Placed, Alive
<1>2. use["capture"] \in Rule /\ use["capture"].N0 <= use["capture"].N
  BY DEF LbInv, ConfInv, ConfSet
<1> QED
  BY <1>1, <1>2 DEF LbInv, CaptureInv, CapOK, FillInv, ThreadInv, Rule

\* What insert makes of it.
LEMMA InsertedIs ==
  ASSUME LbInv, Looping, capturing, filling # None,
         NEW c, c = cap[filling], SizeMatches(c), NEW d, d = Inserted(c), NEW k, k = Needed(c)
  PROVE  /\ d \in CapSet /\ d.state = "filling" /\ d.N0 = c.N0 /\ d.commit = 0
         /\ k \in Nat \ {0} /\ k <= left /\ d.n = c.n + k /\ d.n <= d.N0
         /\ d.n # d.N0 => k = left
         /\ Len(c.chunks) \in Nat /\ Len(d.chunks) = Len(c.chunks) + 1
         /\ d.chunks[Len(c.chunks) + 1] = [of |-> cur, index |-> ofs, count |-> k]
         /\ Distinct(d) /\ Chain(d)
         /\ ~Holds(c, cur.t)
         /\ \A t \in Ticket : Holds(d, t) <=> Holds(c, t) \/ t = cur.t
<1>1. /\ filling \in Capture /\ c \in CapSet /\ c.state = "filling" /\ FillingOK(c)
      /\ c.n = n /\ c.n < c.N0 /\ c.commit = 0 /\ (c.n = 0 <=> c.chunks = <<>>)
      /\ Distinct(c) /\ Chain(c)
  BY FillingIs DEF Looping, Alive, FillingOK
<1>2. /\ c.n \in Nat /\ c.N0 \in Nat /\ c.chunks \in Seq(ChunkSet) /\ c.fs \in FrameSize \cup {0}
  BY <1>1 DEF CapSet
<1>3. /\ cur \in TicketSet /\ cur.t \in Ticket /\ cur.cnt \in Nat /\ cur.fs \in FrameSize
      /\ cur.seq \in Nat /\ ofs \in Nat /\ left \in Nat \ {0} /\ left = cur.cnt - ofs
  <2>1. cur \in TicketSet /\ ofs \in Nat /\ left > 0
    BY DEF LbInv, ThreadInv, TypeInv, Looping
  <2> QED
    BY <2>1, LiveBufferAssumption DEF TicketSet, left
<1>4. k \in Nat \ {0} /\ k <= left /\ k <= c.N0 - c.n /\ (k # left => k = c.N0 - c.n)
  <2>1. PICK m \in Nat \ {0} : m = c.N0 - c.n
    BY <1>1, <1>2
  <2>2. k = IF left < m THEN left ELSE m
    BY <2>1 DEF Needed
  <2>3. left \in Nat \ {0}
    BY <1>3
  <2> QED
    BY <2>1, <2>2, <2>3
<1>5. PICK e : e = [of |-> cur, index |-> ofs, count |-> k]
  OBVIOUS
<1>6. e \in ChunkSet /\ e.of = cur /\ e.index = ofs /\ e.count = k
  BY <1>3, <1>4, <1>5 DEF ChunkSet
<1>7. d = [c EXCEPT !.fs = IF c.n = 0 THEN cur.fs ELSE @, !.n = @ + k,
                    !.chunks = Append(@, e)]
  BY <1>5 DEF Inserted
<1>8. /\ d.state = "filling" /\ d.N0 = c.N0 /\ d.commit = 0 /\ d.n = c.n + k
      /\ d.fs = (IF c.n = 0 THEN cur.fs ELSE c.fs) /\ d.chunks = Append(c.chunks, e)
  <2>1. c \in [state : States, N0 : Nat, fs : FrameSize \cup {0}, n : Nat,
               chunks : Seq(ChunkSet), commit : Nat]
    BY <1>1 DEF CapSet
  <2> QED
    BY <1>1, <1>7, <2>1
<1>9. Append(c.chunks, e) \in Seq(ChunkSet) /\ c.n + k \in Nat
  BY <1>2, <1>4, <1>6
<1>10. d \in CapSet
  BY <1>1, <1>2, <1>3, <1>7, <1>9 DEF CapSet
<1>11. PICK L : L = Len(c.chunks)
  OBVIOUS
<1>12. /\ L \in Nat /\ Len(d.chunks) = L + 1
       /\ \A i \in 1 .. L : d.chunks[i] = c.chunks[i]
       /\ d.chunks[L + 1] = e
       /\ \A i \in 1 .. L + 1 : i \in 1 .. L \/ i = L + 1
  BY <1>2, <1>6, <1>8, <1>11, AppendProperties
<1>13. ~Holds(c, cur.t)
  BY <1>1, <1>3 DEF LbInv, FreshInv
<1>14. \A i \in 1 .. L : c.chunks[i].of.t # cur.t
  BY <1>1, <1>11, <1>13 DEF Holds, Held
<1>15. Distinct(d)
  <2>1. SUFFICES ASSUME NEW i \in 1 .. L + 1, NEW j \in 1 .. L + 1,
                        d.chunks[i].of.t = d.chunks[j].of.t
                 PROVE  i = j
    BY <1>12 DEF Distinct
  <2>2. /\ i \in 1 .. L \/ i = L + 1
        /\ j \in 1 .. L \/ j = L + 1
    BY <1>12
  <2>3. \A a, b \in 1 .. L : c.chunks[a].of.t = c.chunks[b].of.t => a = b
    BY <1>1, <1>11 DEF Distinct
  <2> QED
    BY <1>6, <1>12, <1>14, <2>1, <2>2, <2>3
<1>16. L = 0 \/ /\ c.n # 0 /\ c.fs = cur.fs /\ c.chunks # <<>> /\ ofs = 0
                /\ c.chunks[L].index + c.chunks[L].count = c.chunks[L].of.cnt
                /\ cur.seq = c.chunks[L].of.seq + 1
  <2>1. SUFFICES ASSUME L # 0
                 PROVE  /\ c.n # 0 /\ c.fs = cur.fs /\ c.chunks # <<>> /\ ofs = 0
                        /\ c.chunks[L].index + c.chunks[L].count = c.chunks[L].of.cnt
                        /\ cur.seq = c.chunks[L].of.seq + 1
    OBVIOUS
  <2>2. c.chunks # <<>> /\ c.n # 0
    BY <1>1, <1>2, <1>11, <2>1
  <2>3. NextFrame(c)
    BY <2>2 DEF LbInv, FillInv, Looping
  <2> QED
    BY <1>3, <1>11, <2>2, <2>3 DEF NextFrame, SizeMatches
<1>17. ASSUME NEW i \in 1 .. L
       PROVE  LET ch == d.chunks[i] IN
              /\ ch.index + ch.count <= ch.of.cnt
              /\ ch.of.fs = d.fs
              /\ ch.of.seq = d.chunks[1].of.seq + i - 1
              /\ i > 1 => ch.index = 0
              /\ ch.index + ch.count = ch.of.cnt
  <2>1. LET ch == c.chunks[i] IN
        /\ ch.index + ch.count <= ch.of.cnt
        /\ ch.of.fs = c.fs
        /\ ch.of.seq = c.chunks[1].of.seq + i - 1
        /\ i > 1 => ch.index = 0
        /\ i < L => ch.index + ch.count = ch.of.cnt
    BY <1>1, <1>11 DEF Chain
  <2>2. 1 \in 1 .. L /\ L # 0 /\ (i < L \/ i = L)
    BY <1>12
  <2>3. d.chunks[i] = c.chunks[i] /\ d.chunks[1] = c.chunks[1] /\ d.fs = c.fs
    BY <1>8, <1>12, <1>16, <2>2
  <2> QED
    BY <1>16, <2>1, <2>2, <2>3
<1>18. /\ e.index + e.count <= e.of.cnt
       /\ e.of.fs = d.fs
       /\ e.of.seq = d.chunks[1].of.seq + (L + 1) - 1
       /\ L + 1 > 1 => e.index = 0
  <2>1. CASE L = 0
    <3>2. c.chunks = <<>>
      BY <1>2, <1>11, <2>1, EmptySeq
    <3>3. d.chunks[1] = e
      BY <1>12, <2>1
    <3>1. c.n = 0 /\ d.chunks[1] = e
      BY <1>1, <3>2, <3>3
    <3> QED
      BY <1>3, <1>4, <1>6, <1>8, <2>1, <3>1
  <2>2. CASE L # 0
    <3>1. 1 \in 1 .. L /\ L \in 1 .. L
      BY <1>12, <2>2
    <3>2. c.chunks[L].of.seq = c.chunks[1].of.seq + L - 1 /\ d.chunks[1] = c.chunks[1]
      BY <1>1, <1>11, <1>12, <3>1 DEF Chain
    <3>3. c.chunks[1] \in ChunkSet
      BY <1>2, <1>11, <3>1
    <3>4. c.chunks[1].of.seq \in Nat
      BY <3>3, LiveBufferAssumption DEF ChunkSet, TicketSet
    <3>5. cur.seq = d.chunks[1].of.seq + (L + 1) - 1
      BY <1>12, <1>16, <2>2, <3>2, <3>4
    <3>6. ofs + k <= cur.cnt /\ cur.fs = d.fs /\ ofs = 0
      BY <1>3, <1>4, <1>8, <1>16, <2>2
    <3> QED
      BY <1>6, <3>5, <3>6
  <2> QED
    BY <2>1, <2>2
<1>19. Chain(d)
  <2>1. SUFFICES ASSUME NEW i \in 1 .. L + 1
                 PROVE  LET ch == d.chunks[i] IN
                        /\ ch.index + ch.count <= ch.of.cnt
                        /\ ch.of.fs = d.fs
                        /\ ch.of.seq = d.chunks[1].of.seq + i - 1
                        /\ i > 1 => ch.index = 0
                        /\ i < L + 1 => ch.index + ch.count = ch.of.cnt
    BY <1>12 DEF Chain
  <2>2. CASE i \in 1 .. L
    BY <1>17, <2>2
  <2>3. CASE i = L + 1
    BY <1>12, <1>18, <2>3
  <2> QED
    BY <1>12, <2>2, <2>3
<1>20. ASSUME NEW t \in Ticket
       PROVE  Holds(d, t) <=> Holds(c, t) \/ t = cur.t
  <2>1. Holds(c, t) <=> \E i \in 1 .. L : c.chunks[i].of.t = t
    BY <1>1, <1>11 DEF Holds, Held
  <2>2. Holds(d, t) <=> \E i \in 1 .. L + 1 : d.chunks[i].of.t = t
    BY <1>8, <1>12 DEF Holds, Held
  <2>3. L + 1 \in 1 .. L + 1 /\ \A i \in 1 .. L : i \in 1 .. L + 1
    BY <1>12
  <2> QED
    BY <1>6, <1>12, <2>1, <2>2, <2>3
<1>21. d.n <= d.N0 /\ (d.n # d.N0 => k = left)
  BY <1>2, <1>4, <1>8
<1> QED
  BY <1>4, <1>5, <1>8, <1>10, <1>11, <1>12, <1>13, <1>15, <1>19, <1>20, <1>21

-----------------------------------------------------------------------------
(* Filling a capture.                                                      *)

\* What putAll returns is what the capture has.
LEMMA PutAllIs ==
  ASSUME LbInv, NEW r \in CapSet, Distinct(r), r.state \in Held, NEW t \in Ticket
  PROVE  putAll(r, r.commit)[t] = ref[t] - One(Holds(r, t))
<1>1. r.commit \in Nat
  BY DEF CapSet
<1>2. RefsFrom(r, r.commit, t)
        = One(\E i \in r.commit + 1 .. Len(r.chunks) : r.chunks[i].of.t = t)
  BY <1>1, RefsFromIs
<1>3. Holds(r, t) <=> \E i \in r.commit + 1 .. Len(r.chunks) : r.chunks[i].of.t = t
  BY DEF Holds
<1>4. RefsFrom(r, r.commit, t) = One(Holds(r, t))
  BY <1>2, <1>3 DEF One
<1> QED
  BY <1>4 DEF putAll

LEMMA PutAllType ==
  ASSUME LbInv, NEW r \in CapSet, Distinct(r)
  PROVE  putAll(r, r.commit) \in [Ticket -> Int]
<1>1. r.commit \in Nat
  BY DEF CapSet
<1>2. ASSUME NEW t \in Ticket
      PROVE  ref[t] - RefsFrom(r, r.commit, t) \in Int
  <2>1. RefsFrom(r, r.commit, t) \in {0, 1} /\ ref[t] \in Int
    BY <1>1, RefsFromIs DEF One, LbInv, TypeInv
  <2> QED
    BY <2>1
<1> QED
  BY <1>2 DEF putAll

\* The trigger is reset.
LEMMA ResetTriggerIs ==
  ASSUME LbInv, reset_trigger
  PROVE  trg' \in {0, 1} /\ chk' \in {0, 1} /\ serv_trg' = FALSE
  BY DEF LbInv, TypeInv, reset_trigger, service, trigger

\* The rest of a ticket is inserted.
LEMMA InsertKeeps ==
  ASSUME LbInv, insert
  PROVE  LbInv'
<1>0. UNCHANGED <<conf, changed, use, todo, trg, chk, serv_trg, pc, stopping, cur,
                 capturing, filling, count_cap_buffs, free, full, tx, sending,
                 running, queue, resetting, fsize, delivered, commands>>
  BY DEF insert, config, trigger, pool, thread, sender, stream
<1>1. PICK c, d, k : c = cap[filling] /\ d = Inserted(c) /\ k = Needed(c)
  OBVIOUS
<1>2. /\ Looping /\ capturing /\ filling # None /\ SizeMatches(c) /\ d.n # d.N0
      /\ ref' = [ref EXCEPT ![cur.t] = @ + 1]
      /\ ofs' = ofs + k /\ n' = n + k
      /\ cap' = [cap EXCEPT ![filling] = d]
  BY <1>1 DEF insert, insertRef
<1>3. /\ d \in CapSet /\ d.state = "filling" /\ d.N0 = c.N0 /\ d.commit = 0
      /\ k \in Nat \ {0} /\ k <= left /\ d.n = c.n + k /\ d.n <= d.N0
      /\ (d.n # d.N0 => k = left)
      /\ Len(c.chunks) \in Nat /\ Len(d.chunks) = Len(c.chunks) + 1
      /\ d.chunks[Len(c.chunks) + 1] = [of |-> cur, index |-> ofs, count |-> k]
      /\ Distinct(d) /\ Chain(d) /\ ~Holds(c, cur.t)
      /\ \A t \in Ticket : Holds(d, t) <=> Holds(c, t) \/ t = cur.t
  <2>1. Looping /\ capturing /\ filling # None /\ SizeMatches(c)
    BY <1>2
  <2>2. c = cap[filling] /\ d = Inserted(c) /\ k = Needed(c)
    BY <1>1
  <2> QED
    BY <2>1, <2>2, InsertedIs
<1>4. /\ pc = "loop" /\ ~stopping /\ cur \in TicketSet /\ cur.t \in Ticket /\ cur.cnt \in Nat
      /\ ofs \in Nat /\ left = cur.cnt - ofs /\ left > 0
  BY <1>2 DEF Looping, LbInv, ThreadInv, TypeInv, TicketSet, left
<1>5. /\ filling \in Capture /\ cap \in [Capture -> CapSet] /\ c \in CapSet
      /\ c.state = "filling" /\ c.commit = 0 /\ c.n = n /\ n \in Nat
      /\ c.N0 = use["capture"].N0 /\ c.N0 <= use["capture"].N
      /\ {use["capture"].N, c.N0} \subseteq Nat
  BY <1>1, <1>2, <1>4, FillingIs DEF Alive, FillingOK, LbInv, TypeInv
<1>6. /\ ref' \in [Ticket -> Int] /\ ref \in [Ticket -> Int]
      /\ \A t \in Ticket : ref'[t] = IF t = cur.t THEN ref[t] + 1 ELSE ref[t]
  BY <1>2, <1>4 DEF LbInv, TypeInv
<1>12. ofs' \in Nat /\ ofs' <= cur.cnt /\ n' \in Nat /\ n' <= use["capture"].N
  <2>1. k \in Nat /\ k <= left /\ d.n = c.n + k /\ d.n <= c.N0 /\ ofs' = ofs + k /\ n' = n + k
    BY <1>2, <1>3
  <2>2. ofs' \in Nat /\ ofs' <= cur.cnt
    BY <1>4, <2>1
  <2>3. n' \in Nat /\ n' <= use["capture"].N
    BY <1>5, <2>1
  <2> QED
    BY <2>2, <2>3
<1>7. left' = left - k /\ cur' = cur /\ queue' = queue
  BY <1>0, <1>2, <1>3, <1>4 DEF left
<1>8. /\ cap' \in [Capture -> CapSet] /\ cap'[filling] = d
      /\ \A x \in Capture : x # filling => cap'[x] = cap[x]
  BY <1>2, <1>3, <1>5
<1>same. ConfInv' /\ OrderInv'
  BY <1>0, ConfSame, OrderSame
<1>TypeInv. TypeInv'
  BY <1>0, <1>6, <1>8, <1>12 DEF LbInv, TypeInv
<1>ThreadInv. ThreadInv'
  BY <1>0, <1>12 DEF LbInv, ThreadInv
<1>PlaceInv. PlaceInv'
  <2>1. \A x \in Capture : Placed(x)
    BY <1>4 DEF LbInv, PlaceInv
  <2>2. ASSUME NEW x \in Capture
        PROVE  Placed(x)'
    <3>1. CASE x = filling
      <4>1. cap'[x].state = "filling" /\ cap[x].state = "filling"
        BY <1>1, <1>3, <1>5, <1>8, <3>1
      <4> QED
        BY <1>0, <2>1, <4>1 DEF Placed
    <3>2. CASE x # filling
      BY <1>0, <1>8, <2>1, <3>2 DEF Placed
    <3> QED
      BY <3>1, <3>2
  <2> QED
    BY <1>0, <2>2 DEF LbInv, PlaceInv
<1>CountInv. CountInv'
  <2>1. \A x \in Capture : cap'[x].state # "dead" <=> cap[x].state # "dead"
    BY <1>1, <1>3, <1>5, <1>8
  <2>2. Live' = Live
    BY <2>1 DEF Live
  <2> QED
    BY <1>0, <2>2 DEF LbInv, CountInv
<1>CaptureInv. CaptureInv'
  <2>1. d.n # 0 /\ d.chunks # <<>> /\ d.n < d.N0
    BY <1>2, <1>3, <1>5
  <2>2. CapOK(d, tx)
    BY <1>3, <2>1 DEF CapOK, FillingOK
  <2> QED
    BY <1>0, <1>5, <1>8, <2>2, OthersKeep
<1>FreshInv. FreshInv'
  <2>1. left' = 0
    BY <1>2, <1>3, <1>4, <1>7
  <2>2. ~(left' > 0)
    BY <2>1
  <2>3. \A t \in Ticket : Holds(d, t) => Holds(c, t) \/ t = cur.t
    BY <1>3
  <2> QED
    BY <1>1, <1>5, <1>7, <1>8, <2>2, <2>3, FreshFollows
<1>FillInv. FillInv'
  <2>1. filling' = filling /\ cap'[filling] = d /\ d.n = n' /\ d.N0 = use'["capture"].N0
    BY <1>0, <1>2, <1>3, <1>5, <1>8
  <2>2. PICK last : last = d.chunks[Len(d.chunks)]
    OBVIOUS
  <2>3. /\ last.of = cur /\ last.index = ofs /\ last.count = k /\ k = left
    BY <1>2, <1>3, <2>2
  <2>4. last.index + last.count = last.of.cnt /\ left' = 0
    BY <1>4, <1>7, <2>3
  <2>5. pc' # "wait" /\ left' = 0 /\ cur' = cur
    BY <1>0, <1>4, <2>4
  <2>6. /\ last.index + last.count = last.of.cnt
        /\ left' > 0 => ofs' = 0 /\ cur'.seq = last.of.seq + 1
        /\ cur' # NoTicket /\ left' = 0 => cur'.seq = last.of.seq
        /\ pc' = "wait" /\ ~resetting' => last.of.seq = delivered' - Len(queue')
    BY <2>3, <2>4, <2>5
  <2>7. NextFrame(cap[filling])'
    BY <2>1, <2>2, <2>6 DEF NextFrame
  <2> QED
    BY <2>1, <2>7 DEF FillInv
<1>RefInv. RefInv'
  <2>1. SUFFICES ASSUME NEW t \in Ticket
                 PROVE  ref'[t] = ref[t] - One(Holds(c, t)) + One(Holds(d, t))
    BY <1>1, <1>5, <1>7, <1>8, RefsFollow
  <2>2. PICK v, w : v = One(Holds(c, t)) /\ w = One(Holds(d, t))
    OBVIOUS
  <2>3. v \in {0, 1} /\ w \in {0, 1} /\ (t = cur.t => v = 0 /\ w = 1) /\ (t # cur.t => v = w)
    BY <1>3, <2>2 DEF One
  <2>4. ref'[t] = ref[t] - v + w
    BY <1>6, <2>3
  <2> QED
    BY <2>2, <2>4
<1> QED
  BY <1>same, <1>TypeInv, <1>ThreadInv, <1>PlaceInv, <1>CountInv, <1>CaptureInv,
     <1>FreshInv, <1>FillInv, <1>RefInv DEF LbInv

\* The last chunk is inserted, and the capture is handed to the transmitter.
LEMMA InsertLastKeeps ==
  ASSUME LbInv, insertLast
  PROVE  LbInv'
<1>0. UNCHANGED <<conf, changed, use, todo, trg, chk, serv_trg, pc, stopping, cur,
                 capturing, count_cap_buffs, free, tx, sending, running, queue,
                 resetting, fsize, delivered, commands>>
  BY DEF insertLast, config, trigger, pool, thread, sender, stream
<1>1. PICK c, d, k : c = cap[filling] /\ d = Inserted(c) /\ k = Needed(c)
  OBVIOUS
<1>2. /\ Looping /\ capturing /\ filling # None /\ SizeMatches(c) /\ d.n = d.N0
      /\ ref' = [ref EXCEPT ![cur.t] = @ + 1]
      /\ ofs' = ofs + k /\ n' = n + k
      /\ cap' = [cap EXCEPT ![filling] = [prepare_for_transmission(d) EXCEPT !.state = "full"]]
  BY <1>1 DEF insertLast, insertRef
<1>3. /\ d \in CapSet /\ d.state = "filling" /\ d.N0 = c.N0 /\ d.commit = 0
      /\ k \in Nat \ {0} /\ k <= left /\ d.n = c.n + k /\ d.n <= d.N0
      /\ (d.n # d.N0 => k = left)
      /\ Len(c.chunks) \in Nat /\ Len(d.chunks) = Len(c.chunks) + 1
      /\ d.chunks[Len(c.chunks) + 1] = [of |-> cur, index |-> ofs, count |-> k]
      /\ Distinct(d) /\ Chain(d) /\ ~Holds(c, cur.t)
      /\ \A t \in Ticket : Holds(d, t) <=> Holds(c, t) \/ t = cur.t
  <2>1. Looping /\ capturing /\ filling # None /\ SizeMatches(c)
    BY <1>2
  <2>2. c = cap[filling] /\ d = Inserted(c) /\ k = Needed(c)
    BY <1>1
  <2> QED
    BY <2>1, <2>2, InsertedIs
<1>4. /\ pc = "loop" /\ ~stopping /\ cur \in TicketSet /\ cur.t \in Ticket /\ cur.cnt \in Nat
      /\ ofs \in Nat /\ left = cur.cnt - ofs /\ left > 0
  BY <1>2 DEF Looping, LbInv, ThreadInv, TypeInv, TicketSet, left
<1>5. /\ filling \in Capture /\ cap \in [Capture -> CapSet] /\ c \in CapSet
      /\ c.state = "filling" /\ c.commit = 0 /\ c.n = n /\ n \in Nat
      /\ c.N0 = use["capture"].N0 /\ c.N0 <= use["capture"].N
      /\ {use["capture"].N, c.N0} \subseteq Nat
  BY <1>1, <1>2, <1>4, FillingIs DEF Alive, FillingOK, LbInv, TypeInv
<1>6. /\ ref' \in [Ticket -> Int] /\ ref \in [Ticket -> Int]
      /\ \A t \in Ticket : ref'[t] = IF t = cur.t THEN ref[t] + 1 ELSE ref[t]
  BY <1>2, <1>4 DEF LbInv, TypeInv
<1>12. ofs' \in Nat /\ ofs' <= cur.cnt /\ n' \in Nat /\ n' <= use["capture"].N
  <2>1. k \in Nat /\ k <= left /\ d.n = c.n + k /\ d.n <= c.N0 /\ ofs' = ofs + k /\ n' = n + k
    BY <1>2, <1>3
  <2>2. ofs' \in Nat /\ ofs' <= cur.cnt
    BY <1>4, <2>1
  <2>3. n' \in Nat /\ n' <= use["capture"].N
    BY <1>5, <2>1
  <2> QED
    BY <2>2, <2>3
<1>7. left' = left - k /\ cur' = cur /\ queue' = queue
  BY <1>0, <1>2, <1>3, <1>4 DEF left
<1>11. PICK e : e = [prepare_for_transmission(d) EXCEPT !.state = "full"]
  OBVIOUS
<1>9. /\ e \in CapSet /\ e.state = "full" /\ e.commit = 0 /\ e.n = 0 /\ e.chunks = d.chunks
      /\ e.fs = d.fs /\ \A t : Holds(e, t) <=> Holds(d, t)
  <2>1. d \in [state : States, N0 : Nat, fs : FrameSize \cup {0}, n : Nat,
               chunks : Seq(ChunkSet), commit : Nat]
    BY <1>3 DEF CapSet
  <2>2. e = [d EXCEPT !.n = 0, !.commit = 0, !.state = "full"]
    BY <1>11, <2>1 DEF prepare_for_transmission
  <2>3. /\ e.state = "full" /\ e.commit = 0 /\ e.n = 0 /\ e.chunks = d.chunks /\ e.fs = d.fs
    BY <2>1, <2>2
  <2>4. e \in CapSet
    BY <2>1, <2>2 DEF CapSet, States
  <2>5. \A t : Holds(e, t) <=> Holds(d, t)
    BY <1>3, <2>3 DEF Holds, Held
  <2> QED
    BY <2>3, <2>4, <2>5
<1>8. /\ cap' \in [Capture -> CapSet] /\ cap'[filling] = e
      /\ \A x \in Capture : x # filling => cap'[x] = cap[x]
  BY <1>2, <1>5, <1>9, <1>11
<1>10. /\ filling' = None /\ full' \in Seq(Capture) /\ IsInjective(full')
       /\ ToSet(full') = ToSet(full) \cup {filling}
  <2>1. full \in Seq(Capture) /\ IsInjective(full) /\ filling \notin ToSet(full)
    BY <1>1, <1>4, <1>5 DEF LbInv, TypeInv, PlaceInv, Placed
  <2>2. full' = Append(full, filling) /\ filling' = None
    BY DEF insertLast
  <2> QED
    BY <1>5, <2>1, <2>2, AppendOf
<1>same. ConfInv' /\ OrderInv'
  BY <1>0, ConfSame, OrderSame
<1>TypeInv. TypeInv'
  BY <1>0, <1>6, <1>8, <1>10, <1>12 DEF LbInv, TypeInv
<1>ThreadInv. ThreadInv'
  BY <1>0, <1>10, <1>12 DEF LbInv, ThreadInv
<1>PlaceInv. PlaceInv'
  <2>1. \A x \in Capture : Placed(x)
    BY <1>4 DEF LbInv, PlaceInv
  <2>2. filling \notin ToSet(free) /\ filling # sending
    BY <1>1, <1>5, <2>1 DEF Placed
  <2>3. ASSUME NEW x \in Capture
        PROVE  Placed(x)'
    <3>1. CASE x = filling
      <4>1. cap'[x].state = "full"
        BY <1>8, <1>9, <3>1
      <4> QED
        BY <1>0, <1>5, <1>10, <2>2, <3>1, <4>1, LiveBufferAssumption DEF Placed
    <3>2. CASE x # filling
      BY <1>0, <1>8, <1>10, <2>1, <3>2, LiveBufferAssumption DEF Placed
    <3> QED
      BY <3>1, <3>2
  <2> QED
    BY <1>0, <1>10, <2>2, <2>3 DEF LbInv, PlaceInv
<1>CountInv. CountInv'
  <2>1. \A x \in Capture : cap'[x].state # "dead" <=> cap[x].state # "dead"
    BY <1>1, <1>5, <1>8, <1>9
  <2>2. Live' = Live
    BY <2>1 DEF Live
  <2> QED
    BY <1>0, <2>2 DEF LbInv, CountInv
<1>CaptureInv. CaptureInv'
  <2>1. Distinct(e) /\ Chain(e)
    BY <1>3, <1>9 DEF Distinct, Chain
  <2>2. CapOK(e, tx)
    BY <1>3, <1>9, <2>1 DEF CapOK, FullOK
  <2> QED
    BY <1>0, <1>5, <1>8, <2>2, OthersKeep
<1>FreshInv. FreshInv'
  <2>1. \A t \in Ticket : Holds(e, t) => Holds(c, t) \/ t = cur.t
    BY <1>3, <1>9
  <2>2. left' > 0 => left > 0
    BY <1>4
  <2> QED
    BY <1>1, <1>5, <1>7, <1>8, <1>9, <2>1, <2>2, FreshFollows
<1>FillInv. FillInv'
  BY <1>10 DEF FillInv
<1>RefInv. RefInv'
  <2>1. SUFFICES ASSUME NEW t \in Ticket
                 PROVE  ref'[t] = ref[t] - One(Holds(c, t)) + One(Holds(e, t))
    BY <1>1, <1>5, <1>7, <1>8, RefsFollow
  <2>2. PICK v, w : v = One(Holds(c, t)) /\ w = One(Holds(e, t))
    OBVIOUS
  <2>3. v \in {0, 1} /\ w \in {0, 1} /\ (t = cur.t => v = 0 /\ w = 1) /\ (t # cur.t => v = w)
    BY <1>3, <2>2, <1>9 DEF One
  <2>4. ref'[t] = ref[t] - v + w
    BY <1>6, <2>3
  <2> QED
    BY <2>2, <2>4
<1> QED
  BY <1>same, <1>TypeInv, <1>ThreadInv, <1>PlaceInv, <1>CountInv, <1>CaptureInv,
     <1>FreshInv, <1>FillInv, <1>RefInv DEF LbInv

\* The capture cannot be continued: it is deleted.
LEMMA InsertFailsKeeps ==
  ASSUME LbInv, insertFails
  PROVE  LbInv'
<1>0. UNCHANGED <<conf, changed, use, todo, pc, stopping, cur, count_cap_buffs, free,
                 full, tx, sending, running, queue, resetting, fsize, delivered,
                 commands>>
  BY DEF insertFails, config, trigger, pool, thread, sender, stream
<1>1. PICK c : c = cap[filling]
  OBVIOUS
<1>2. /\ Looping /\ capturing /\ filling # None /\ filling' = None
      /\ ref' = putAll(c, 0) /\ cap' = [cap EXCEPT ![filling] = Dead]
      /\ reset_trigger /\ n' = 0 /\ capturing' = FALSE
  BY <1>1 DEF insertFails, reset_capture
<1>3. /\ pc = "loop" /\ cur \in TicketSet /\ cur.cnt \in Nat /\ ofs \in Nat
      /\ left = cur.cnt - ofs /\ left > 0
  BY <1>2 DEF Looping, LbInv, ThreadInv, TypeInv, TicketSet, left
<1>4. /\ filling \in Capture /\ cap \in [Capture -> CapSet] /\ c \in CapSet
      /\ c.state = "filling" /\ c.commit = 0 /\ Distinct(c)
      /\ ref' \in [Ticket -> Int]
  <2>1. /\ filling \in Capture /\ cap \in [Capture -> CapSet] /\ c \in CapSet
        /\ c.state = "filling" /\ c.commit = 0 /\ Distinct(c)
    BY <1>1, <1>2, <1>3, FillingIs DEF Alive, FillingOK, LbInv, TypeInv
  <2> QED
    BY <1>2, <2>1, PutAllType
<1>5. ofs' \in Nat /\ ofs' >= ofs /\ ofs' <= cur.cnt
  <2>1. PICK d : d = IF SizeMatches(c) THEN Inserted(c) ELSE c
    OBVIOUS
  <2>2. ofs' = ofs + (d.n - c.n)
    BY <1>1, <2>1 DEF insertFails
  <2>3. CASE SizeMatches(c)
    <3>1. PICK k : k = Needed(c)
      OBVIOUS
    <3>4. d = Inserted(c)
      BY <2>1, <2>3
    <3>5. Looping /\ capturing /\ filling # None /\ c = cap[filling]
      BY <1>1, <1>2
    <3>2. /\ d \in CapSet /\ d.state = "filling" /\ d.N0 = c.N0 /\ d.commit = 0
          /\ k \in Nat \ {0} /\ k <= left /\ d.n = c.n + k /\ d.n <= d.N0
          /\ (d.n # d.N0 => k = left)
          /\ Len(c.chunks) \in Nat /\ Len(d.chunks) = Len(c.chunks) + 1
          /\ d.chunks[Len(c.chunks) + 1] = [of |-> cur, index |-> ofs, count |-> k]
          /\ Distinct(d) /\ Chain(d) /\ ~Holds(c, cur.t)
          /\ \A t \in Ticket : Holds(d, t) <=> Holds(c, t) \/ t = cur.t
      BY <2>3, <3>1, <3>4, <3>5, InsertedIs
    <3>3. c.n \in Nat
      BY <1>4 DEF CapSet
    <3> QED
      BY <1>3, <2>2, <3>2, <3>3
  <2>4. CASE ~SizeMatches(c)
    <3>1. c.n \in Nat /\ d = c
      BY <1>4, <2>1, <2>4 DEF CapSet
    <3> QED
      BY <1>3, <2>2, <3>1
  <2> QED
    BY <2>3, <2>4
<1>6. /\ cap' \in [Capture -> CapSet] /\ cap'[filling] = Dead
      /\ \A x \in Capture : x # filling => cap'[x] = cap[x]
  <2>1. <<>> \in Seq(ChunkSet)
    OBVIOUS
  <2>2. Dead \in CapSet
    BY <2>1 DEF Dead, CapSet, States
  <2> QED
    BY <1>2, <1>4, <2>2
<1>same. ConfInv' /\ OrderInv'
  BY <1>0, ConfSame, OrderSame
<1>TypeInv. TypeInv'
  <2>1. trg' \in {0, 1} /\ chk' \in {0, 1}
    BY <1>2, ResetTriggerIs
  <2> QED
    BY <1>0, <1>2, <1>4, <1>5, <1>6, <2>1 DEF LbInv, TypeInv
<1>ThreadInv. ThreadInv'
  <2>1. serv_trg' = FALSE
    BY <1>2, ResetTriggerIs
  <2> QED
    BY <1>0, <1>2, <1>5, <2>1 DEF LbInv, ThreadInv, Acquiring
<1>PlaceInv. PlaceInv'
  <2>1. \A x \in Capture : Placed(x)
    BY <1>3 DEF LbInv, PlaceInv
  <2>2. ASSUME NEW x \in Capture
        PROVE  Placed(x)'
    <3>1. CASE x = filling
      <4>1. x # sending /\ x \notin ToSet(full) /\ x \notin ToSet(free)
        BY <1>1, <1>4, <2>1, <3>1 DEF Placed
      <4>2. cap'[x] = Dead /\ cap'[x].state = "dead" /\ x # filling'
        BY <1>2, <1>4, <1>6, <3>1, LiveBufferAssumption DEF Dead
      <4> QED
        BY <1>0, <4>1, <4>2 DEF Placed
    <3>2. CASE x # filling
      BY <1>0, <1>2, <1>6, <2>1, <3>2, LiveBufferAssumption DEF Placed
    <3> QED
      BY <3>1, <3>2
  <2> QED
    BY <1>0, <2>2 DEF LbInv, PlaceInv
<1>CountInv. CountInv'
  <2>1. Live' \subseteq Live
    BY <1>6 DEF Live, Dead
  <2>2. Live \in SUBSET Capture
    BY DEF Live
  <2>3. IsFiniteSet(Live)
    BY <2>2, LiveBufferAssumption, FS_Subset
  <2>4. Cardinality(Live') <= Cardinality(Live)
    BY <2>1, <2>3, FS_Subset
  <2>5. Cardinality(Live') \in Nat /\ Cardinality(Live) \in Nat
    BY <2>1, <2>3, FS_Subset, FS_CardinalityType
  <2>6. count_cap_buffs >= Cardinality(Live) /\ count_cap_buffs \in Int
    BY <1>3 DEF LbInv, CountInv, TypeInv
  <2>7. count_cap_buffs >= Cardinality(Live')
    BY <2>4, <2>5, <2>6
  <2> QED
    BY <1>0, <2>7 DEF CountInv
<1>CaptureInv. CaptureInv'
  <2>1. CapOK(Dead, tx)
    BY DEF CapOK, Dead
  <2> QED
    BY <1>0, <1>4, <1>6, <2>1, OthersKeep
<1>FreshInv. FreshInv'
  <2>1. left' > 0 => left > 0
    BY <1>0, <1>3, <1>5 DEF left
  <2>2. \A t : ~Holds(Dead, t)
    BY DEF Holds, Held, Dead
  <2> QED
    BY <1>0, <1>4, <1>6, <2>1, <2>2, FreshFollows DEF Dead
<1>FillInv. FillInv'
  BY <1>2 DEF FillInv
<1>RefInv. RefInv'
  <2>1. SUFFICES ASSUME NEW t \in Ticket
                 PROVE  ref'[t] = ref[t] - One(Holds(cap[filling], t)) + One(Holds(Dead, t))
    BY <1>0, <1>4, <1>6, RefsFollow
  <2>2. ref'[t] = ref[t] - One(Holds(c, t))
    BY <1>2, <1>4, PutAllIs DEF Held
  <2>3. One(Holds(Dead, t)) = 0
    BY DEF One, Holds, Held, Dead
  <2>4. PICK v : v = One(Holds(c, t))
    OBVIOUS
  <2>5. v \in {0, 1} /\ ref[t] \in Int
    BY <2>4 DEF One, LbInv, TypeInv
  <2>6. ref[t] - v = ref[t] - v + 0
    BY <2>5
  <2> QED
    BY <1>1, <2>2, <2>3, <2>4, <2>6
<1> QED
  BY <1>same, <1>TypeInv, <1>ThreadInv, <1>PlaceInv, <1>CountInv, <1>CaptureInv,
     <1>FreshInv, <1>FillInv, <1>RefInv DEF LbInv
=============================================================================
