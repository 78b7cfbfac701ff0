--------------------------- MODULE ReceiverProofs ---------------------------
(***************************************************************************)
(* Theorems about Receiver, for every set of formats, tickets and          *)
(* subscribers: the receiver keeps to the producer's side of TicketBuffer, *)
(* so that every behaviour of it is one of the buffer, and the format it   *)
(* compares packets with is that of the tickets.                           *)
(*                                                                         *)
(* The receiver goes over to the new format even when the reset failed.    *)
(* That its format is the buffer's is therefore not an invariant; that it  *)
(* is the buffer's, or the buffer is invalid and no ticket in use, is.     *)
(***************************************************************************)
EXTENDS Receiver, TicketBufferProofs, WellFoundedInduction

-----------------------------------------------------------------------------
(* The receiver and the buffer.                                            *)

\* Both are still in the middle of a call of reset().
Resetting == {"opening", "resetting"}

\* A step of the receiver, of another thread or of the sender is a step of
\* TicketBuffer, or none.
LEMMA RxStepOfBuffer ==
  ASSUME newFormat \in Mode, [RxNext]_rvars
  PROVE  [Next]_vars
<1>1. CASE UNCHANGED rvars
  BY <1>1 DEF rvars
<1>2. CASE openSocket \/ loopHead \/ giveUp \/ formatChanged \/ finalize
             \/ doAbort \/ packetBurn \/ \E m \in Mode : switchMode(m)
  BY <1>2 DEF openSocket, resetDone, loopHead, giveUp, formatChanged, finalize, doAbort, packetBurn,
       switchMode
<1>3. CASE initialize \/ changeFormat
  <2>1. invalidate(GeomOf(newFormat)) /\ GeomOf(newFormat) \in Geom
    BY <1>3, FormatAssumption DEF initialize, changeFormat, doReset
  <2> QED
    BY <2>1 DEF reset, Next, ProducerCall
<1>4. CASE getTicket \/ recvNothing \/ abortReception
  BY <1>4 DEF getTicket, recvNothing, abortReception, Next, ProducerCall
<1>5. ASSUME NEW b \in Batch, receivePost(b) \/ receiveDrop(b) \/ receiveChange(b)
      PROVE  Next
  BY <1>5 DEF receivePost, receiveDrop, receiveChange, Next, ProducerCall
<1>6. CASE SubscriberNext \/ (BufferStep /\ UNCHANGED <<rxVars, envVars>>)
  BY <1>6 DEF SubscriberNext, Next
<1> QED
  BY <1>1, <1>2, <1>3, <1>4, <1>5, <1>6 DEF RxNext, RxStep, receive

-----------------------------------------------------------------------------
(* The vote.                                                               *)

\* A set of indices that is not empty has a greatest element.
LEMMA GreatestIndex ==
  ASSUME NEW n \in Nat, NEW T, T \subseteq 1..n, T # {}
  PROVE  \E x \in T : \A y \in T : y <= x
<1> DEFINE U == {n - i : i \in T}
<1>1. U \subseteq Nat
  <2>1. \A i \in 1..n : n - i \in Nat
    OBVIOUS
  <2> QED
    BY <2>1
<1>2. U # {}
  OBVIOUS
<1> HIDE DEF U
<1>3. PICK u \in U : \A v \in U : ~(<<v, u>> \in OpToRel(<, Nat))
  BY <1>1, <1>2, NatLessThanWellFounded, WFMin
<1>4. \A v \in U : ~(v < u)
  BY <1>1, <1>3 DEF OpToRel
<1>5. PICK x \in T : u = n - x
  BY DEF U
<1>6. ASSUME NEW y \in T PROVE y <= x
  <2>1. n - y \in U
    BY DEF U
  <2>2. ~(n - y < n - x) /\ x \in 1..n /\ y \in 1..n
    BY <1>4, <1>5, <2>1
  <2> QED
    BY <2>2
<1> QED
  BY <1>6

\* What a batch consists of.
LEMMA BatchIsPackets ==
  ASSUME NEW b \in Batch
  PROVE  /\ \E k \in Nat : DOMAIN b = 1..k
         /\ \A i \in DOMAIN b : b[i] \in {link, old, Oddball, Empty}
BY DEF Batch

\* The vote elects a family that has a packet, and the last packet of that
\* family names a format that exists.
LEMMA ElectedExists ==
  ASSUME link \in Mode, old \in Mode, NEW b \in Batch, Changes(b)
  PROVE  lastSeen(b, winner(b)) \in Mode
<1> DEFINE f == winner(b)
           V == votes(b, f)
<1>1. f \notin {NoMode, Empty}
  BY DEF Changes
<1>2. \E j \in DOMAIN Candidates : f = Candidates[j] /\ votes(b, Candidates[j]) # {}
  <2> DEFINE n(j) == IF Candidates[j] = Family(currentFormat) THEN 0
                       ELSE Cardinality(votes(b, Candidates[j]))
             J    == DOMAIN Candidates
             W    == {j \in J : n(j) > 0 /\ \A k \in J : /\ n(k) <= n(j)
                                                         /\ n(k) = n(j) => j <= k}
  <2>1. f = IF W = {} THEN NoMode ELSE Candidates[CHOOSE j \in W : TRUE]
    BY DEF winner
  <2>2. W # {}
    BY <1>1, <2>1
  <2> DEFINE j == CHOOSE i \in W : TRUE
  <2>3. j \in W /\ f = Candidates[j]
    BY <2>1, <2>2
  <2>4. n(j) > 0 /\ j \in J
    BY <2>3
  <2>5. n(j) = Cardinality(votes(b, Candidates[j]))
    BY <2>4
  <2>6. votes(b, Candidates[j]) # {}
    BY <2>4, <2>5, FS_EmptySet
  <2> QED
    BY <2>3, <2>4, <2>6
<1>3. V # {} /\ f \in {"TBS", "TBT", "COR", "DRX", "DRX8"}
  BY <1>1, <1>2 DEF Candidates
<1>4. PICK k \in Nat : V \subseteq 1..k
  BY BatchIsPackets DEF votes
<1>5. \E i \in V : \A j \in V : j <= i
  BY <1>3, <1>4, GreatestIndex
<1> DEFINE i == CHOOSE i \in V : \A j \in V : j <= i
<1>6. i \in V /\ lastSeen(b, f) = b[i]
  BY <1>5 DEF lastSeen
<1>7. i \in DOMAIN b /\ Family(b[i]) = f /\ b[i] \in {link, old, Oddball, Empty}
  BY <1>6, BatchIsPackets DEF votes
<1>8. Family(Oddball) = "oddball" /\ Family(Empty) = "empty"
  BY DEF Family, Oddball, Empty
<1>9. b[i] \in {link, old}
  <2>1. "oddball" \notin {"TBS", "TBT", "COR", "DRX", "DRX8"} /\ "empty" \notin {"TBS", "TBT", "COR", "DRX", "DRX8"}
    OBVIOUS
  <2> HIDE DEF i, f, V
  <2> QED
    BY <1>3, <1>7, <1>8, <2>1
<1> QED
  BY <1>6, <1>9

-----------------------------------------------------------------------------
(* The receiver's place in run() and the buffer's.                         *)

RxPlace ==
  /\ rx \in {"new", "ticket", "reset", "abort", "final"} => phase = "idle"
  /\ rx = "recv" => phase = "filling"
  /\ rx = "loop" => phase \in {"idle", "deliver"}
  /\ rx = "opening" => phase \in {"idle", "alloc", "resize", "notify"}
  /\ rx = "resetting" => phase \in {"idle", "flush", "wait", "alloc", "resize", "notify"}
  /\ rx = "uninit" => phase \in {"flush", "wait", "free", "dead"} /\ target = NoGeom
  /\ rx = "done" => phase \in {"idle", "dead"}
  /\ rx \in Resetting /\ phase # "idle" => target = GeomOf(newFormat)

\* The format is the buffer's, or the buffer is invalid and nothing of it in
\* use.  A reset that has come to its end has made the new one the buffer's,
\* or left the buffer invalid.
RxGeometry ==
  /\ rx \in {"new", "opening"} => currentFormat = newFormat
  /\ rx = "new" => invalid
  /\ rx \in Resetting =>
       /\ phase = "notify" => geom = GeomOf(newFormat)
       /\ phase = "idle" => invalid \/ geom = GeomOf(newFormat)
  /\ rx \notin Resetting => geom = GeomOf(currentFormat) \/ (invalid /\ phase # "wait")

RxInv == RxTypeOK /\ RxPlace /\ RxGeometry

\* The receiver's own types.
LEMMA RxTypeNext ==
  ASSUME RxTypeOK, RxPlace, RxNext
  PROVE  /\ rx' \in {"new", "opening", "loop", "ticket", "recv", "reset", "resetting",
                     "abort", "uninit", "final", "done"}
         /\ {currentFormat', newFormat', link', old'} \subseteq Mode
         /\ {interrupted', externallyClosed'} \subseteq BOOLEAN
         /\ switches' \in 0..MaxSwitch
<1> USE DEF RxTypeOK
<1>1. CASE initialize \/ changeFormat \/ abortReception \/ getTicket \/ recvNothing
  BY <1>1 DEF initialize, changeFormat, doReset, abortReception, getTicket, recvNothing, envVars
<1>2. CASE openSocket \/ formatChanged
  BY <1>2 DEF openSocket, formatChanged, resetDone, envVars
<1>3. CASE loopHead \/ giveUp \/ finalize
  BY <1>3 DEF loopHead, giveUp, finalize, envVars
<1>4. CASE doAbort \/ packetBurn
  <2>1. {interrupted', externallyClosed'} \subseteq BOOLEAN
    BY <1>4, Zenon DEF doAbort, packetBurn
  <2> QED
    BY <1>4, <2>1 DEF doAbort, packetBurn, rxVars
<1>5. CASE \E m \in Mode : switchMode(m)
  <2>1. switches' \in 0..MaxSwitch
    BY <1>5, FormatAssumption DEF switchMode
  <2> QED
    BY <1>5, <2>1 DEF switchMode, rxVars
<1>6. CASE SubscriberNext \/ (BufferStep /\ UNCHANGED <<rxVars, envVars>>)
  BY <1>6 DEF SubscriberNext, rxVars, envVars
<1>7. ASSUME rx = "recv", NEW b \in Batch, receivePost(b) \/ receiveDrop(b) \/ receiveChange(b)
      PROVE  /\ rx' \in {"loop", "reset"} /\ old' \in Mode /\ newFormat' \in Mode
             /\ UNCHANGED <<currentFormat, interrupted, externallyClosed, link, switches>>
  <2>1. /\ rx' \in {"loop", "reset"} /\ old' \in Mode
        /\ UNCHANGED <<currentFormat, interrupted, externallyClosed, link, switches>>
    BY <1>7 DEF receivePost, receiveDrop, receiveChange, Arrived
  <2>2. newFormat' \in Mode
    <3>1. CASE receiveChange(b)
      BY <3>1, ElectedExists DEF receiveChange
    <3> QED
      BY <1>7, <3>1 DEF receivePost, receiveDrop
  <2> QED
    BY <2>1, <2>2
<1>8. CASE receive(Batch)
  <2>1. /\ rx' \in {"loop", "reset"} /\ old' \in Mode /\ newFormat' \in Mode
        /\ UNCHANGED <<currentFormat, interrupted, externallyClosed, link, switches>>
    BY <1>7, <1>8 DEF receive
  <2> QED
    BY <2>1
<1> QED
  BY <1>1, <1>2, <1>3, <1>4, <1>5, <1>6, <1>8 DEF RxNext, RxStep

\* What the buffer's code does between a call and its return.
BufferMove ==
  /\ target' = target
  /\ \/ phase \in {"deliver", "flush", "resize"} /\ UNCHANGED <<phase, geom, invalid>>
     \/ phase = "deliver" /\ phase' = "idle" /\ UNCHANGED <<geom, invalid>>
     \/ phase = "flush" /\ phase' = "wait" /\ invalid' /\ UNCHANGED geom
     \/ phase = "wait" /\ phase' = (IF target = NoGeom THEN "free" ELSE "alloc") /\ UNCHANGED <<geom, invalid>>
     \/ phase = "alloc" /\ phase' \in {"resize", "idle"} /\ UNCHANGED <<geom, invalid>>
     \/ phase = "resize" /\ phase' = "notify" /\ geom' = target /\ UNCHANGED invalid
     \/ phase = "notify" /\ phase' = "idle" /\ ~invalid' /\ UNCHANGED geom
     \/ phase = "free" /\ phase' = "dead" /\ UNCHANGED <<geom, invalid>>

\* What a step of the buffer does to its phase and geometry.
LEMMA BufferMoves ==
  ASSUME BufferStep
  PROVE  BufferMove
<1>1. CASE onTicketAvailable \/ flushLock \/ flushPut
  BY <1>1 DEF onTicketAvailable, flushLock, flushPut, BufferMove, bufVars, prodVars
<1>2. CASE flushNext \/ invalidateDone \/ allocate
  BY <1>2 DEF flushNext, invalidateDone, allocate, BufferMove, bufVars
<1>3. CASE createTicket \/ destroyTicket
  BY <1>3 DEF createTicket, destroyTicket, BufferMove, prodVars
<1>4. CASE initTickets \/ notifyGeometry \/ freeResources
  BY <1>4 DEF initTickets, notifyGeometry, freeResources, BufferMove
<1> QED
  BY <1>1, <1>2, <1>3, <1>4 DEF BufferStep

\* A step of the buffer's code keeps the two in agreement ...
LEMMA RxBuffer ==
  ASSUME RxTypeOK, RxPlace, RxGeometry, Calm, BufferStep, UNCHANGED rxVars
  PROVE  RxPlace' /\ RxGeometry' /\ phase # "filling" /\ phase' # "filling"
<1>1. BufferMove
  BY BufferMoves
<1>2. GeomOf(newFormat) \in Geom /\ GeomOf(newFormat) # NoGeom
  BY FormatAssumption, GeomAssumption DEF RxTypeOK
<1>3. UNCHANGED <<rx, currentFormat, newFormat>> /\ GeomOf(newFormat)' = GeomOf(newFormat)
      /\ GeomOf(currentFormat)' = GeomOf(currentFormat)
  BY DEF rxVars, GeomOf
<1> HIDE DEF GeomOf
<1>4. RxPlace' /\ phase # "filling" /\ phase' # "filling"
  BY <1>1, <1>2, <1>3 DEF BufferMove, RxPlace, RxTypeOK, Resetting
<1>5. RxGeometry'
  BY <1>1, <1>2, <1>3 DEF BufferMove, RxPlace, RxGeometry, RxTypeOK, Resetting, Calm
<1> QED
  BY <1>4, <1>5

\* ... and so does every step of the receiver and of anybody else.
LEMMA RxPlaceNext ==
  ASSUME RxTypeOK, RxPlace, RxGeometry, Calm, RxNext
  PROVE  RxPlace' /\ RxGeometry' /\ (rx' = "recv" <=> phase' = "filling")
<1>0. GeomOf(newFormat) \in Geom /\ GeomOf(newFormat) # NoGeom
  BY FormatAssumption, GeomAssumption DEF RxTypeOK
<1>1. CASE BufferStep /\ UNCHANGED <<rxVars, envVars>>
  <2>1. UNCHANGED rxVars
    BY <1>1
  <2>2. RxPlace' /\ RxGeometry' /\ phase # "filling" /\ phase' # "filling"
    BY <1>1, <2>1, RxBuffer
  <2> QED
    BY <2>1, <2>2 DEF rxVars, RxTypeOK
<1>2. ASSUME UNCHANGED <<rx, currentFormat, newFormat, phase, geom, invalid, target>>
      PROVE  RxPlace' /\ RxGeometry' /\ (rx' = "recv" <=> phase' = "filling")
  BY <1>2 DEF RxPlace, RxGeometry, RxTypeOK, Resetting, GeomOf
<1>3. CASE doAbort \/ packetBurn \/ SubscriberNext \/ \E m \in Mode : switchMode(m)
  <2>1. CASE doAbort \/ packetBurn \/ \E m \in Mode : switchMode(m)
    BY <1>2, <2>1 DEF doAbort, packetBurn, switchMode, rxVars, vars, bufVars, prodVars
  <2>2. CASE SubscriberNext
    <3>1. UNCHANGED <<phase, geom, invalid, target>>
      BY <2>2 DEF SubscriberNext, subscribe, SubscriberStep, leaveLoop, reGet, putKept, getNext,
           onTicketReceived, drainPut, drainDone, unsubscribe, bufVars, prodVars
    <3>2. UNCHANGED <<rx, currentFormat, newFormat>>
      BY <2>2 DEF SubscriberNext, rxVars
    <3> QED
      BY <1>2, <3>1, <3>2
  <2> QED
    BY <1>3, <2>1, <2>2
<1>4. CASE initialize \/ changeFormat
  <2>1. /\ UNCHANGED <<currentFormat, newFormat, geom>> /\ phase = "idle"
        /\ target' = GeomOf(newFormat)
        /\ \/ rx = "new" /\ rx' = "opening"
           \/ rx = "reset" /\ rx' = "resetting"
        /\ \/ invalid /\ phase' = "alloc" /\ invalid' = invalid
           \/ ~invalid /\ phase' = "wait"
           \/ ~invalid /\ phase' = "flush"
    BY <1>0, <1>4 DEF initialize, changeFormat, doReset, At, invalidate
  <2>2. GeomOf(newFormat)' = GeomOf(newFormat)
    BY <2>1 DEF GeomOf
  <2> HIDE DEF GeomOf
  <2> QED
    BY <2>1, <2>2 DEF RxPlace, RxGeometry, Resetting
<1>5. CASE openSocket \/ formatChanged
  <2>1. /\ phase = "idle" /\ currentFormat' = newFormat /\ newFormat' = newFormat
        /\ UNCHANGED <<phase, geom, invalid, target>>
        /\ rx \in Resetting /\ rx' \in {"loop", "abort"}
    BY <1>5 DEF openSocket, formatChanged, resetDone, At, vars, bufVars, prodVars, Resetting
  <2>2. GeomOf(newFormat)' = GeomOf(newFormat) /\ GeomOf(currentFormat)' = GeomOf(newFormat)
    BY <2>1 DEF GeomOf
  <2> HIDE DEF GeomOf
  <2> QED
    BY <2>1, <2>2 DEF RxPlace, RxGeometry, Resetting
<1>6. CASE loopHead \/ giveUp \/ finalize
  <2>1. /\ UNCHANGED <<currentFormat, newFormat, phase, geom, invalid, target>>
        /\ \/ rx \in {"loop", "ticket", "final"} /\ phase = "idle"
           \/ rx = "uninit" /\ phase = "dead"
        /\ rx = "loop" => rx' \in {"final", "ticket"}
        /\ rx = "ticket" => rx' = "abort"
        /\ rx \in {"final", "uninit"} => rx' = "done"
        /\ rx' \in {"final", "ticket", "abort", "done"}
    BY <1>6 DEF loopHead, giveUp, finalize, At, vars, bufVars, prodVars
  <2>2. GeomOf(newFormat)' = GeomOf(newFormat) /\ GeomOf(currentFormat)' = GeomOf(currentFormat)
    BY <2>1 DEF GeomOf
  <2> HIDE DEF GeomOf
  <2> QED
    BY <2>1, <2>2 DEF RxPlace, RxGeometry, Resetting
<1>7. CASE getTicket \/ recvNothing \/ receive(Batch)
  <2>1. /\ UNCHANGED <<currentFormat, geom, invalid, target>>
        /\ \/ /\ rx = "ticket" /\ rx' = "recv" /\ phase' = "filling"
              /\ newFormat' = newFormat
           \/ /\ rx = "recv" /\ rx' \in {"loop", "abort"} /\ phase' = "idle" /\ newFormat' = newFormat
           \/ /\ rx = "recv" /\ rx' = "loop" /\ phase' \in {"idle", "deliver"} /\ newFormat' = newFormat
           \/ /\ rx = "recv" /\ rx' = "reset" /\ phase' = "idle"
    <3>1. CASE getTicket
      BY <3>1 DEF getTicket, nextFreeTicket
    <3>2. CASE recvNothing
      BY <3>2 DEF recvNothing, returnEmpty
    <3>3. CASE receive(Batch)
      BY <3>3 DEF receive, receivePost, receiveDrop, receiveChange, notifyFill, returnEmpty
    <3> QED
      BY <1>7, <3>1, <3>2, <3>3
  <2>2. GeomOf(currentFormat)' = GeomOf(currentFormat)
    BY <2>1 DEF GeomOf
  <2>3. geom = GeomOf(currentFormat) \/ (invalid /\ rx = "ticket")
    BY <2>1 DEF RxGeometry, RxPlace, Resetting, Calm
  <2>4. rx = "ticket" => ~invalid
    BY <1>7 DEF getTicket, nextFreeTicket, recvNothing, receive
  <2> HIDE DEF GeomOf
  <2> QED
    BY <2>1, <2>2, <2>3, <2>4 DEF RxPlace, RxGeometry, Resetting
<1>8. CASE abortReception
  <2>1. /\ UNCHANGED <<currentFormat, newFormat, geom>> /\ phase = "idle"
        /\ target' = NoGeom /\ rx = "abort" /\ rx' = "uninit"
        /\ \/ invalid /\ phase' = "free" /\ invalid' = invalid
           \/ ~invalid /\ phase' = "wait"
           \/ ~invalid /\ phase' = "flush"
    BY <1>8 DEF abortReception, uninit, At, invalidate
  <2>2. GeomOf(currentFormat)' = GeomOf(currentFormat)
    BY <2>1 DEF GeomOf
  <2> HIDE DEF GeomOf
  <2> QED
    BY <2>1, <2>2 DEF RxPlace, RxGeometry, Resetting
<1> QED
  BY <1>1, <1>3, <1>4, <1>5, <1>6, <1>7, <1>8 DEF RxNext, RxStep

\* Every step of the receiver keeps its invariant.
LEMMA RxInvNext ==
  ASSUME RxInv, Calm, [RxNext]_rvars
  PROVE  RxInv'
<1>1. CASE RxNext
  <2>1. RxTypeOK /\ RxPlace /\ RxGeometry
    BY DEF RxInv
  <2>2. RxTypeOK'
    BY <1>1, <2>1, RxTypeNext, RxPlaceNext DEF RxTypeOK
  <2> QED
    BY <1>1, <2>1, <2>2, RxPlaceNext DEF RxInv
<1>2. CASE UNCHANGED rvars
  BY <1>2 DEF rvars, vars, bufVars, prodVars, rxVars, envVars, RxInv, RxTypeOK, RxPlace, RxGeometry,
       Resetting, GeomOf
<1> QED
  BY <1>1, <1>2

\* The initial states.
LEMMA RxInitInv == RxInit => Init /\ RxInv
<1> SUFFICES ASSUME RxInit PROVE RxInv
  BY DEF RxInit
<1>1. {interrupted, externallyClosed} \subseteq BOOLEAN
  BY Zenon DEF RxInit
<1>2. switches \in 0..MaxSwitch
  BY FormatAssumption DEF RxInit
<1>3. RxTypeOK
  BY <1>1, <1>2, FormatAssumption DEF RxInit, Init, RxTypeOK
<1>4. phase = "idle" /\ invalid = TRUE /\ rx = "new" /\ currentFormat = newFormat
  BY DEF RxInit, Init
<1> QED
  BY <1>3, <1>4 DEF RxInv, RxPlace, RxGeometry, Resetting

\* The receiver takes part in TicketBuffer as its producer: it fills, posts or
\* returns one ticket at a time and makes no call of the buffer before the
\* last one has returned.
THEOREM ReceiverRefinesBuffer == RxSpec => Spec /\ []RxInv
<1>1. RxInit => Init /\ RxInv
  BY RxInitInv
<1>2. RxInv /\ [RxNext]_rvars => [Next]_vars
  BY RxStepOfBuffer DEF RxInv, RxTypeOK
<1>3. RxInv /\ Calm /\ [RxNext]_rvars => RxInv'
  BY RxInvNext
<1>4. TypeOK /\ ListInv /\ RefInv /\ [Next]_vars => (TypeOK /\ ListInv /\ RefInv)'
  BY TypeNext, ListNext, RefNext
<1>5. Init => TypeOK /\ ListInv /\ RefInv
  BY TypeInit, ListInit, RefInit
<1>6. RefInv => Calm
  BY DEF RefInv
<1> QED
  BY <1>1, <1>2, <1>3, <1>4, <1>5, <1>6, PTL DEF RxSpec, Spec

\* The receiver's state is consistent, and it never compares the packets of a
\* ticket with another size than the ticket's: currentFormat, which only the
\* receiver has, and the geometry of every ticket that is filled or in use
\* agree, resets that failed included.
THEOREM FormatSoundAlways == RxSpec => []FormatSound
<1>1. TypeOK /\ RefInv /\ GeomInv /\ RxInv => FormatSound
  <2> SUFFICES ASSUME TypeOK, RefInv, GeomInv, RxInv PROVE FormatIsGeometry
    BY DEF FormatSound, RxInv
  <2>1. ASSUME rx = "recv" PROVE fmt[held] = GeomOf(currentFormat)
    <3>1. phase = "filling" /\ ~invalid /\ held \in Ticket
      BY <2>1 DEF RxInv, RxPlace, RefInv, Calm, TypeOK, ProducerType
    <3>2. held \in live
      BY <3>1 DEF RefInv, Pooled, Placed, Filling
    <3>3. geom = GeomOf(currentFormat)
      BY <2>1, <3>1 DEF RxInv, RxGeometry, Resetting
    <3> QED
      BY <3>1, <3>2, <3>3 DEF GeomInv
  <2>2. ASSUME NEW t \in Ticket, refCnt[t] > 0, rx # "resetting"
        PROVE  fmt[t] = GeomOf(currentFormat)
    <3>1. ~Quiet /\ t \in live
      BY <2>2 DEF Quiet, RefInv, Pooled, Placed
    <3>2. ~(invalid /\ phase # "wait") /\ phase # "resize"
      BY <3>1 DEF RefInv, Calm
    <3>3. geom = GeomOf(currentFormat)
      <4>1. CASE rx = "opening"
        <5>1. phase = "idle"
          BY <3>2, <4>1 DEF RxInv, RxPlace, RefInv, Calm
        <5>2. GeomOf(newFormat) = GeomOf(currentFormat)
          BY <4>1 DEF RxInv, RxGeometry
        <5> QED
          BY <3>2, <4>1, <5>1, <5>2 DEF RxInv, RxGeometry, Resetting
      <4>2. CASE rx # "opening"
        BY <2>2, <3>2, <4>2 DEF RxInv, RxGeometry, Resetting
      <4> QED
        BY <4>1, <4>2
    <3> QED
      BY <3>1, <3>2, <3>3 DEF GeomInv
  <2> QED
    BY <2>1, <2>2 DEF FormatIsGeometry
<1> QED
  BY <1>1, ReceiverRefinesBuffer, Invariance, GeomInvariant, PTL
=============================================================================
