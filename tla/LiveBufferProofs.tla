-------------------------- MODULE LiveBufferProofs --------------------------
(***************************************************************************)
(* Captures and their references, for any number of tickets and captures   *)
(* and any commands: the steps between captures, those of the transmitter  *)
(* and the end preserve the invariant, and what follows from it.           *)
(***************************************************************************)
EXTENDS LiveBufferSteps


-----------------------------------------------------------------------------
(* Between captures.                                                       *)

LEMMA NoFilling ==
  ASSUME LbInv, Alive, filling = None
  PROVE  \A c \in Capture : cap[c].state # "filling"
  BY LiveBufferAssumption DEF LbInv, PlaceInv, Placed, Alive

\* Where a capture is acquired there is none.
LEMMA AcquiringIs ==
  ASSUME LbInv, pc \in Acquiring
  PROVE  /\ ~capturing /\ filling = None /\ Alive /\ cur \in TicketSet
         /\ \A c \in Capture : Placed(c) /\ cap[c].state # "filling"
         /\ cur.cnt \in Nat
         /\ use["capture"].N0 \in Nat \ {0} /\ use["capture"].N \in Nat
         /\ use["buffer"].max \in 0 .. Cardinality(Capture)
<1>1. ~capturing /\ filling = None /\ Alive /\ cur \in TicketSet /\ use["capture"].N0 # 0
  BY DEF LbInv, ThreadInv, Acquiring, Alive
<1>2. \A c \in Capture : Placed(c) /\ cap[c].state # "filling"
  BY <1>1, NoFilling DEF LbInv, PlaceInv, Alive
<1>3. use["capture"] \in Rule /\ use["buffer"] \in [max : 0 .. Cardinality(Capture), chunks : Nat]
  BY DEF LbInv, ConfInv, ConfSet
<1> QED
  BY <1>1, <1>2, <1>3 DEF Rule, TicketSet

\* The frames between two captures are dropped.
LEMMA DropKeeps ==
  ASSUME LbInv, drop
  PROVE  LbInv'
<1>0. UNCHANGED <<conf, changed, use, todo, pc, stopping, cur, filling,
                 count_cap_buffs, cap, free, full, tx, sending, running, queue,
                 ref, resetting, fsize, delivered, commands>>
  BY DEF drop, config, trigger, pool, thread, sender, stream
<1>1. /\ Looping /\ capturing /\ filling = None /\ pc = "loop" /\ cur.cnt \in Nat
      /\ ofs \in Nat /\ left = cur.cnt - ofs /\ left > 0
      /\ use["capture"].N \in Nat /\ n \in Nat /\ n <= use["capture"].N
  <2>1. Looping /\ capturing /\ filling = None /\ pc = "loop" /\ cur \in TicketSet
    BY DEF drop, Looping, LbInv, ThreadInv
  <2>2. use["capture"] \in Rule /\ n <= use["capture"].N /\ n \in Nat /\ ofs \in Nat
    BY <2>1 DEF LbInv, ThreadInv, TypeInv, ConfInv, ConfSet
  <2> QED
    BY <2>1, <2>2 DEF Rule, TicketSet, Looping, left
<1>2. PICK k : k = IF use["capture"].N - n < left THEN use["capture"].N - n ELSE left
  OBVIOUS
<1>3. ofs' \in Nat /\ ofs' <= cur.cnt
  <2>1. k \in Nat /\ k <= left
    BY <1>1, <1>2
  <2>2. ofs' = ofs + k
    BY <1>2 DEF drop
  <2> QED
    BY <1>1, <2>1, <2>2
<1>4. /\ trg' \in {0, 1} /\ chk' \in {0, 1} /\ n' \in Nat
      /\ serv_trg' => trg' = 1 /\ chk' = 1
      /\ capturing' => n' <= use["capture"].N
  <2>1. CASE reset_capture
    <3>1. reset_trigger /\ n' = 0 /\ capturing' = FALSE
      BY <2>1 DEF reset_capture
    <3> QED
      BY <3>1, ResetTriggerIs
  <2>2. CASE n' = n + k /\ UNCHANGED <<serv_trg, capturing, trigger>>
    <3>1. k \in Nat /\ k <= use["capture"].N - n
      BY <1>1, <1>2
    <3>2. n' \in Nat /\ n' <= use["capture"].N
      BY <1>1, <2>2, <3>1
    <3> QED
      BY <2>2, <3>2 DEF trigger, LbInv, TypeInv, ThreadInv
  <2>3. reset_capture \/ (n' = n + k /\ UNCHANGED <<serv_trg, capturing, trigger>>)
    <3>1. CASE n + k = use["capture"].N
      <4>1. reset_capture
        BY <1>2, <3>1 DEF drop
      <4> QED
        BY <4>1
    <3>2. CASE n + k # use["capture"].N
      <4>1. n' = n + k /\ UNCHANGED <<serv_trg, capturing, trigger>>
        BY <1>2, <3>2 DEF drop
      <4> QED
        BY <4>1
    <3> QED
      BY <3>1, <3>2
  <2> QED
    BY <2>1, <2>2, <2>3
<1>same. ConfInv' /\ PlaceInv' /\ CountInv' /\ CaptureInv' /\ OrderInv'
         /\ RefInv'
  BY <1>0, ConfSame, PlaceSame, CountSame, CaptureSame, OrderSame, RefSame
<1>TypeInv. TypeInv'
  BY <1>0, <1>3, <1>4 DEF LbInv, TypeInv
<1>ThreadInv. ThreadInv'
  BY <1>0, <1>1, <1>3, <1>4 DEF LbInv, ThreadInv
<1>FreshInv. FreshInv'
  BY <1>0, <1>1, NoFilling DEF LbInv, FreshInv, Alive
<1>FillInv. FillInv'
  BY <1>0, <1>1 DEF FillInv
<1> QED
  BY <1>same, <1>TypeInv, <1>ThreadInv, <1>FreshInv, <1>FillInv DEF LbInv

\* The new configuration is taken over, and must be valid.
LEMMA Check_configKeeps ==
  ASSUME LbInv, check_config
  PROVE  LbInv'
<1>0. UNCHANGED <<conf, todo, trg, chk, serv_trg, stopping, cur, n, capturing,
                 filling, count_cap_buffs, cap, free, full, tx, sending,
                 running, queue, ref, resetting, fsize, delivered, commands>>
  BY DEF check_config, config, trigger, pool, thread, sender, stream
<1>1. /\ pc = "loop" /\ ~capturing /\ filling = None /\ cur \in TicketSet /\ cur.cnt \in Nat
      /\ ofs \in Nat /\ ofs <= cur.cnt
  BY DEF check_config, Looping, LbInv, ThreadInv, TypeInv, TicketSet
<1>2. /\ use' = conf \/ use' = use
      /\ \/ pc' = "trigger" /\ ofs' = ofs /\ use'["capture"].N0 # 0
         \/ pc' = "loop" /\ ofs' = cur.cnt
  BY <1>1 DEF check_config, read_config, is_current_config_valid
<1>same. CaptureInv' /\ OrderInv' /\ RefInv'
  BY <1>0, CaptureSame, OrderSame, RefSame
<1>ConfInv. ConfInv'
  BY <1>0, <1>2 DEF LbInv, ConfInv
<1>TypeInv. TypeInv'
  BY <1>0, <1>1, <1>2 DEF LbInv, TypeInv
<1>ThreadInv. ThreadInv'
  BY <1>0, <1>1, <1>2 DEF LbInv, ThreadInv, Acquiring
<1>PlaceInv. PlaceInv'
  BY <1>0, <1>1, <1>2 DEF LbInv, PlaceInv, Placed
<1>CountInv. CountInv'
  BY <1>0, <1>1, <1>2 DEF LbInv, CountInv, Live
<1>FreshInv. FreshInv'
  BY <1>0, <1>1, NoFilling DEF LbInv, FreshInv, Alive
<1>FillInv. FillInv'
  BY <1>0, <1>1 DEF FillInv
<1> QED
  BY <1>same, <1>ConfInv, <1>TypeInv, <1>ThreadInv, <1>PlaceInv, <1>CountInv,
     <1>FreshInv, <1>FillInv DEF LbInv

\* A capture is due when it is triggered or the rule says so.
LEMMA Check_triggerKeeps ==
  ASSUME LbInv, check_trigger
  PROVE  LbInv'
<1>0. UNCHANGED <<conf, changed, use, todo, trg, stopping, cur, n, capturing, filling,
                 count_cap_buffs, cap, free, full, tx, sending, running, queue,
                 ref, resetting, fsize, delivered, commands>>
  BY DEF check_trigger, config, trigger, pool, thread, sender, stream
<1>1. /\ pc = "trigger" /\ filling = None /\ ~capturing /\ cur \in TicketSet /\ cur.cnt \in Nat
      /\ Alive /\ \A c \in Capture : cap[c].state # "filling"
  BY AcquiringIs DEF check_trigger, Acquiring
<1>2. /\ chk' \in {0, 1} /\ (serv_trg' => trg = 1 /\ chk' = 1)
      /\ pc' \in {"clean", "loop"} /\ ofs' \in {ofs, cur.cnt}
  <2>1. trg \in {0, 1} /\ chk \in {0, 1}
    BY DEF LbInv, TypeInv
  <2>2. chk' = (IF trg # 0 THEN 1 ELSE chk) /\ serv_trg' = (trg # 0 /\ chk = 0)
    BY DEF check_trigger, checked
  <2>3. pc' \in {"clean", "loop"} /\ ofs' \in {ofs, cur.cnt}
    BY DEF check_trigger
  <2> QED
    BY <2>1, <2>2, <2>3
<1>same. ConfInv' /\ CaptureInv' /\ OrderInv' /\ RefInv'
  BY <1>0, ConfSame, CaptureSame, OrderSame, RefSame
<1>TypeInv. TypeInv'
  BY <1>0, <1>1, <1>2 DEF LbInv, TypeInv
<1>ThreadInv. ThreadInv'
  BY <1>0, <1>1, <1>2 DEF LbInv, ThreadInv, Acquiring, TypeInv
<1>PlaceInv. PlaceInv'
  BY <1>0, <1>1, <1>2 DEF LbInv, PlaceInv, Placed, Alive
<1>CountInv. CountInv'
  BY <1>0, <1>1, <1>2 DEF LbInv, CountInv, Live, Alive
<1>FreshInv. FreshInv'
  BY <1>0, <1>1 DEF LbInv, FreshInv
<1>FillInv. FillInv'
  BY <1>0, <1>1 DEF FillInv
<1> QED
  BY <1>same, <1>TypeInv, <1>ThreadInv, <1>PlaceInv, <1>CountInv, <1>FreshInv,
     <1>FillInv DEF LbInv

\* There is no capture to be had: the ticket is skipped.
LEMMA NoBufferKeeps ==
  ASSUME LbInv, noBuffer
  PROVE  LbInv'
<1>0. UNCHANGED <<conf, changed, use, todo, stopping, cur, n, capturing, filling,
                 count_cap_buffs, cap, free, full, tx, sending, running, queue,
                 ref, resetting, fsize, delivered, commands>>
  BY DEF noBuffer, config, trigger, pool, thread, sender, stream
<1>1. /\ pc = "more" /\ filling = None /\ ~capturing /\ cur \in TicketSet /\ cur.cnt \in Nat
      /\ Alive /\ \A c \in Capture : cap[c].state # "filling"
  BY AcquiringIs DEF noBuffer, Acquiring
<1>2. /\ trg' \in {0, 1} /\ chk' \in {0, 1} /\ serv_trg' = FALSE
      /\ pc' = "loop" /\ ofs' = cur.cnt
  BY ResetTriggerIs DEF noBuffer
<1>same. ConfInv' /\ CaptureInv' /\ OrderInv' /\ RefInv'
  BY <1>0, ConfSame, CaptureSame, OrderSame, RefSame
<1>TypeInv. TypeInv'
  BY <1>0, <1>1, <1>2 DEF LbInv, TypeInv
<1>ThreadInv. ThreadInv'
  BY <1>0, <1>1, <1>2 DEF LbInv, ThreadInv, Acquiring
<1>PlaceInv. PlaceInv'
  BY <1>0, <1>1, <1>2 DEF LbInv, PlaceInv, Placed, Alive
<1>CountInv. CountInv'
  BY <1>0, <1>1, <1>2 DEF LbInv, CountInv, Live, Alive
<1>FreshInv. FreshInv'
  BY <1>0, <1>1 DEF LbInv, FreshInv
<1>FillInv. FillInv'
  BY <1>0, <1>1 DEF FillInv
<1> QED
  BY <1>same, <1>TypeInv, <1>ThreadInv, <1>PlaceInv, <1>CountInv, <1>FreshInv,
     <1>FillInv DEF LbInv

\* A capture that nothing refers to leaves or comes.
LEMMA CountLess ==
  ASSUME LbInv, Alive, NEW x \in Live, Live' = Live \ {x},
         count_cap_buffs' = count_cap_buffs - 1
  PROVE  CountInv'
<1>1. Live \in SUBSET Capture
  BY DEF Live
<1>2. IsFiniteSet(Live) /\ Cardinality(Live) \in Nat
  BY <1>1, LiveBufferAssumption, FS_Subset, FS_CardinalityType
<1>3. Cardinality(Live') = Cardinality(Live) - 1
  BY <1>2, FS_RemoveElement
<1>4. count_cap_buffs >= Cardinality(Live) /\ count_cap_buffs \in Int
  BY DEF LbInv, CountInv, TypeInv, Alive
<1>5. count_cap_buffs' >= Cardinality(Live')
  BY <1>2, <1>3, <1>4
<1> QED
  BY <1>5 DEF CountInv

LEMMA CountMore ==
  ASSUME LbInv, Alive, NEW x, x \notin Live, Live' = Live \cup {x},
         count_cap_buffs' = count_cap_buffs + 1
  PROVE  CountInv'
<1>1. Live \in SUBSET Capture
  BY DEF Live
<1>2. IsFiniteSet(Live) /\ Cardinality(Live) \in Nat
  BY <1>1, LiveBufferAssumption, FS_Subset, FS_CardinalityType
<1>3. Cardinality(Live') = Cardinality(Live) + 1
  BY <1>2, FS_AddElement
<1>4. count_cap_buffs >= Cardinality(Live) /\ count_cap_buffs \in Int
  BY DEF LbInv, CountInv, TypeInv, Alive
<1>5. count_cap_buffs' >= Cardinality(Live')
  BY <1>2, <1>3, <1>4
<1> QED
  BY <1>5 DEF CountInv

LEMMA RefsStay ==
  ASSUME LbInv, NEW x \in Capture, queue' = queue, cur' = cur, ref' = ref,
         \A c \in Capture : c # x => cap'[c] = cap[c],
         \A t \in Ticket : Holds(cap'[x], t) <=> Holds(cap[x], t)
  PROVE  RefInv'
<1>1. SUFFICES ASSUME NEW t \in Ticket
               PROVE  ref'[t] = ref[t] - One(Holds(cap[x], t)) + One(Holds(cap'[x], t))
  BY RefsFollow
<1>2. PICK v, w : v = One(Holds(cap[x], t)) /\ w = One(Holds(cap'[x], t))
  OBVIOUS
<1>3. v \in {0, 1} /\ w = v /\ ref[t] \in Int
  BY <1>2 DEF One, LbInv, TypeInv
<1>4. ref[t] = ref[t] - v + w
  BY <1>3
<1> QED
  BY <1>2, <1>4

\* A free capture is deleted, while fewer than the limit exist.
LEMMA CleanupKeeps ==
  ASSUME LbInv, cleanup
  PROVE  LbInv'
<1>0. UNCHANGED <<conf, changed, use, todo, trg, chk, serv_trg, stopping, cur, ofs, n,
                 capturing, filling, full, tx, sending, running, queue, ref,
                 resetting, fsize, delivered, commands>>
  BY DEF cleanup, config, trigger, pool, thread, sender, stream
<1> DEFINE Keeps == pc' = "take" /\ free' = free /\ cap' = cap
                     /\ count_cap_buffs' = count_cap_buffs
           Deletes(x) == /\ free # <<>> /\ free' = Tail(free) /\ pc' = pc
                         /\ cap' = [cap EXCEPT ![x] = Dead]
                         /\ count_cap_buffs' = count_cap_buffs - 1
<1>1. /\ pc = "clean" /\ filling = None /\ Alive
      /\ \A c \in Capture : Placed(c) /\ cap[c].state # "filling"
  BY AcquiringIs DEF cleanup, Acquiring
<1>2. ASSUME free # <<>>
      PROVE  /\ Head(free) \in Capture /\ cap[Head(free)].state = "free"
             /\ Tail(free) \in Seq(Capture) /\ IsInjective(Tail(free))
             /\ ToSet(Tail(free)) = ToSet(free) \ {Head(free)}
  <2>1. free \in Seq(Capture) /\ IsInjective(free)
    BY DEF LbInv, TypeInv, PlaceInv
  <2>2. /\ Head(free) \in Capture /\ Head(free) \in ToSet(free)
        /\ Tail(free) \in Seq(Capture) /\ IsInjective(Tail(free))
        /\ ToSet(Tail(free)) = ToSet(free) \ {Head(free)}
    BY <1>2, <2>1, TailOf
  <2> QED
    BY <1>1, <2>2 DEF Placed
<1>3. ASSUME NEW x \in Capture, cap' = [cap EXCEPT ![x] = Dead]
      PROVE  /\ cap' \in [Capture -> CapSet] /\ cap'[x] = Dead
             /\ \A c \in Capture : c # x => cap'[c] = cap[c]
  <2>1. <<>> \in Seq(ChunkSet)
    OBVIOUS
  <2>2. Dead \in CapSet
    BY <2>1 DEF Dead, CapSet, States
  <2>3. cap \in [Capture -> CapSet]
    BY DEF LbInv, TypeInv
  <2> QED
    BY <1>3, <2>2, <2>3
<1>4. Keeps \/ Deletes(Head(free))
  BY DEF cleanup
<1>same. ConfInv' /\ OrderInv'
  BY <1>0, ConfSame, OrderSame
<1>TypeInv. TypeInv'
  <2>1. CASE Keeps
    BY <1>0, <2>1 DEF LbInv, TypeInv
  <2>2. CASE Deletes(Head(free))
    <3>1. free' \in Seq(Capture) /\ cap' \in [Capture -> CapSet] /\ pc' = pc
      BY <1>2, <1>3, <2>2
    <3>2. count_cap_buffs' \in Int
      BY <2>2 DEF LbInv, TypeInv
    <3> QED
      BY <1>0, <3>1, <3>2 DEF LbInv, TypeInv
  <2> QED
    BY <1>4, <2>1, <2>2
<1>ThreadInv. ThreadInv'
  <2>1. pc' \in {"clean", "take"} /\ pc = "clean"
    BY <1>1, <1>4
  <2> QED
    BY <1>0, <2>1 DEF LbInv, ThreadInv, Acquiring
<1>PlaceInv. PlaceInv'
  <2>1. CASE Keeps
    BY <1>0, <1>1, <2>1 DEF LbInv, PlaceInv, Placed, Alive
  <2>2. CASE Deletes(Head(free))
    <3>1. PICK x : x = Head(free)
      OBVIOUS
    <3>2. /\ x \in Capture /\ cap[x].state = "free" /\ cap'[x] = Dead
          /\ \A c \in Capture : c # x => cap'[c] = cap[c]
          /\ ToSet(free') = ToSet(free) \ {x} /\ IsInjective(free')
      BY <1>2, <1>3, <2>2, <3>1
    <3>3. ASSUME NEW c \in Capture
          PROVE  Placed(c)'
      <4>1. CASE c = x
        <5>1. cap'[c].state = "dead"
          BY <3>2, <4>1 DEF Dead
        <5> QED
          BY <1>0, <1>1, <3>2, <4>1, <5>1 DEF Placed
      <4>2. CASE c # x
        BY <1>0, <1>1, <3>2, <4>2 DEF Placed
      <4> QED
        BY <4>1, <4>2
    <3> QED
      BY <1>0, <3>2, <3>3 DEF LbInv, PlaceInv
  <2> QED
    BY <1>4, <2>1, <2>2
<1>CountInv. CountInv'
  <2>1. CASE Keeps
    BY <1>0, <1>1, <2>1 DEF LbInv, CountInv, Live, Alive
  <2>2. CASE Deletes(Head(free))
    <3>1. PICK x : x = Head(free)
      OBVIOUS
    <3>2. x \in Live /\ Live' = Live \ {x}
      BY <1>2, <1>3, <2>2, <3>1 DEF Live, Dead
    <3> QED
      BY <1>1, <2>2, <3>2, CountLess
  <2> QED
    BY <1>4, <2>1, <2>2
<1>CaptureInv. CaptureInv'
  <2>1. CASE Keeps
    BY <1>0, <2>1 DEF LbInv, CaptureInv
  <2>2. CASE Deletes(Head(free))
    <3>1. CapOK(Dead, tx)
      BY DEF CapOK, Dead
    <3> QED
      BY <1>0, <1>2, <1>3, <2>2, <3>1, OthersKeep
  <2> QED
    BY <1>4, <2>1, <2>2
<1>FreshInv. FreshInv'
  <2>1. CASE Keeps
    BY <1>0, <2>1 DEF LbInv, FreshInv, left
  <2>2. CASE Deletes(Head(free))
    <3>1. \A t : ~Holds(Dead, t)
      BY DEF Holds, Held, Dead
    <3>2. left' = left
      BY <1>0 DEF left
    <3> QED
      BY <1>0, <1>2, <1>3, <2>2, <3>1, <3>2, FreshFollows DEF Dead
  <2> QED
    BY <1>4, <2>1, <2>2
<1>FillInv. FillInv'
  BY <1>0, <1>1 DEF FillInv
<1>RefInv. RefInv'
  <2>1. CASE Keeps
    BY <1>0, <2>1 DEF LbInv, RefInv, Queued
  <2>2. CASE Deletes(Head(free))
    <3>1. \A t : ~Holds(Dead, t) /\ ~Holds(cap[Head(free)], t)
      BY <1>2, <2>2 DEF Holds, Held, Dead
    <3> QED
      BY <1>0, <1>2, <1>3, <2>2, <3>1, RefsStay
  <2> QED
    BY <1>4, <2>1, <2>2
<1> QED
  BY <1>same, <1>TypeInv, <1>ThreadInv, <1>PlaceInv, <1>CountInv, <1>CaptureInv,
     <1>FreshInv, <1>FillInv, <1>RefInv DEF LbInv

\* A free capture is not empty, which set_rule asserts.
LEMMA TakeFreeKeeps ==
  ASSUME LbInv, takeFree
  PROVE  LbInv'
<1>0. UNCHANGED <<conf, changed, use, todo, trg, chk, serv_trg, stopping, cur, ofs,
                 count_cap_buffs, full, tx, sending, running, queue, ref,
                 resetting, fsize, delivered, commands>>
  BY DEF takeFree, config, trigger, pool, thread, sender, stream
<1>1. pc' = "abort" /\ UNCHANGED <<cap, filling, n, capturing>>
  <2>1. free # <<>> /\ free \in Seq(Capture) /\ IsInjective(free)
    BY DEF takeFree, LbInv, TypeInv, PlaceInv
  <2>2. Head(free) \in Capture /\ Head(free) \in ToSet(free)
    BY <2>1, TailOf
  <2>3. Placed(Head(free))
    BY <2>2, AcquiringIs DEF takeFree, Acquiring
  <2>4. cap[Head(free)].state = "free"
    BY <2>2, <2>3 DEF Placed
  <2>5. cap[Head(free)].n > 0
    BY <2>2, <2>4 DEF LbInv, CaptureInv, CapOK
  <2>6. cap[Head(free)].n # 0
    BY <2>5
  <2> QED
    BY <2>6 DEF takeFree, set_rule
<1>2. /\ free' \in Seq(Capture) /\ IsInjective(free') /\ ToSet(free') \subseteq ToSet(free)
      /\ filling = None
  <2>1. free # <<>> /\ free \in Seq(Capture) /\ IsInjective(free) /\ free' = Tail(free)
    BY DEF takeFree, LbInv, TypeInv, PlaceInv
  <2>2. filling = None
    BY AcquiringIs DEF takeFree, Acquiring
  <2> QED
    BY <2>1, <2>2, TailOf
<1>same. ConfInv' /\ OrderInv'
  BY <1>0, ConfSame, OrderSame
<1>TypeInv. TypeInv'
  BY <1>0, <1>1, <1>2 DEF LbInv, TypeInv
<1>ThreadInv. ThreadInv'
  BY <1>0, <1>1, <1>2 DEF LbInv, ThreadInv, Acquiring
<1>PlaceInv. PlaceInv'
  BY <1>0, <1>1, <1>2 DEF LbInv, PlaceInv
<1>CountInv. CountInv'
  BY <1>1 DEF CountInv
<1>CaptureInv. CaptureInv'
  BY <1>0, <1>1 DEF LbInv, CaptureInv
<1>FreshInv. FreshInv'
  BY <1>0, <1>1 DEF LbInv, FreshInv, left
<1>FillInv. FillInv'
  BY <1>1, <1>2 DEF FillInv
<1>RefInv. RefInv'
  BY <1>0, <1>1 DEF LbInv, RefInv, Queued
<1> QED
  BY <1>same, <1>TypeInv, <1>ThreadInv, <1>PlaceInv, <1>CountInv, <1>CaptureInv,
     <1>FreshInv, <1>FillInv, <1>RefInv DEF LbInv

\* An empty capture is given a rule, to be filled.
LEMMA RuleIs ==
  ASSUME LbInv, pc \in Acquiring, NEW x \in Capture, NEW rec \in CapSet,
         rec.n = 0, rec.chunks = <<>>, rec.commit = 0, set_rule(x, rec)
  PROVE  /\ filling' = x /\ n' = 0 /\ capturing' = TRUE /\ pc' = "loop"
         /\ cap' \in [Capture -> CapSet]
         /\ \A c \in Capture : c # x => cap'[c] = cap[c]
         /\ cap'[x].state = "filling" /\ cap'[x].n = 0 /\ cap'[x].chunks = <<>>
         /\ cap'[x].N0 = use["capture"].N0
         /\ CapOK(cap'[x], tx) /\ \A t : ~Holds(cap'[x], t)
<1>1. PICK r : r = [rec EXCEPT !.state = "filling", !.N0 = use["capture"].N0]
  OBVIOUS
<1>2. /\ cap' = [cap EXCEPT ![x] = r] /\ filling' = x /\ n' = 0 /\ capturing' = TRUE
      /\ pc' = "loop"
  BY <1>1 DEF set_rule
<1>3. cap \in [Capture -> CapSet] /\ use["capture"].N0 \in Nat \ {0}
  BY AcquiringIs DEF LbInv, TypeInv
<1>4. rec \in [state : States, N0 : Nat, fs : FrameSize \cup {0}, n : Nat,
               chunks : Seq(ChunkSet), commit : Nat]
  BY DEF CapSet
<1>5. /\ r \in CapSet /\ r.state = "filling" /\ r.N0 = use["capture"].N0
      /\ r.n = 0 /\ r.chunks = <<>> /\ r.commit = 0
  BY <1>1, <1>3, <1>4 DEF CapSet, States
<1>6. cap' \in [Capture -> CapSet] /\ cap'[x] = r /\ \A c \in Capture : c # x => cap'[c] = cap[c]
  BY <1>2, <1>3, <1>5
<1>7. Len(r.chunks) = 0
  BY <1>5
<1>8. Distinct(r) /\ Chain(r) /\ \A t : ~Holds(r, t)
  BY <1>5, <1>7 DEF Distinct, Chain, Holds
<1>9. r.n < r.N0
  BY <1>3, <1>5
<1>10. CapOK(r, tx)
  BY <1>5, <1>8, <1>9 DEF CapOK, FillingOK
<1> QED
  BY <1>2, <1>5, <1>6, <1>8, <1>10

\* A capture is made, while fewer than the limit exist.
LEMMA NewCaptureKeeps ==
  ASSUME LbInv, newCapture
  PROVE  LbInv'
<1>0. UNCHANGED <<conf, changed, use, todo, trg, chk, serv_trg, stopping, cur, ofs,
                 free, full, tx, sending, running, queue, ref, resetting, fsize,
                 delivered, commands>>
  BY DEF newCapture, config, trigger, pool, thread, sender, stream
<1>1. /\ pc = "more" /\ pc \in Acquiring /\ ~capturing /\ filling = None /\ Alive
      /\ cur \in TicketSet /\ use["capture"].N \in Nat
      /\ use["buffer"].max \in 0 .. Cardinality(Capture)
      /\ \A c \in Capture : Placed(c) /\ cap[c].state # "filling"
  BY AcquiringIs DEF newCapture, Acquiring
<1>5. \E c \in Capture : c \notin Live
  <2>1. count_cap_buffs < use["buffer"].max /\ count_cap_buffs >= Cardinality(Live)
        /\ count_cap_buffs \in Int
    BY <1>1 DEF newCapture, LbInv, CountInv, TypeInv
  <2>2. Live \in SUBSET Capture
    BY DEF Live
  <2>3. Cardinality(Live) \in Nat /\ Cardinality(Capture) \in Nat
    BY <2>2, LiveBufferAssumption, FS_Subset, FS_CardinalityType
  <2>4. Cardinality(Live) # Cardinality(Capture)
    BY <1>1, <2>1, <2>3
  <2>5. Live # Capture
    BY <2>4
  <2> QED
    BY <2>2, <2>5
<1>6. PICK x : x = CHOOSE c \in Capture : c \notin Live
  OBVIOUS
<1>2. x \in Capture /\ cap[x].state = "dead" /\ x \notin Live
  BY <1>5, <1>6 DEF Live
<1>7. Dead \in CapSet /\ Dead.n = 0 /\ Dead.chunks = <<>> /\ Dead.commit = 0
  <2>1. <<>> \in Seq(ChunkSet)
    OBVIOUS
  <2> QED
    BY <2>1 DEF Dead, CapSet, States
<1>8. set_rule(x, Dead)
  BY <1>6 DEF newCapture
<1>4. /\ x \in Capture
      /\ filling' = x /\ n' = 0 /\ capturing' = TRUE /\ pc' = "loop"
      /\ cap' \in [Capture -> CapSet]
      /\ \A c \in Capture : c # x => cap'[c] = cap[c]
      /\ cap'[x].state = "filling" /\ cap'[x].n = 0 /\ cap'[x].chunks = <<>>
      /\ cap'[x].N0 = use["capture"].N0
      /\ CapOK(cap'[x], tx) /\ \A t : ~Holds(cap'[x], t)
  BY <1>1, <1>2, <1>7, <1>8, RuleIs
<1>3. count_cap_buffs' \in Int
  BY DEF newCapture, LbInv, TypeInv
<1>same. ConfInv' /\ OrderInv'
  BY <1>0, ConfSame, OrderSame
<1>TypeInv. TypeInv'
  BY <1>0, <1>2, <1>3, <1>4 DEF LbInv, TypeInv
<1>ThreadInv. ThreadInv'
  <2>1. 0 <= use["capture"].N
    BY <1>1
  <2> QED
    BY <1>0, <1>1, <1>4, <2>1 DEF LbInv, ThreadInv, Acquiring
<1>PlaceInv. PlaceInv'
  <2>1. x # sending /\ x \notin ToSet(full) /\ x \notin ToSet(free)
    BY <1>1, <1>2 DEF Placed
  <2>2. ASSUME NEW c \in Capture
        PROVE  Placed(c)'
    <3>1. CASE c = x
      BY <1>0, <1>4, <2>1, <3>1 DEF Placed
    <3>2. CASE c # x
      <4>1. Placed(c) /\ cap[c].state # "filling" /\ cap'[c] = cap[c] /\ c # filling'
        BY <1>1, <1>4, <3>2
      <4> QED
        BY <1>0, <4>1 DEF Placed
    <3> QED
      BY <3>1, <3>2
  <2> QED
    BY <1>0, <2>2 DEF LbInv, PlaceInv
<1>CountInv. CountInv'
  <2>1. x \notin Live /\ Live' = Live \cup {x}
    BY <1>2, <1>4 DEF Live
  <2> QED
    BY <1>1, <2>1, CountMore DEF newCapture
<1>CaptureInv. CaptureInv'
  BY <1>0, <1>2, <1>4, OthersKeep
<1>FreshInv. FreshInv'
  <2>1. left' = left
    BY <1>0 DEF left
  <2> QED
    BY <1>0, <1>2, <1>4, <2>1, FreshFollows
<1>FillInv. FillInv'
  BY <1>0, <1>4 DEF FillInv
<1>RefInv. RefInv'
  <2>1. \A t : ~Holds(cap[x], t)
    BY <1>2 DEF Holds, Held
  <2> QED
    BY <1>0, <1>2, <1>4, <2>1, RefsStay
<1> QED
  BY <1>same, <1>TypeInv, <1>ThreadInv, <1>PlaceInv, <1>CountInv, <1>CaptureInv,
     <1>FreshInv, <1>FillInv, <1>RefInv DEF LbInv

\* The eldest full capture is emptied to be filled again.
LEMMA VampireKeeps ==
  ASSUME LbInv, vampire
  PROVE  LbInv'
<1>0. UNCHANGED <<conf, changed, use, todo, trg, chk, serv_trg, stopping, cur, ofs,
                 count_cap_buffs, free, tx, sending, running, queue, resetting,
                 fsize, delivered, commands>>
  BY DEF vampire, config, trigger, pool, thread, sender, stream
<1>1. /\ pc = "more" /\ pc \in Acquiring /\ ~capturing /\ filling = None /\ Alive
      /\ cur \in TicketSet /\ use["capture"].N \in Nat
      /\ \A c \in Capture : Placed(c) /\ cap[c].state # "filling"
  BY AcquiringIs DEF vampire, Acquiring
<1>6. PICK x : x = Head(full)
  OBVIOUS
<1>5. /\ x \in Capture /\ x \in ToSet(full) /\ full' \in Seq(Capture) /\ IsInjective(full')
      /\ ToSet(full') = ToSet(full) \ {x}
  <2>1. full # <<>> /\ full \in Seq(Capture) /\ IsInjective(full) /\ full' = Tail(full)
    BY DEF vampire, LbInv, TypeInv, PlaceInv
  <2> QED
    BY <1>6, <2>1, TailOf
<1>2. /\ x \in Capture /\ cap[x] \in CapSet /\ cap[x].state = "full" /\ cap[x].commit = 0
      /\ Distinct(cap[x])
  <2>1. x \in Capture /\ cap[x] \in CapSet /\ cap[x].state = "full"
    BY <1>1, <1>5 DEF Placed, LbInv, TypeInv
  <2>2. FullOK(cap[x])
    BY <2>1 DEF LbInv, CaptureInv, CapOK
  <2> QED
    BY <2>1, <2>2 DEF FullOK
<1>3. /\ ref' = putAll(cap[x], 0) /\ ref' \in [Ticket -> Int]
      /\ full' \in Seq(Capture) /\ IsInjective(full') /\ ToSet(full') = ToSet(full) \ {x}
  <2>1. ref' = putAll(cap[x], 0)
    BY <1>6 DEF vampire
  <2> QED
    BY <1>2, <1>5, <2>1, PutAllType
<1>7. PICK r : r = cancel(cap[x])
  OBVIOUS
<1>8. r \in CapSet /\ r.n = 0 /\ r.chunks = <<>> /\ r.commit = 0
  <2>1. cap[x] \in [state : States, N0 : Nat, fs : FrameSize \cup {0}, n : Nat,
                    chunks : Seq(ChunkSet), commit : Nat]
    BY <1>2 DEF CapSet
  <2>2. <<>> \in Seq(ChunkSet)
    OBVIOUS
  <2>3. r = [cap[x] EXCEPT !.n = 0, !.N0 = 0, !.fs = 0, !.chunks = <<>>, !.commit = 0]
    BY <1>7 DEF cancel
  <2> QED
    BY <2>1, <2>2, <2>3 DEF CapSet
<1>9. set_rule(x, r)
  BY <1>6, <1>7 DEF vampire
<1>4. /\ x \in Capture
      /\ filling' = x /\ n' = 0 /\ capturing' = TRUE /\ pc' = "loop"
      /\ cap' \in [Capture -> CapSet]
      /\ \A c \in Capture : c # x => cap'[c] = cap[c]
      /\ cap'[x].state = "filling" /\ cap'[x].n = 0 /\ cap'[x].chunks = <<>>
      /\ cap'[x].N0 = use["capture"].N0
      /\ CapOK(cap'[x], tx) /\ \A t : ~Holds(cap'[x], t)
  BY <1>1, <1>2, <1>8, <1>9, RuleIs
<1>same. ConfInv' /\ OrderInv'
  BY <1>0, ConfSame, OrderSame
<1>TypeInv. TypeInv'
  BY <1>0, <1>2, <1>3, <1>4 DEF LbInv, TypeInv
<1>ThreadInv. ThreadInv'
  <2>1. 0 <= use["capture"].N
    BY <1>1
  <2> QED
    BY <1>0, <1>1, <1>4, <2>1 DEF LbInv, ThreadInv, Acquiring
<1>PlaceInv. PlaceInv'
  <2>1. x # sending /\ x \notin ToSet(full') /\ x \notin ToSet(free)
    BY <1>1, <1>2, <1>3 DEF Placed
  <2>2. ASSUME NEW c \in Capture
        PROVE  Placed(c)'
    <3>1. CASE c = x
      BY <1>0, <1>4, <2>1, <3>1 DEF Placed
    <3>2. CASE c # x
      <4>1. Placed(c) /\ cap[c].state # "filling" /\ cap'[c] = cap[c] /\ c # filling'
        BY <1>1, <1>4, <3>2
      <4>2. c \in ToSet(full') <=> c \in ToSet(full)
        BY <1>3, <3>2
      <4> QED
        BY <1>0, <4>1, <4>2 DEF Placed
    <3> QED
      BY <3>1, <3>2
  <2> QED
    BY <1>0, <1>3, <2>2 DEF LbInv, PlaceInv
<1>CountInv. CountInv'
  <2>1. Live' = Live
    BY <1>2, <1>4 DEF Live
  <2> QED
    BY <1>0, <1>1, <2>1 DEF LbInv, CountInv, Alive
<1>CaptureInv. CaptureInv'
  BY <1>0, <1>2, <1>4, OthersKeep
<1>FreshInv. FreshInv'
  <2>1. left' = left
    BY <1>0 DEF left
  <2> QED
    BY <1>0, <1>2, <1>4, <2>1, FreshFollows
<1>FillInv. FillInv'
  BY <1>0, <1>4 DEF FillInv
<1>RefInv. RefInv'
  <2>1. SUFFICES ASSUME NEW t \in Ticket
                 PROVE  ref'[t] = ref[t] - One(Holds(cap[x], t)) + One(Holds(cap'[x], t))
    BY <1>0, <1>2, <1>4, RefsFollow
  <2>2. ref'[t] = ref[t] - One(Holds(cap[x], t))
    BY <1>2, <1>3, PutAllIs DEF Held
  <2>3. One(Holds(cap'[x], t)) = 0
    BY <1>4 DEF One
  <2>4. PICK v : v = One(Holds(cap[x], t))
    OBVIOUS
  <2>5. v \in {0, 1} /\ ref[t] \in Int
    BY <2>4 DEF One, LbInv, TypeInv
  <2>6. ref[t] - v = ref[t] - v + 0
    BY <2>5
  <2> QED
    BY <2>2, <2>3, <2>4, <2>6
<1> QED
  BY <1>same, <1>TypeInv, <1>ThreadInv, <1>PlaceInv, <1>CountInv, <1>CaptureInv,
     <1>FreshInv, <1>FillInv, <1>RefInv DEF LbInv

-----------------------------------------------------------------------------
(* The transmitter thread.                                                 *)

LEMMA FillStays ==
  ASSUME LbInv, Alive, NEW x \in Capture, cap[x].state # "filling",
         \A c \in Capture : c # x => cap'[c] = cap[c],
         UNCHANGED <<filling, n, use, stopping, cur, ofs, pc, resetting, delivered, queue>>
  PROVE  FillInv'
<1>1. ASSUME filling # None
      PROVE  cap'[filling] = cap[filling]
  <2>1. filling \in Capture /\ cap[filling].state = "filling"
    BY <1>1, FillingIs
  <2>2. filling # x
    BY <2>1
  <2> QED
    BY <2>1, <2>2
<1> QED
  BY <1>1 DEF LbInv, FillInv, NextFrame, left

\* The capture of the transmitter.
LEMMA SendingIs ==
  ASSUME LbInv, Alive, tx \in {"send", "sent"}
  PROVE  /\ sending \in Capture /\ sending # None
         /\ cap[sending] \in CapSet /\ cap[sending].state = "sending"
         /\ SendingOK(cap[sending], tx)
         /\ \A c \in Capture : Placed(c) /\ (c # sending => cap[c].state # "sending")
<1>1. sending # None /\ sending \in Capture
  BY DEF LbInv, ThreadInv, TypeInv
<1>2. \A c \in Capture : Placed(c) /\ (c # sending => cap[c].state # "sending")
  BY DEF LbInv, PlaceInv, Placed, Alive
<1>3. cap[sending] \in CapSet /\ cap[sending].state = "sending"
  BY <1>1, <1>2 DEF LbInv, TypeInv, Placed
<1> QED
  BY <1>1, <1>2, <1>3 DEF LbInv, CaptureInv, CapOK

\* The eldest full capture is taken.
LEMMA TxTakeKeeps ==
  ASSUME LbInv, txTake
  PROVE  LbInv'
<1>0. UNCHANGED <<conf, changed, use, todo, trg, chk, serv_trg, pc, stopping, cur,
                 ofs, n, capturing, filling, count_cap_buffs, free, running,
                 queue, ref, resetting, fsize, delivered, commands>>
  BY DEF txTake, config, trigger, pool, thread, sender, stream
<1>1. /\ Alive /\ tx = "idle" /\ sending = None
      /\ \A c \in Capture : Placed(c)
  BY DEF txTake, LbInv, ThreadInv, PlaceInv, Alive
<1>5. PICK x : x = Head(full)
  OBVIOUS
<1>2. /\ x \in Capture /\ x \in ToSet(full) /\ full' \in Seq(Capture) /\ IsInjective(full')
      /\ ToSet(full') = ToSet(full) \ {x}
      /\ tx' = "send" /\ sending' = x
      /\ cap' = [cap EXCEPT ![x].state = "sending"]
  <2>1. full # <<>> /\ full \in Seq(Capture) /\ IsInjective(full) /\ full' = Tail(full)
    BY DEF txTake, LbInv, TypeInv, PlaceInv
  <2>2. tx' = "send" /\ sending' = x /\ cap' = [cap EXCEPT ![x].state = "sending"]
    BY <1>5 DEF txTake
  <2> QED
    BY <1>5, <2>1, <2>2, TailOf
<1>3. x \in Capture /\ cap[x] \in CapSet /\ cap[x].state = "full" /\ FullOK(cap[x])
  <2>1. x \in Capture /\ cap[x] \in CapSet /\ cap[x].state = "full"
    BY <1>1, <1>2 DEF Placed, LbInv, TypeInv
  <2> QED
    BY <2>1 DEF LbInv, CaptureInv, CapOK
<1>6. PICK r : r = [cap[x] EXCEPT !.state = "sending"]
  OBVIOUS
<1>4. /\ r \in CapSet /\ r.state = "sending" /\ r.n = 0 /\ r.commit = 0
      /\ Len(r.chunks) > 0 /\ Distinct(r)
      /\ \A t : Holds(r, t) <=> Holds(cap[x], t)
      /\ cap' \in [Capture -> CapSet] /\ cap'[x] = r
      /\ \A c \in Capture : c # x => cap'[c] = cap[c]
  <2>1. cap[x] \in [state : States, N0 : Nat, fs : FrameSize \cup {0}, n : Nat,
                    chunks : Seq(ChunkSet), commit : Nat]
    BY <1>3 DEF CapSet
  <2>2. /\ r \in CapSet /\ r.state = "sending" /\ r.n = cap[x].n /\ r.commit = cap[x].commit
        /\ r.chunks = cap[x].chunks
    BY <1>6, <2>1 DEF CapSet, States
  <2>3. r.n = 0 /\ r.commit = 0 /\ Len(r.chunks) > 0 /\ Distinct(r)
    BY <1>3, <2>2 DEF FullOK, Distinct
  <2>4. \A t : Holds(r, t) <=> Holds(cap[x], t)
    BY <1>3, <2>2 DEF Holds, Held
  <2>5. cap \in [Capture -> CapSet]
    BY DEF LbInv, TypeInv
  <2>6. /\ cap' \in [Capture -> CapSet] /\ cap'[x] = r
        /\ \A c \in Capture : c # x => cap'[c] = cap[c]
    BY <1>2, <1>6, <2>2, <2>5
  <2> QED
    BY <2>2, <2>3, <2>4, <2>6
<1>same. ConfInv' /\ OrderInv'
  BY <1>0, ConfSame, OrderSame
<1>TypeInv. TypeInv'
  BY <1>0, <1>2, <1>4 DEF LbInv, TypeInv
<1>ThreadInv. ThreadInv'
  BY <1>0, <1>1, <1>2, LiveBufferAssumption DEF LbInv, ThreadInv
<1>PlaceInv. PlaceInv'
  <2>1. ASSUME NEW c \in Capture
        PROVE  Placed(c)'
    <3>1. CASE c = x
      <4>1. c # filling /\ c \notin ToSet(free) /\ c \notin ToSet(full') /\ c = sending'
        BY <1>1, <1>2, <1>3, <3>1 DEF Placed
      <4> QED
        BY <1>0, <1>4, <3>1, <4>1 DEF Placed
    <3>2. CASE c # x
      <4>1. Placed(c) /\ cap'[c] = cap[c] /\ c # sending /\ c # sending'
        BY <1>1, <1>2, <1>4, <3>2, LiveBufferAssumption
      <4>2. c \in ToSet(full') <=> c \in ToSet(full)
        BY <1>2, <3>2
      <4> QED
        BY <1>0, <4>1, <4>2 DEF Placed
    <3> QED
      BY <3>1, <3>2
  <2> QED
    BY <1>0, <1>2, <2>1 DEF LbInv, PlaceInv
<1>CountInv. CountInv'
  <2>1. Live' = Live
    BY <1>3, <1>4 DEF Live
  <2> QED
    BY <1>0, <2>1 DEF LbInv, CountInv
<1>CaptureInv. CaptureInv'
  <2>1. r.chunks[1].count \in Nat \ {0}
    <3>1. PICK ch : ch = r.chunks
      OBVIOUS
    <3>2. ch \in Seq(ChunkSet) /\ Len(ch) > 0
      BY <1>4, <3>1 DEF CapSet
    <3>3. ch[1] \in ChunkSet
      BY <3>2
    <3> QED
      BY <3>1, <3>3 DEF ChunkSet
  <2>2. r.n < r.chunks[1].count
    BY <1>4, <2>1
  <2>3. SendingOK(r, "send")
    BY <1>4, <2>2 DEF SendingOK
  <2>4. CapOK(r, "send")
    BY <1>4, <2>3 DEF CapOK
  <2>5. \A c \in Capture : c # x => cap[c].state # "sending"
    BY <1>1, LiveBufferAssumption DEF Placed
  <2> QED
    BY <1>2, <1>4, <2>4, <2>5, OthersKeep
<1>FreshInv. FreshInv'
  <2>1. left' = left
    BY <1>0 DEF left
  <2> QED
    BY <1>0, <1>3, <1>4, <2>1, FreshFollows
<1>FillInv. FillInv'
  <2>1. cap[x].state # "filling"
    BY <1>3
  <2> QED
    BY <1>0, <1>1, <1>3, <1>4, <2>1, FillStays
<1>RefInv. RefInv'
  BY <1>0, <1>3, <1>4, RefsStay
<1> QED
  BY <1>same, <1>TypeInv, <1>ThreadInv, <1>PlaceInv, <1>CountInv, <1>CaptureInv,
     <1>FreshInv, <1>FillInv, <1>RefInv DEF LbInv

\* A burst is sent, and with its last frame the first chunk is returned.
LEMMA SendKeeps ==
  ASSUME LbInv, send
  PROVE  LbInv'
<1>0. UNCHANGED <<conf, changed, use, todo, trg, chk, serv_trg, pc, stopping, cur,
                 ofs, n, capturing, filling, count_cap_buffs, free, full,
                 sending, running, queue, resetting, fsize, delivered, commands>>
  BY DEF send, config, trigger, pool, thread, sender, stream
<1>5. PICK x : x = sending
  OBVIOUS
<1>1. /\ Alive /\ tx = "send" /\ x = sending /\ x \in Capture /\ x # None
      /\ cap[x] \in CapSet /\ cap[x].state = "sending" /\ cap[x].commit = 0
      /\ SendingOK(cap[x], tx)
      /\ \A c \in Capture : Placed(c) /\ (c # x => cap[c].state # "sending")
  <2>1. Alive /\ tx = "send" /\ cap[sending].commit = 0
    BY DEF send
  <2> QED
    BY <1>5, <2>1, SendingIs
<1>6. PICK k, last, t1 : /\ k = (IF Burst < Sendable(cap[x]) THEN Burst ELSE Sendable(cap[x]))
                         /\ last = (k = Sendable(cap[x])) /\ t1 = cap[x].chunks[1].of.t
  OBVIOUS
<1>7. /\ cap[x].chunks \in Seq(ChunkSet) /\ Len(cap[x].chunks) \in Nat
      /\ cap[x].chunks[1].count \in Nat /\ t1 \in Ticket
      /\ Len(cap[x].chunks) > 0 /\ cap[x].n < cap[x].chunks[1].count /\ cap[x].n \in Nat
      /\ Distinct(cap[x])
  <2>1. /\ Len(cap[x].chunks) > 0 /\ cap[x].n < cap[x].chunks[1].count /\ Distinct(cap[x])
    BY <1>1 DEF SendingOK
  <2>2. PICK ch : ch = cap[x].chunks
    OBVIOUS
  <2>3. ch \in Seq(ChunkSet) /\ cap[x].n \in Nat /\ Len(ch) > 0
    BY <1>1, <2>1, <2>2 DEF CapSet
  <2>4. ch[1] \in ChunkSet /\ Len(ch) \in Nat
    BY <2>3
  <2>5. ch[1].count \in Nat /\ ch[1].of.t \in Ticket
    BY <2>4 DEF ChunkSet, TicketSet
  <2> QED
    BY <1>6, <2>1, <2>2, <2>3, <2>4, <2>5
<1>8. /\ last \in BOOLEAN /\ k \in Nat /\ k > 0
      /\ last => cap[x].n + k = cap[x].chunks[1].count
      /\ ~last => cap[x].n + k < cap[x].chunks[1].count
  <2>1. Burst \in Nat \ {0} /\ Sendable(cap[x]) = cap[x].chunks[1].count - cap[x].n
    BY LiveBufferAssumption DEF Sendable
  <2>2. PICK m, a : m = cap[x].chunks[1].count /\ a = cap[x].n
    OBVIOUS
  <2>3. m \in Nat /\ a \in Nat /\ a < m
    BY <1>7, <2>2
  <2>4. k = IF Burst < m - a THEN Burst ELSE m - a
    BY <1>6, <2>1, <2>2
  <2>5. last = (k = m - a)
    BY <1>6, <2>1, <2>2
  <2>6. k \in Nat /\ k > 0 /\ (k = m - a \/ k < m - a)
    BY <2>1, <2>3, <2>4
  <2>7. (k = m - a => a + k = m) /\ (k # m - a => a + k < m)
    BY <2>3, <2>6
  <2> QED
    BY <2>2, <2>5, <2>6, <2>7
<1>10. PICK r : r = [cap[x] EXCEPT !.n = cap[x].n + k, !.commit = IF last THEN 1 ELSE 0]
  OBVIOUS
<1>3. /\ tx' = (IF last /\ Len(cap[x].chunks) = 1 THEN "sent" ELSE "send")
      /\ tx' \in {"send", "sent"}
      /\ ref' = (IF last THEN [ref EXCEPT ![t1] = @ - 1] ELSE ref)
      /\ ref' \in [Ticket -> Int]
  <2>1. /\ tx' = (IF last /\ Len(cap[x].chunks) = 1 THEN "sent" ELSE "send")
        /\ ref' = (IF last THEN [ref EXCEPT ![t1] = @ - 1] ELSE ref)
    BY <1>5, <1>6 DEF send
  <2>2. ref \in [Ticket -> Int]
    BY DEF LbInv, TypeInv
  <2> QED
    BY <1>7, <2>1, <2>2
<1>2. /\ Len(cap[x].chunks) \in Nat /\ Len(cap[x].chunks) > 0
      /\ last => cap[x].n + k > 0
      /\ ~last => cap[x].n + k < cap[x].chunks[1].count
  BY <1>7, <1>8
<1>4. /\ r \in CapSet /\ r.state = "sending" /\ r.n = cap[x].n + k /\ r.chunks = cap[x].chunks
      /\ r.commit = (IF last THEN 1 ELSE 0) /\ Distinct(r)
      /\ \A t : Holds(r, t) => Holds(cap[x], t)
      /\ cap' \in [Capture -> CapSet] /\ cap'[x] = r
      /\ \A c \in Capture : c # x => cap'[c] = cap[c]
  <2>1. cap[x] \in [state : States, N0 : Nat, fs : FrameSize \cup {0}, n : Nat,
                    chunks : Seq(ChunkSet), commit : Nat]
    BY <1>1 DEF CapSet
  <2>2. cap[x].n + k \in Nat
    BY <1>7, <1>8
  <2>3. /\ r \in CapSet /\ r.state = "sending" /\ r.n = cap[x].n + k
        /\ r.commit = (IF last THEN 1 ELSE 0) /\ r.chunks = cap[x].chunks
    BY <1>1, <1>10, <2>1, <2>2 DEF CapSet
  <2>4. Distinct(r)
    BY <1>7, <2>3 DEF Distinct
  <2>5. ASSUME NEW t, Holds(r, t)
        PROVE  Holds(cap[x], t)
    <3>1. PICK i \in r.commit + 1 .. Len(r.chunks) : r.chunks[i].of.t = t
      BY <2>5 DEF Holds
    <3>2. i \in cap[x].commit + 1 .. Len(cap[x].chunks)
      BY <1>1, <1>7, <2>3, <3>1
    <3> QED
      BY <1>1, <2>3, <3>1, <3>2 DEF Holds, Held
  <2>6. cap \in [Capture -> CapSet]
    BY DEF LbInv, TypeInv
  <2>7. cap' = [cap EXCEPT ![x] = r]
    BY <1>5, <1>6, <1>10, <2>6 DEF send
  <2>8. /\ cap' \in [Capture -> CapSet] /\ cap'[x] = r
        /\ \A c \in Capture : c # x => cap'[c] = cap[c]
    BY <1>1, <2>3, <2>6, <2>7
  <2> QED
    BY <2>3, <2>4, <2>5, <2>8
<1>9. /\ last => Holds(cap[x], t1) /\ ~Holds(r, t1)
      /\ \A t : ~(last /\ t = t1) => (Holds(r, t) <=> Holds(cap[x], t))
  <2>1. PICK L, ch : L = Len(cap[x].chunks) /\ ch = cap[x].chunks
    OBVIOUS
  <2>2. /\ L \in Nat /\ L > 0 /\ ch[1].of.t = t1
        /\ \A i, j \in 1 .. L : ch[i].of.t = ch[j].of.t => i = j
    BY <1>6, <1>7, <2>1 DEF Distinct
  <2>3. \A t : Holds(cap[x], t) <=> \E i \in 1 .. L : ch[i].of.t = t
    BY <1>1, <2>1 DEF Holds, Held
  <2>4. CASE last
    <3>1. \A t : Holds(r, t) <=> \E i \in 2 .. L : ch[i].of.t = t
      BY <1>4, <2>1, <2>4 DEF Holds, Held
    <3>2. \A i \in 2 .. L : i \in 1 .. L /\ i # 1
      BY <2>2
    <3>3. \A i \in 1 .. L : i = 1 \/ i \in 2 .. L
      BY <2>2
    <3>4. 1 \in 1 .. L
      BY <2>2
    <3>5. Holds(cap[x], t1) /\ ~Holds(r, t1)
      BY <2>2, <2>3, <3>1, <3>2, <3>4
    <3>6. ASSUME NEW t, t # t1
          PROVE  Holds(r, t) <=> Holds(cap[x], t)
      BY <2>2, <2>3, <3>1, <3>2, <3>3, <3>6
    <3> QED
      BY <2>4, <3>5, <3>6
  <2>5. CASE ~last
    <3>1. \A t : Holds(r, t) <=> \E i \in 1 .. L : ch[i].of.t = t
      BY <1>4, <2>1, <2>5 DEF Holds, Held
    <3> QED
      BY <2>3, <2>5, <3>1
  <2> QED
    BY <2>4, <2>5
<1>same. ConfInv' /\ OrderInv'
  BY <1>0, ConfSame, OrderSame
<1>TypeInv. TypeInv'
  BY <1>0, <1>3, <1>4 DEF LbInv, TypeInv
<1>ThreadInv. ThreadInv'
  BY <1>0, <1>1, <1>3 DEF LbInv, ThreadInv
<1>PlaceInv. PlaceInv'
  <2>1. ASSUME NEW c \in Capture
        PROVE  Placed(c)'
    <3>1. CASE c = x
      BY <1>0, <1>1, <1>4, <3>1 DEF Placed
    <3>2. CASE c # x
      BY <1>0, <1>1, <1>4, <3>2 DEF Placed
    <3> QED
      BY <3>1, <3>2
  <2> QED
    BY <1>0, <2>1 DEF LbInv, PlaceInv
<1>CountInv. CountInv'
  <2>1. Live' = Live
    BY <1>1, <1>4 DEF Live
  <2> QED
    BY <1>0, <2>1 DEF LbInv, CountInv
<1>CaptureInv. CaptureInv'
  <2>1. SendingOK(r, tx')
    <3>1. CASE ~last
      <4>1. r.commit = 0 /\ Len(r.chunks) > 0 /\ r.n < r.chunks[1].count /\ tx' = "send"
        BY <1>2, <1>3, <1>4, <3>1
      <4> QED
        BY <1>4, <4>1 DEF SendingOK
    <3>2. CASE last /\ Len(r.chunks) = 1
      <4>1. r.commit = Len(r.chunks) /\ r.n > 0 /\ tx' = "sent"
        BY <1>2, <1>3, <1>4, <3>2
      <4> QED
        BY <1>4, <4>1 DEF SendingOK
    <3>3. CASE last /\ Len(r.chunks) # 1
      <4>2. r.commit = 1 /\ tx' = "send"
        BY <1>3, <1>4, <3>3
      <4>3. Len(r.chunks) > 1
        <5>1. PICK L : L = Len(r.chunks)
          OBVIOUS
        <5>2. L \in Nat /\ L > 0 /\ L # 1
          BY <1>2, <1>4, <3>3, <5>1
        <5>3. L > 1
          BY <5>2
        <5> QED
          BY <5>1, <5>3
      <4>4. r.n > 0
        BY <1>2, <1>4, <3>3
      <4>1. r.commit = 1 /\ Len(r.chunks) > 1 /\ r.n > 0 /\ tx' = "send"
        BY <4>2, <4>3, <4>4
      <4> QED
        BY <1>4, <4>1 DEF SendingOK
    <3> QED
      BY <3>1, <3>2, <3>3
  <2>2. CapOK(r, tx')
    BY <1>4, <2>1 DEF CapOK
  <2> QED
    BY <1>1, <1>4, <2>2, OthersKeep
<1>FreshInv. FreshInv'
  <2>1. left' = left
    BY <1>0 DEF left
  <2> QED
    BY <1>0, <1>1, <1>4, <2>1, FreshFollows
<1>FillInv. FillInv'
  <2>1. cap[x].state # "filling"
    BY <1>1
  <2> QED
    BY <1>0, <1>1, <1>4, <2>1, FillStays
<1>RefInv. RefInv'
  <2>1. SUFFICES ASSUME NEW t \in Ticket
                 PROVE  ref'[t] = ref[t] - One(Holds(cap[x], t)) + One(Holds(cap'[x], t))
    BY <1>0, <1>1, <1>4, RefsFollow
  <2>2. PICK v, w : v = One(Holds(cap[x], t)) /\ w = One(Holds(cap'[x], t))
    OBVIOUS
  <2>3. v \in {0, 1} /\ w \in {0, 1} /\ ref[t] \in Int /\ ref \in [Ticket -> Int]
    BY <2>2 DEF One, LbInv, TypeInv
  <2>4. CASE last /\ t = t1
    <3>1. v = 1 /\ w = 0
      BY <1>4, <1>9, <2>2, <2>4 DEF One
    <3> QED
      BY <1>3, <2>2, <2>3, <2>4, <3>1
  <2>5. CASE ~(last /\ t = t1)
    <3>1. v = w
      BY <1>4, <1>9, <2>2, <2>5 DEF One
    <3>2. ref'[t] = ref[t]
      BY <1>3, <2>3, <2>5
    <3>3. ref[t] = ref[t] - v + w
      BY <2>3, <3>1
    <3> QED
      BY <2>2, <3>2, <3>3
  <2> QED
    BY <2>4, <2>5
<1> QED
  BY <1>same, <1>TypeInv, <1>ThreadInv, <1>PlaceInv, <1>CountInv, <1>CaptureInv,
     <1>FreshInv, <1>FillInv, <1>RefInv DEF LbInv

\* The empty burst is taken for an error: the other chunks are returned.
LEMMA SendNothingKeeps ==
  ASSUME LbInv, sendNothing
  PROVE  LbInv'
<1>0. UNCHANGED <<conf, changed, use, todo, trg, chk, serv_trg, pc, stopping, cur,
                 ofs, n, capturing, filling, count_cap_buffs, free, full,
                 sending, running, queue, resetting, fsize, delivered, commands>>
  BY DEF sendNothing, config, trigger, pool, thread, sender, stream
<1>5. PICK x : x = sending
  OBVIOUS
<1>1. /\ Alive /\ tx = "send" /\ x = sending /\ x \in Capture /\ x # None
      /\ cap[x] \in CapSet /\ cap[x].state = "sending" /\ cap[x].commit > 0
      /\ SendingOK(cap[x], tx)
      /\ \A c \in Capture : Placed(c) /\ (c # x => cap[c].state # "sending")
  <2>1. Alive /\ tx = "send" /\ cap[sending].commit > 0
    BY DEF sendNothing
  <2> QED
    BY <1>5, <2>1, SendingIs
<1>2. Distinct(cap[x]) /\ cap[x].n > 0 /\ cap[x].commit = 1
  BY <1>1 DEF SendingOK
<1>3. ref' = putAll(cap[x], cap[x].commit) /\ ref' \in [Ticket -> Int] /\ tx' = "sent"
  <2>1. ref' = putAll(cap[x], cap[x].commit) /\ tx' = "sent"
    BY <1>5 DEF sendNothing, abort_all
  <2> QED
    BY <1>1, <1>2, <2>1, PutAllType
<1>6. PICK r : r = [cap[x] EXCEPT !.commit = Len(cap[x].chunks)]
  OBVIOUS
<1>4. /\ r \in CapSet /\ r.state = "sending" /\ r.n > 0 /\ r.commit = Len(r.chunks)
      /\ Distinct(r)
      /\ \A t : ~Holds(r, t)
      /\ cap' \in [Capture -> CapSet] /\ cap'[x] = r
      /\ \A c \in Capture : c # x => cap'[c] = cap[c]
  <2>1. cap[x] \in [state : States, N0 : Nat, fs : FrameSize \cup {0}, n : Nat,
                    chunks : Seq(ChunkSet), commit : Nat]
    BY <1>1 DEF CapSet
  <2>2. Len(cap[x].chunks) \in Nat
    BY <2>1
  <2>3. /\ r \in CapSet /\ r.state = "sending" /\ r.n = cap[x].n
        /\ r.commit = Len(cap[x].chunks) /\ r.chunks = cap[x].chunks
    BY <1>1, <1>6, <2>1, <2>2 DEF CapSet
  <2>4. Distinct(r)
    BY <1>2, <2>3 DEF Distinct
  <2>5. ASSUME NEW t
        PROVE  ~Holds(r, t)
    <3>1. r.commit + 1 .. Len(r.chunks) = {}
      BY <2>2, <2>3
    <3> QED
      BY <3>1 DEF Holds
  <2>6. cap \in [Capture -> CapSet]
    BY DEF LbInv, TypeInv
  <2>7. cap' = [cap EXCEPT ![x] = r]
    BY <1>5, <1>6, <2>6 DEF sendNothing
  <2>8. /\ cap' \in [Capture -> CapSet] /\ cap'[x] = r
        /\ \A c \in Capture : c # x => cap'[c] = cap[c]
    BY <1>1, <2>3, <2>6, <2>7
  <2> QED
    BY <1>2, <2>3, <2>4, <2>5, <2>8
<1>same. ConfInv' /\ OrderInv'
  BY <1>0, ConfSame, OrderSame
<1>TypeInv. TypeInv'
  BY <1>0, <1>3, <1>4 DEF LbInv, TypeInv
<1>ThreadInv. ThreadInv'
  BY <1>0, <1>1, <1>3 DEF LbInv, ThreadInv
<1>PlaceInv. PlaceInv'
  <2>1. ASSUME NEW c \in Capture
        PROVE  Placed(c)'
    <3>1. CASE c = x
      BY <1>0, <1>1, <1>4, <3>1 DEF Placed
    <3>2. CASE c # x
      BY <1>0, <1>1, <1>4, <3>2 DEF Placed
    <3> QED
      BY <3>1, <3>2
  <2> QED
    BY <1>0, <2>1 DEF LbInv, PlaceInv
<1>CountInv. CountInv'
  <2>1. Live' = Live
    BY <1>1, <1>4 DEF Live
  <2> QED
    BY <1>0, <2>1 DEF LbInv, CountInv
<1>CaptureInv. CaptureInv'
  <2>1. SendingOK(r, tx')
    BY <1>3, <1>4 DEF SendingOK
  <2>2. CapOK(r, tx')
    BY <1>4, <2>1 DEF CapOK
  <2> QED
    BY <1>1, <1>4, <2>2, OthersKeep
<1>FreshInv. FreshInv'
  <2>1. left' = left
    BY <1>0 DEF left
  <2> QED
    BY <1>0, <1>1, <1>4, <2>1, FreshFollows
<1>FillInv. FillInv'
  <2>1. cap[x].state # "filling"
    BY <1>1
  <2> QED
    BY <1>0, <1>1, <1>4, <2>1, FillStays
<1>RefInv. RefInv'
  <2>1. SUFFICES ASSUME NEW t \in Ticket
                 PROVE  ref'[t] = ref[t] - One(Holds(cap[x], t)) + One(Holds(cap'[x], t))
    BY <1>0, <1>1, <1>4, RefsFollow
  <2>2. ref'[t] = ref[t] - One(Holds(cap[x], t))
    BY <1>1, <1>2, <1>3, PutAllIs DEF Held
  <2>3. One(Holds(cap'[x], t)) = 0
    BY <1>4 DEF One
  <2>4. PICK v : v = One(Holds(cap[x], t))
    OBVIOUS
  <2>5. v \in {0, 1} /\ ref[t] \in Int
    BY <2>4 DEF One, LbInv, TypeInv
  <2>6. ref[t] - v = ref[t] - v + 0
    BY <2>5
  <2> QED
    BY <2>2, <2>3, <2>4, <2>6
<1> QED
  BY <1>same, <1>TypeInv, <1>ThreadInv, <1>PlaceInv, <1>CountInv, <1>CaptureInv,
     <1>FreshInv, <1>FillInv, <1>RefInv DEF LbInv

\* A capture that has been sent is free.
LEMMA TxReturnKeeps ==
  ASSUME LbInv, txReturn
  PROVE  LbInv'
<1>0. UNCHANGED <<conf, changed, use, todo, trg, chk, serv_trg, pc, stopping, cur,
                 ofs, n, capturing, filling, count_cap_buffs, full, running,
                 queue, ref, resetting, fsize, delivered, commands>>
  BY DEF txReturn, config, trigger, pool, thread, sender, stream
<1>5. PICK x : x = sending
  OBVIOUS
<1>1. /\ Alive /\ tx = "sent" /\ x = sending /\ x \in Capture /\ x # None
      /\ cap[x] \in CapSet /\ cap[x].state = "sending"
      /\ SendingOK(cap[x], tx)
      /\ \A c \in Capture : Placed(c) /\ (c # x => cap[c].state # "sending")
  <2>1. Alive /\ tx = "sent"
    BY DEF txReturn
  <2> QED
    BY <1>5, <2>1, SendingIs
<1>2. cap[x].n > 0 /\ \A t : ~Holds(cap[x], t)
  <2>1. cap[x].n > 0 /\ cap[x].commit = Len(cap[x].chunks)
    BY <1>1 DEF SendingOK
  <2>2. Len(cap[x].chunks) \in Nat
    BY <1>1 DEF CapSet
  <2>3. cap[x].commit + 1 .. Len(cap[x].chunks) = {}
    BY <2>1, <2>2
  <2> QED
    BY <2>1, <2>3 DEF Holds
<1>3. /\ tx' = "idle" /\ sending' = None
      /\ free' \in Seq(Capture) /\ IsInjective(free') /\ ToSet(free') = ToSet(free) \cup {x}
  <2>1. free \in Seq(Capture) /\ IsInjective(free) /\ x \notin ToSet(free)
    BY <1>1 DEF LbInv, TypeInv, PlaceInv, Placed
  <2>2. tx' = "idle" /\ sending' = None /\ free' = Append(free, x)
    BY <1>5 DEF txReturn
  <2> QED
    BY <1>1, <2>1, <2>2, AppendOf
<1>6. PICK r : r = [cap[x] EXCEPT !.state = "free"]
  OBVIOUS
<1>4. /\ r \in CapSet /\ r.state = "free" /\ r.n > 0
      /\ \A t : ~Holds(r, t)
      /\ cap' \in [Capture -> CapSet] /\ cap'[x] = r
      /\ \A c \in Capture : c # x => cap'[c] = cap[c]
  <2>1. cap[x] \in [state : States, N0 : Nat, fs : FrameSize \cup {0}, n : Nat,
                    chunks : Seq(ChunkSet), commit : Nat]
    BY <1>1 DEF CapSet
  <2>2. r \in CapSet /\ r.state = "free" /\ r.n = cap[x].n
    BY <1>6, <2>1 DEF CapSet, States
  <2>3. \A t : ~Holds(r, t)
    BY <2>2 DEF Holds, Held
  <2>4. cap \in [Capture -> CapSet]
    BY DEF LbInv, TypeInv
  <2>5. cap' = [cap EXCEPT ![x] = r]
    BY <1>5, <1>6, <2>4 DEF txReturn
  <2>6. /\ cap' \in [Capture -> CapSet] /\ cap'[x] = r
        /\ \A c \in Capture : c # x => cap'[c] = cap[c]
    BY <1>1, <2>2, <2>4, <2>5
  <2> QED
    BY <1>2, <2>2, <2>3, <2>6
<1>same. ConfInv' /\ OrderInv'
  BY <1>0, ConfSame, OrderSame
<1>TypeInv. TypeInv'
  BY <1>0, <1>3, <1>4 DEF LbInv, TypeInv
<1>ThreadInv. ThreadInv'
  BY <1>0, <1>3 DEF LbInv, ThreadInv
<1>PlaceInv. PlaceInv'
  <2>1. ASSUME NEW c \in Capture
        PROVE  Placed(c)'
    <3>1. CASE c = x
      <4>1. c # filling /\ c \notin ToSet(full) /\ c \in ToSet(free') /\ c # sending'
        BY <1>1, <1>3, <3>1 DEF Placed
      <4> QED
        BY <1>0, <1>4, <3>1, <4>1 DEF Placed
    <3>2. CASE c # x
      <4>1. Placed(c) /\ cap'[c] = cap[c] /\ c # sending /\ c # sending'
        BY <1>1, <1>3, <1>4, <3>2, LiveBufferAssumption
      <4>2. c \in ToSet(free') <=> c \in ToSet(free)
        BY <1>3, <3>2
      <4> QED
        BY <1>0, <4>1, <4>2 DEF Placed
    <3> QED
      BY <3>1, <3>2
  <2>2. x \notin ToSet(full)
    BY <1>1 DEF Placed
  <2> QED
    BY <1>0, <1>3, <2>1, <2>2 DEF LbInv, PlaceInv
<1>CountInv. CountInv'
  <2>1. Live' = Live
    BY <1>1, <1>4 DEF Live
  <2> QED
    BY <1>0, <2>1 DEF LbInv, CountInv
<1>CaptureInv. CaptureInv'
  <2>1. CapOK(r, tx')
    BY <1>4 DEF CapOK
  <2> QED
    BY <1>1, <1>4, <2>1, OthersKeep
<1>FreshInv. FreshInv'
  <2>1. left' = left
    BY <1>0 DEF left
  <2> QED
    BY <1>0, <1>1, <1>4, <2>1, FreshFollows
<1>FillInv. FillInv'
  <2>1. cap[x].state # "filling"
    BY <1>1
  <2> QED
    BY <1>0, <1>1, <1>4, <2>1, FillStays
<1>RefInv. RefInv'
  BY <1>0, <1>1, <1>2, <1>4, RefsStay
<1> QED
  BY <1>same, <1>TypeInv, <1>ThreadInv, <1>PlaceInv, <1>CountInv, <1>CaptureInv,
     <1>FreshInv, <1>FillInv, <1>RefInv DEF LbInv

-----------------------------------------------------------------------------
(* The end of the live buffer.                                             *)

\* The subscriber leaves, and the tickets queued are returned.
LEMMA UnsubscribeKeeps ==
  ASSUME LbInv, unsubscribe
  PROVE  LbInv'
<1>0. UNCHANGED <<conf, changed, use, todo, trg, chk, serv_trg, stopping, cur, ofs, n,
                 capturing, filling, count_cap_buffs, cap, free, full, tx,
                 sending, resetting, fsize, delivered, commands>>
  BY DEF unsubscribe, config, trigger, pool, thread, sender, stream
<1>1. /\ pc = "wait" /\ cur = NoTicket /\ stopping /\ pc' = "txstop"
      /\ ref' = dropQueued /\ queue' = <<>>
  BY DEF unsubscribe, LbInv, ThreadInv
<1>2. ref' \in [Ticket -> Int] /\ queue' \in Seq(TicketSet)
  <2>1. ref \in [Ticket -> Int]
    BY DEF LbInv, TypeInv
  <2>2. <<>> \in Seq(TicketSet)
    OBVIOUS
  <2> QED
    BY <1>1, <2>1, <2>2 DEF dropQueued
<1>same. ConfInv' /\ CaptureInv'
  BY <1>0, ConfSame, CaptureSame
<1>TypeInv. TypeInv'
  BY <1>0, <1>1, <1>2 DEF LbInv, TypeInv
<1>ThreadInv. ThreadInv'
  BY <1>0, <1>1 DEF LbInv, ThreadInv, Acquiring
<1>PlaceInv. PlaceInv'
  BY <1>0, <1>1 DEF LbInv, PlaceInv, Placed
<1>CountInv. CountInv'
  BY <1>0, <1>1 DEF LbInv, CountInv, Live
<1>FreshInv. FreshInv'
  BY <1>0, <1>1 DEF LbInv, FreshInv, left
<1>OrderInv. OrderInv'
  BY <1>0, <1>1 DEF LbInv, OrderInv
<1>FillInv. FillInv'
  BY <1>0, <1>1 DEF LbInv, FillInv
<1>RefInv. RefInv'
  BY <1>0, <1>1, DropQueuedExact
<1> QED
  BY <1>same, <1>TypeInv, <1>ThreadInv, <1>PlaceInv, <1>CountInv, <1>FreshInv,
     <1>OrderInv, <1>FillInv, <1>RefInv DEF LbInv

\* As many pairs as first components.
LEMMA PairsOf ==
  ASSUME NEW H, IsFiniteSet(H), NEW T,
         \A c \in H : \E p \in T : p[1] = c,
         \A p \in T : p[1] \in H,
         \A p, q \in T : p[1] = q[1] => p = q
  PROVE  Cardinality(T) = Cardinality(H)
<1>1. PICK M : M = [c \in H |-> CHOOSE p \in T : p[1] = c]
  OBVIOUS
<1>2. \A c \in H : M[c] \in T /\ M[c][1] = c
  BY <1>1
<1>3. M \in [H -> T]
  BY <1>1, <1>2
<1>4. M \in Injection(H, T)
  BY <1>2, <1>3 DEF Injection, IsInjective
<1>5. ASSUME NEW p \in T
      PROVE  \E c \in H : M[c] = p
  BY <1>2
<1>6. M \in Surjection(H, T)
  BY <1>3, <1>5 DEF Surjection
<1>7. ExistsBijection(H, T)
  BY <1>4, <1>6 DEF ExistsBijection, Bijection
<1> QED
  BY <1>7, FS_Bijection

\* What onUninit returns of a ticket: the captures that are kept have all the
\* references, each one.
Returned(t) ==
  {p \in Kept \X (1 .. MaxTickets) : /\ p[2] <= Len(cap[p[1]].chunks)
                                     /\ cap[p[1]].chunks[p[2]].of.t = t}

LEMMA KeptHold ==
  ASSUME LbInv, Alive, sending = None, NEW t \in Ticket
  PROVE  Cardinality(Returned(t)) = Cardinality(Holders(cap, t))
<1>1. \A c \in Capture : c \in Kept <=> cap[c].state \in {"filling", "full"}
  BY LiveBufferAssumption DEF LbInv, PlaceInv, Placed, Kept, Alive
<1>2. \A c \in Capture : cap[c].state # "sending"
  BY LiveBufferAssumption DEF LbInv, PlaceInv, Placed, Alive
<1>3. Kept \subseteq Capture
  <2>1. ToSet(full) \subseteq Capture
    <3>1. full \in Seq(Capture)
      BY DEF LbInv, TypeInv
    <3> QED
      BY <3>1 DEF ToSet
  <2>2. filling \in Capture \cup {None}
    BY DEF LbInv, TypeInv
  <2> QED
    BY <2>1, <2>2 DEF Kept
<1>4. ASSUME NEW c \in Kept
      PROVE  /\ c \in Capture /\ Distinct(cap[c]) /\ cap[c].commit = 0
             /\ cap[c].state \in Held
             /\ Len(cap[c].chunks) \in Nat /\ Len(cap[c].chunks) <= MaxTickets
  <2>1. c \in Capture /\ cap[c] \in CapSet /\ cap[c].state \in {"filling", "full"}
    BY <1>1, <1>3 DEF LbInv, TypeInv
  <2>2. Distinct(cap[c]) /\ Chain(cap[c]) /\ cap[c].commit = 0
    BY <2>1 DEF LbInv, CaptureInv, CapOK, FillingOK, FullOK
  <2>3. PICK ch, L : ch = cap[c].chunks /\ L = Len(cap[c].chunks)
    OBVIOUS
  <2>4. ch \in Seq(ChunkSet) /\ L = Len(ch) /\ L \in Nat
    BY <2>1, <2>3 DEF CapSet
  <2>5. L <= MaxTickets
    <3>1. CASE L = 0
      BY <3>1, LiveBufferAssumption
    <3>2. CASE L # 0
      <4>1. 1 \in 1 .. L /\ L \in 1 .. L
        BY <2>4, <3>2
      <4>2. ch[1] \in ChunkSet /\ ch[L] \in ChunkSet
        BY <2>4, <4>1
      <4>3. ch[1].of.seq \in 1 .. MaxTickets /\ ch[L].of.seq \in 1 .. MaxTickets
        BY <4>2 DEF ChunkSet, TicketSet
      <4>4. ch[L].of.seq = ch[1].of.seq + L - 1
        BY <2>2, <2>3, <4>1 DEF Chain
      <4> QED
        BY <2>4, <4>3, <4>4, LiveBufferAssumption
    <3> QED
      BY <3>1, <3>2
  <2> QED
    BY <2>1, <2>2, <2>3, <2>4, <2>5 DEF Held
<1>5. IsFiniteSet(Holders(cap, t))
  BY HoldersFinite
<1>6. ASSUME NEW c \in Holders(cap, t)
      PROVE  \E p \in Returned(t) : p[1] = c
  <2>1. c \in Kept
    BY <1>1, <1>2 DEF Holders, Holds, Held
  <2>2. PICK i \in 1 .. Len(cap[c].chunks) : cap[c].chunks[i].of.t = t
    <3>1. \E i \in cap[c].commit + 1 .. Len(cap[c].chunks) : cap[c].chunks[i].of.t = t
      BY DEF Holders, Holds
    <3> QED
      BY <1>4, <2>1, <3>1
  <2>3. i \in 1 .. MaxTickets /\ i <= Len(cap[c].chunks)
    BY <1>4, <2>1, <2>2, LiveBufferAssumption
  <2>4. PICK p : p = <<c, i>>
    OBVIOUS
  <2>5. p \in Kept \X (1 .. MaxTickets) /\ p[1] = c /\ p[2] = i
    BY <2>1, <2>3, <2>4
  <2> QED
    BY <2>2, <2>3, <2>5 DEF Returned
<1>7. ASSUME NEW p \in Returned(t)
      PROVE  /\ p[1] \in Holders(cap, t) /\ p[1] \in Kept /\ p = <<p[1], p[2]>>
             /\ p[2] \in 1 .. Len(cap[p[1]].chunks) /\ cap[p[1]].chunks[p[2]].of.t = t
  <2>1. /\ p \in Kept \X (1 .. MaxTickets) /\ p[2] <= Len(cap[p[1]].chunks)
        /\ cap[p[1]].chunks[p[2]].of.t = t
    BY DEF Returned
  <2>2. p[1] \in Kept /\ p[2] \in 1 .. MaxTickets /\ p = <<p[1], p[2]>>
    BY <2>1
  <2>3. /\ p[1] \in Capture /\ cap[p[1]].commit = 0 /\ cap[p[1]].state \in Held
        /\ Len(cap[p[1]].chunks) \in Nat
    BY <1>4, <2>2
  <2>4. p[2] \in 1 .. Len(cap[p[1]].chunks)
    BY <2>1, <2>2, <2>3, LiveBufferAssumption
  <2>5. p[2] \in cap[p[1]].commit + 1 .. Len(cap[p[1]].chunks)
    BY <2>3, <2>4
  <2>6. p[1] \in Holders(cap, t)
    BY <2>1, <2>3, <2>5 DEF Holders, Holds
  <2> QED
    BY <2>1, <2>2, <2>4, <2>6
<1>8. ASSUME NEW p \in Returned(t), NEW q \in Returned(t), p[1] = q[1]
      PROVE  p = q
  <2>1. p[2] = q[2]
    BY <1>4, <1>7, <1>8 DEF Distinct
  <2> QED
    BY <1>7, <1>8, <2>1
<1> QED
  BY <1>5, <1>6, <1>7, <1>8, PairsOf

\* The captures that are left are given up, with all their references.
LEMMA OnUninitKeeps ==
  ASSUME LbInv, onUninit
  PROVE  LbInv'
<1>0. UNCHANGED <<conf, changed, use, todo, stopping, cur, ofs, tx, sending, running,
                 queue, resetting, fsize, delivered, commands>>
  BY DEF onUninit, config, trigger, pool, thread, sender, stream
<1>1. /\ pc = "txstop" /\ Alive /\ sending = None /\ queue = <<>> /\ cur = NoTicket
      /\ pc' \in {"end", "abort"}
  BY DEF onUninit, LbInv, ThreadInv, Alive
<1>2. /\ cap' = [c \in Capture |-> Dead] /\ cap' \in [Capture -> CapSet]
      /\ free' = <<>> /\ full' = <<>> /\ free' \in Seq(Capture) /\ full' \in Seq(Capture)
      /\ filling' = None /\ pc' \in {"end", "abort"}
  <2>1. /\ cap' = [c \in Capture |-> Dead] /\ free' = <<>> /\ full' = <<>> /\ filling' = None
        /\ pc' \in {"end", "abort"}
    BY DEF onUninit
  <2>2. <<>> \in Seq(ChunkSet) /\ <<>> \in Seq(Capture)
    OBVIOUS
  <2>3. Dead \in CapSet
    BY <2>2 DEF Dead, CapSet, States
  <2> QED
    BY <2>1, <2>2, <2>3
<1>3. /\ trg' \in {0, 1} /\ chk' \in {0, 1} /\ n' \in Nat
      /\ serv_trg' => trg' = 1 /\ chk' = 1
      /\ capturing' => n' <= use["capture"].N
  <2>1. CASE capturing
    <3>1. reset_capture
      BY <2>1 DEF onUninit
    <3>2. reset_trigger /\ n' = 0 /\ capturing' = FALSE
      BY <3>1 DEF reset_capture
    <3> QED
      BY <3>2, ResetTriggerIs
  <2>2. CASE ~capturing
    <3>1. UNCHANGED <<serv_trg, n, capturing, trigger>>
      BY <2>2 DEF onUninit
    <3> QED
      BY <2>2, <3>1 DEF trigger, LbInv, TypeInv, ThreadInv
  <2> QED
    BY <2>1, <2>2
<1>6. \A t \in Ticket : Cardinality(Returned(t)) = Cardinality(Holders(cap, t))
  BY <1>1, KeptHold
<1>4. /\ ref' \in [Ticket -> Int]
      /\ \A t \in Ticket : ref'[t] = ref[t] - Cardinality(Returned(t))
  <2>1. ref' = [t \in Ticket |-> ref[t] - Cardinality(Returned(t))]
    BY DEF onUninit, Returned
  <2>2. ASSUME NEW t \in Ticket
        PROVE  ref[t] - Cardinality(Returned(t)) \in Int
    <3>1. ref[t] \in Int /\ Cardinality(Returned(t)) \in Nat
      BY <1>6, HoldersFinite DEF LbInv, TypeInv
    <3> QED
      BY <3>1
  <2> QED
    BY <2>1, <2>2
<1>5. count_cap_buffs' \in Int
  <2>1. full \in Seq(Capture) /\ free \in Seq(Capture) /\ count_cap_buffs \in Int
        /\ filling \in Capture \cup {None}
    BY DEF LbInv, TypeInv
  <2>2. ToSet(full) \subseteq Capture
    BY <2>1 DEF ToSet
  <2>3. Kept \in SUBSET Capture
    BY <2>1, <2>2 DEF Kept
  <2>4. Cardinality(Kept) \in Nat /\ Len(free) \in Nat
    BY <2>1, <2>3, LiveBufferAssumption, FS_Subset, FS_CardinalityType
  <2> QED
    BY <2>1, <2>4 DEF onUninit
<1>same. ConfInv' /\ OrderInv'
  BY <1>0, ConfSame, OrderSame
<1>TypeInv. TypeInv'
  BY <1>0, <1>2, <1>3, <1>4, <1>5 DEF LbInv, TypeInv
<1>ThreadInv. ThreadInv'
  BY <1>0, <1>1, <1>2, <1>3 DEF LbInv, ThreadInv, Acquiring
<1>PlaceInv. PlaceInv'
  <2>1. ToSet(free') = {} /\ ToSet(full') = {}
    <3>1. ToSet(<<>>) = {}
      BY DEF ToSet
    <3> QED
      BY <1>2, <3>1
  <2>2. IsInjective(free') /\ IsInjective(full')
    <3>1. IsInjective(<<>>)
      BY DEF IsInjective
    <3> QED
      BY <1>2, <3>1
  <2>3. ASSUME NEW c \in Capture
        PROVE  Placed(c)'
    <3>1. /\ cap'[c] = Dead /\ cap'[c].state = "dead" /\ c # filling' /\ c # sending'
          /\ c \notin ToSet(full') /\ c \notin ToSet(free')
      BY <1>0, <1>1, <1>2, <2>1, LiveBufferAssumption DEF Dead
    <3> QED
      BY <3>1 DEF Placed
  <2> QED
    BY <2>1, <2>2, <2>3 DEF PlaceInv
<1>CountInv. CountInv'
  <2>1. Live' = {}
    BY <1>2 DEF Live, Dead
  <2>2. Cardinality(Live') = 0
    BY <2>1, FS_EmptySet
  <2>3. pc' # "abort" => count_cap_buffs' = 0
    BY DEF onUninit
  <2> QED
    BY <2>2, <2>3 DEF CountInv
<1>CaptureInv. CaptureInv'
  BY <1>2 DEF CaptureInv, CapOK, Dead
<1>FreshInv. FreshInv'
  <2>1. \A c \in Capture : cap'[c].state = "dead" /\ \A t : ~Holds(cap'[c], t)
    BY <1>2 DEF Dead, Holds, Held
  <2>2. queue' = <<>> /\ Len(queue') = 0
    BY <1>0, <1>1
  <2> QED
    BY <2>1, <2>2 DEF FreshInv
<1>FillInv. FillInv'
  BY <1>2 DEF FillInv
<1>RefInv. RefInv'
  <2>1. SUFFICES ASSUME NEW t \in Ticket
                 PROVE  ref'[t] = One(t \in Queued) + One(cur.t = t)
                                  + Cardinality(Holders(cap', t))
    BY <1>0 DEF RefInv, Queued
  <2>2. Holders(cap', t) = {}
    BY <1>2 DEF Holders, Holds, Held, Dead
  <2>3. Cardinality(Holders(cap', t)) = 0
    BY <2>2, FS_EmptySet
  <2>4. ref[t] = One(t \in Queued) + One(cur.t = t) + Cardinality(Holders(cap, t))
    BY DEF LbInv, RefInv
  <2>5. ref'[t] = ref[t] - Cardinality(Holders(cap, t))
    BY <1>4, <1>6
  <2>6. PICK v, w, a : v = One(t \in Queued) /\ w = One(cur.t = t) /\ a = Cardinality(Holders(cap, t))
    OBVIOUS
  <2>7. v \in {0, 1} /\ w \in {0, 1} /\ a \in Nat
    BY <2>6, HoldersFinite DEF One
  <2>8. ref'[t] = v + w + 0
    BY <2>4, <2>5, <2>6, <2>7
  <2> QED
    BY <2>3, <2>6, <2>8
<1> QED
  BY <1>same, <1>TypeInv, <1>ThreadInv, <1>PlaceInv, <1>CountInv, <1>CaptureInv,
     <1>FreshInv, <1>FillInv, <1>RefInv DEF LbInv


-----------------------------------------------------------------------------
(* The invariant.                                                          *)

LEMMA LbInitInv ==
  ASSUME LbInit
  PROVE  LbInv
<1>1. PICK none : none = <<>>
  OBVIOUS
<1>2. /\ \A S : none \in Seq(S)
      /\ Len(none) = 0 /\ ToSet(none) = {} /\ IsInjective(none)
  <2>1. \A S : none \in Seq(S)
    BY <1>1
  <2>2. ToSet(none) = {} /\ IsInjective(none)
    BY <1>1 DEF ToSet, IsInjective
  <2> QED
    BY <1>1, <2>1, <2>2
<1>3. /\ todo = none /\ free = none /\ full = none /\ queue = none
      /\ filling = None /\ sending = None /\ cur = NoTicket /\ ofs = 0 /\ n = 0
      /\ cap = [c \in Capture |-> Dead] /\ count_cap_buffs = 0 /\ tx = "new"
      /\ pc = "wait" /\ capturing = FALSE /\ serv_trg = FALSE
      /\ ref = [t \in Ticket |-> 0] /\ delivered = 0
  BY <1>1 DEF LbInit
<1>4. Dead \in CapSet
  <2>1. <<>> \in Seq(ChunkSet)
    OBVIOUS
  <2> QED
    BY <2>1 DEF Dead, CapSet, States
<1>5. \A c \in Capture : cap[c] = Dead /\ cap[c].state = "dead"
  BY <1>3 DEF Dead
<1>ConfInv. ConfInv
  <2>1. Cardinality(Capture) \in Nat
    BY LiveBufferAssumption, FS_CardinalityType
  <2>2. Disabled \in {r \in Rule : r.N0 <= r.N}
    BY DEF Disabled, Rule
  <2>3. [max |-> Cardinality(Capture), chunks |-> MaxTickets + 1]
          \in [max : 0 .. Cardinality(Capture), chunks : Nat]
    BY <2>1, LiveBufferAssumption
  <2>4. Start \in ConfSet
    BY <2>2, <2>3 DEF Start, ConfSet
  <2>5. conf = Start /\ use = Start
    BY DEF LbInit
  <2> QED
    BY <1>2, <1>3, <2>4, <2>5 DEF ConfInv
<1>TypeInv. TypeInv
  <2>1. trg = 0 /\ chk = 0 /\ fsize \in FrameSize
    BY DEF LbInit
  <2>2. cap \in [Capture -> CapSet] /\ ref \in [Ticket -> Int]
    BY <1>3, <1>4
  <2>3. delivered \in 0 .. MaxTickets
    BY <1>3, LiveBufferAssumption
  <2> QED
    BY <1>2, <1>3, <2>1, <2>2, <2>3 DEF TypeInv
<1>ThreadInv. ThreadInv
  BY <1>1, <1>3 DEF ThreadInv, NoTicket, Acquiring
<1>PlaceInv. PlaceInv
  <2>1. ASSUME NEW c \in Capture
        PROVE  Placed(c)
    BY <1>2, <1>3, <1>5, LiveBufferAssumption DEF Placed
  <2> QED
    BY <1>2, <1>3, <2>1 DEF PlaceInv
<1>CountInv. CountInv
  <2>1. Live = {}
    BY <1>5 DEF Live
  <2> QED
    BY <1>3, <2>1, FS_EmptySet DEF CountInv
<1>CaptureInv. CaptureInv
  BY <1>5 DEF CaptureInv, CapOK
<1>FreshInv. FreshInv
  BY <1>2, <1>3, <1>5 DEF FreshInv
<1>OrderInv. OrderInv
  BY <1>2, <1>3 DEF OrderInv
<1>FillInv. FillInv
  BY <1>3 DEF FillInv
<1>RefInv. RefInv
  <2>1. SUFFICES ASSUME NEW t \in Ticket
                 PROVE  ref[t] = One(t \in Queued) + One(cur.t = t) + Cardinality(Holders(cap, t))
    BY DEF RefInv
  <2>2. Holders(cap, t) = {}
    BY <1>5 DEF Holders, Holds, Held
  <2>3. Cardinality(Holders(cap, t)) = 0
    BY <2>2, FS_EmptySet
  <2>4. One(t \in Queued) = 0
    BY <1>2, <1>3 DEF Queued, One
  <2>5. One(cur.t = t) = 0
    <3>1. cur.t = 0 /\ t # 0
      BY <1>3, LiveBufferAssumption DEF NoTicket
    <3> QED
      BY <3>1 DEF One
  <2>6. ref[t] = 0
    BY <1>3
  <2> QED
    BY <2>3, <2>4, <2>5, <2>6
<1> QED
  BY <1>ConfInv, <1>TypeInv, <1>ThreadInv, <1>PlaceInv, <1>CountInv,
     <1>CaptureInv, <1>FreshInv, <1>OrderInv, <1>FillInv, <1>RefInv DEF LbInv

LEMMA LbStutter ==
  ASSUME LbInv, UNCHANGED lbVars
  PROVE  LbInv'
<1>0. UNCHANGED <<conf, changed, use, todo, trg, chk, serv_trg, pc, stopping, cur,
                 ofs, n, capturing, filling, count_cap_buffs, cap, free, full,
                 tx, sending, running, queue, ref, resetting, fsize, delivered,
                 commands>>
  BY DEF lbVars, config, trigger, pool, thread, sender, stream
<1>same. ConfInv' /\ TypeInv' /\ ThreadInv' /\ PlaceInv' /\ CountInv'
         /\ CaptureInv' /\ FreshInv' /\ OrderInv' /\ FillInv' /\ RefInv'
  BY <1>0, ConfSame, TypeSame, ThreadSame, PlaceSame, CountSame, CaptureSame,
     FreshSame, OrderSame, FillSame, RefSame
<1> QED
  BY <1>same DEF LbInv

LEMMA LbStep ==
  ASSUME LbInv, [LbNext]_lbVars
  PROVE  LbInv'
<1>1. CASE Thread
  <2>1. CASE getNext \/ put \/ insert \/ insertLast \/ insertFails \/ drop
    BY <2>1, GetNextKeeps, PutKeeps, InsertKeeps, InsertLastKeeps, InsertFailsKeeps, DropKeeps
  <2>2. CASE check_config \/ check_trigger \/ cleanup \/ takeFree \/ noneFree
    BY <2>2, Check_configKeeps, Check_triggerKeeps, CleanupKeeps, TakeFreeKeeps, NoneFreeKeeps
  <2>3. CASE newCapture \/ vampire \/ noBuffer \/ unsubscribe \/ onUninit
    BY <2>3, NewCaptureKeeps, VampireKeeps, NoBufferKeeps, UnsubscribeKeeps, OnUninitKeeps
  <2> QED
    BY <1>1, <2>1, <2>2, <2>3 DEF Thread
<1>2. CASE Transmitter
  BY <1>2, TxTakeKeeps, SendKeeps, SendNothingKeeps, TxReturnKeeps, TxDoneKeeps,
      TxStartKeeps DEF Transmitter
<1>3. CASE Receive
  BY <1>3, DeliverKeeps, OnResetKeeps, ResetDoneKeeps DEF Receive
<1>4. CASE Command
  BY <1>4, OnBufKeeps, ConfigureKeeps, Trigger_captureKeeps DEF Command
<1>5. CASE interrupt
  BY <1>5, InterruptKeeps
<1>6. CASE UNCHANGED lbVars
  BY <1>6, LbStutter
<1> QED
  BY <1>1, <1>2, <1>3, <1>4, <1>5, <1>6 DEF LbNext

\* What is known of captures, of the stream of tickets and of the counts of
\* references, at every step of the threads, the receiver and the commands.
THEOREM LbInvariant == LbSpec => []LbInv
<1>1. LbInit => LbInv
  BY LbInitInv
<1>2. LbInv /\ [LbNext]_lbVars => LbInv'
  BY LbStep
<1> QED
  BY <1>1, <1>2, PTL DEF LbSpec

LEMMA InvTypeOK ==
  ASSUME LbInv
  PROVE  LbTypeOK
<1>1. ASSUME pc # "abort", NEW c \in Capture
      PROVE  /\ Placed(c)
             /\ cap[c].state \notin {"filling", "sending", "full", "free"} => cap[c] = Dead
  <2>1. Placed(c)
    BY <1>1 DEF LbInv, PlaceInv
  <2>2. cap[c].state \in States
    BY DEF LbInv, TypeInv, CapSet
  <2>3. cap[c].state \notin {"filling", "sending", "full", "free"} => cap[c].state = "dead"
    BY <2>2 DEF States
  <2> QED
    BY <2>1, <2>3 DEF Placed
<1>2. IsInjective(free \o full)
  BY ConcatOf DEF LbInv, TypeInv, PlaceInv
<1>3. ofs \in 0 .. cur.cnt
  <2>1. cur.cnt \in Nat /\ ofs \in Nat /\ ofs <= cur.cnt
    BY DEF LbInv, TypeInv, ThreadInv, TicketSet, NoTicket
  <2> QED
    BY <2>1
<1>4. /\ serv_trg => trg = 1 /\ chk = 1
      /\ filling # None => capturing
  BY DEF LbInv, ThreadInv
<1>5. pc # "abort" => count_cap_buffs >= Cardinality(Live)
  BY DEF LbInv, CountInv
<1> QED
  BY <1>1, <1>2, <1>3, <1>4, <1>5 DEF LbTypeOK, Placed

\* Captures are where their state says, in one place each, and every
\* reference to a ticket is accounted for: neither thread returns one twice or
\* loses one, whatever is dropped, given up, sent or cancelled.
THEOREM LbCapturesSound == LbSpec => []CapturesSound
<1>1. LbInv => CapturesSound
  <2>1. ASSUME LbInv
        PROVE  ReferencesBalanced
    <3>1. SUFFICES ASSUME NEW t \in Ticket
                   PROVE  ref[t] = (IF t \in Queued THEN 1 ELSE 0)
             + (IF cur.t = t THEN 1 ELSE 0)
             + Cardinality({c \in Capture :
                 /\ cap[c].state \in {"filling", "full", "sending"}
                 /\ \E i \in cap[c].commit + 1 .. Len(cap[c].chunks) : cap[c].chunks[i].of.t = t})
      BY DEF ReferencesBalanced
    <3>2. ref[t] = One(t \in Queued) + One(cur.t = t) + Cardinality(Holders(cap, t))
      BY <2>1 DEF LbInv, RefInv
    <3> QED
      BY <3>2 DEF One, Holders, Holds, Held
  <2> QED
    BY <2>1, InvTypeOK DEF CapturesSound
<1> QED
  BY <1>1, LbInvariant, PTL

\* A capture is a piece of the stream without gaps, and its tickets are still
\* there, whatever else the threads, the commands and the receiver do.
THEOREM LbContiguous == LbSpec => []CaptureIsContiguous
<1>1. ASSUME LbInv, NEW c \in Capture, cap[c].state \in {"filling", "full"},
             NEW ch, ch = cap[c].chunks
      PROVE  /\ \A i \in 1 .. Len(ch) :
                  /\ ch[i].count > 0 /\ ref[ch[i].of.t] > 0
                  /\ ch[i].index + ch[i].count <= ch[i].of.cnt
                  /\ ch[i].of.fs = cap[c].fs
             /\ \A i \in 1 .. Len(ch) - 1 :
                  /\ ch[i + 1].of.seq = ch[i].of.seq + 1
                  /\ ch[i + 1].index = 0
                  /\ ch[i].index + ch[i].count = ch[i].of.cnt
  <2>1. Chain(cap[c]) /\ cap[c].commit = 0 /\ cap[c] \in CapSet
    BY <1>1 DEF LbInv, TypeInv, CaptureInv, CapOK, FillingOK, FullOK
  <2>2. ch \in Seq(ChunkSet) /\ Len(ch) \in Nat
    BY <1>1, <2>1 DEF CapSet
  <2>3. ASSUME NEW i \in 1 .. Len(ch)
        PROVE  /\ ch[i].of.t \in Ticket /\ ch[i].of.seq \in Nat /\ ch[i].count > 0
    <3>1. ch[i] \in ChunkSet
      BY <2>2
    <3> QED
      BY <3>1 DEF ChunkSet, TicketSet
  <2>4. ASSUME NEW i \in 1 .. Len(ch)
        PROVE  ref[ch[i].of.t] > 0
    <3>1. PICK t : t = ch[i].of.t
      OBVIOUS
    <3>2. Holds(cap[c], t)
      BY <1>1, <2>1, <3>1 DEF Holds, Held
    <3>3. t \in Ticket
      BY <2>3, <3>1
    <3>4. ref[t] # 0
      BY <1>1, <3>2, <3>3, NoReference
    <3>5. ref[t] = One(t \in Queued) + One(cur.t = t) + Cardinality(Holders(cap, t))
      BY <1>1, <3>3 DEF LbInv, RefInv
    <3>6. PICK v, w, a : v = One(t \in Queued) /\ w = One(cur.t = t) /\ a = Cardinality(Holders(cap, t))
      OBVIOUS
    <3>7. v \in {0, 1} /\ w \in {0, 1} /\ a \in Nat
      BY <3>6, HoldersFinite DEF One
    <3> QED
      BY <3>1, <3>4, <3>5, <3>6, <3>7
  <2>5. ASSUME NEW i \in 1 .. Len(ch)
        PROVE  /\ ch[i].index + ch[i].count <= ch[i].of.cnt
               /\ ch[i].of.fs = cap[c].fs
               /\ ch[i].of.seq = ch[1].of.seq + i - 1
               /\ i > 1 => ch[i].index = 0
               /\ i < Len(ch) => ch[i].index + ch[i].count = ch[i].of.cnt
    BY <1>1, <2>1 DEF Chain
  <2>6. ASSUME NEW i \in 1 .. Len(ch) - 1
        PROVE  /\ ch[i + 1].of.seq = ch[i].of.seq + 1
               /\ ch[i + 1].index = 0
               /\ ch[i].index + ch[i].count = ch[i].of.cnt
    <3>1. i \in 1 .. Len(ch) /\ i + 1 \in 1 .. Len(ch) /\ i + 1 > 1 /\ i < Len(ch) /\ 1 \in 1 .. Len(ch)
      BY <2>2
    <3>2. ch[1].of.seq \in Nat
      BY <2>3, <3>1
    <3>3. ch[i + 1].of.seq = ch[1].of.seq + (i + 1) - 1 /\ ch[i].of.seq = ch[1].of.seq + i - 1
      BY <2>5, <3>1
    <3>4. ch[i + 1].of.seq = ch[i].of.seq + 1
      <4>1. PICK a, b, s : a = ch[i + 1].of.seq /\ b = ch[i].of.seq /\ s = ch[1].of.seq
        OBVIOUS
      <4>2. s \in Nat /\ i \in Nat
        BY <2>2, <3>2, <4>1
      <4>3. a = s + (i + 1) - 1 /\ b = s + i - 1
        BY <3>3, <4>1
      <4>4. a = b + 1
        BY <4>2, <4>3
      <4> QED
        BY <4>1, <4>4
    <3> QED
      BY <2>5, <3>1, <3>4
  <2> QED
    BY <2>3, <2>4, <2>5, <2>6
<1>2. LbInv => CaptureIsContiguous
  BY <1>1 DEF CaptureIsContiguous
<1> QED
  BY <1>2, LbInvariant, PTL
=============================================================================
