--------------------------- MODULE ScheduleProofs ---------------------------
(***************************************************************************)
(* Theorems about Schedule, for every set of operations, every choice of   *)
(* commands and slots and every clock: the queue stays in order and free   *)
(* of conflicts, operations work one at a time and get their callbacks by  *)
(* the protocol, and none of them early.  They rest on the functions of    *)
(* TimeSlots being those of intervals of the time line, for every length   *)
(* of a day, every word size and every calendar that fits in a word.       *)
(***************************************************************************)
EXTENDS Schedule, MCTimeSlots, SequenceTheorems, WellFoundedInduction, TLAPS

-----------------------------------------------------------------------------
(* Stamps and slots.                                                       *)

\* FromMillis gives a normalised stamp, whatever wrapped round.
LEMMA FromMillisType ==
  ASSUME NEW q \in Int
  PROVE  /\ FromMillis(q) \in AnyStamp
         /\ FromMillis(q).MPM < MillisPerDay
<1>1. q % Word \in Nat
  BY TimeAssumption
<1>2. ASSUME NEW n \in Nat
      PROVE  n \div MillisPerDay \in Nat /\ n % MillisPerDay \in 0 .. MillisPerDay - 1
  BY TimeAssumption
<1>3. /\ (q % Word) \div MillisPerDay \in Nat
      /\ (q % Word) % MillisPerDay \in 0 .. MillisPerDay - 1
  BY <1>1, <1>2
<1> QED
  BY <1>3, TimeAssumption DEF FromMillis, TimeStamp, AnyStamp

\* A stamp is a number of milliseconds.
LEMMA MillisType ==
  ASSUME NEW t \in AnyStamp
  PROVE  Millis(t) \in Nat
<1>1. t.MJD \in Nat /\ t.MPM \in Nat /\ MillisPerDay \in Nat
  BY TimeAssumption DEF AnyStamp
<1>2. t.MJD * MillisPerDay \in Nat
  BY <1>1
<1> QED
  BY <1>1, <1>2 DEF Millis

\* The end of a slot is a stamp, and a widened slot is a slot.
LEMMA SlotTypes ==
  ASSUME NEW ts \in AnySlot, NEW w \in Nat
  PROVE  /\ ts.start \in AnyStamp /\ ts.duration \in Nat
         /\ stop(ts) \in AnyStamp
         /\ applyWindow(ts, w) \in AnySlot
<1>1. ts.start \in AnyStamp /\ ts.duration \in 0..FOREVER
  BY DEF AnySlot
<1>2. ts.duration \in Nat /\ FOREVER \in Nat
  BY <1>1, TimeAssumption DEF FOREVER
<1>3. Millis(ts.start) \in Nat
  BY <1>1, MillisType
<1>4. stop(ts) \in AnyStamp
  BY <1>2, <1>3, FromMillisType DEF stop, addTime
<1>5. subTime(ts.start, w) \in AnyStamp
  BY <1>3, FromMillisType DEF subTime
<1>6. (ts.duration + 2 * w) % Word \in 0..FOREVER
  BY <1>2, TimeAssumption DEF FOREVER
<1> QED
  BY <1>1, <1>2, <1>4, <1>5, <1>6 DEF applyWindow, TimeSlot, AnySlot

-----------------------------------------------------------------------------
(* The order on stamps.                                                    *)

\* compareTimestamps is the lexical order: it has one of three values, two
\* stamps compare as the reverse of each other, and "before" is transitive.
LEMMA CompareLexical ==
  ASSUME NEW a \in AnyStamp, NEW b \in AnyStamp, NEW c \in AnyStamp
  PROVE  /\ compareTimestamps(a, b) \in {-1, 0, 1}
         /\ compareTimestamps(a, b) = 1 <=> compareTimestamps(b, a) = -1
         /\ compareTimestamps(a, b) = 0 <=> a = b
         /\ compareTimestamps(a, b) = -1 /\ compareTimestamps(b, c) = -1
              => compareTimestamps(a, c) = -1
<1>1. {a.MJD, a.MPM, b.MJD, b.MPM, c.MJD, c.MPM} \subseteq Nat
  BY DEF AnyStamp
<1>2. a.MJD = b.MJD /\ a.MPM = b.MPM => a = b
  BY DEF AnyStamp
<1> QED
  BY <1>1, <1>2 DEF compareTimestamps

\* Days of m milliseconds that come later begin later.
LEMMA DaysGrow ==
  ASSUME NEW x \in Nat, NEW y \in Nat, NEW m \in Nat, x < y
  PROVE  x * m + m <= y * m
<1>1. PICK d \in Nat : y = x + 1 + d
  <2>1. y - x - 1 \in Nat /\ y = x + 1 + (y - x - 1)
    OBVIOUS
  <2> QED
    BY <2>1
<1>2. d * m \in Nat /\ x * m \in Nat
  OBVIOUS
<1>3. y * m = x * m + m + d * m
  BY <1>1
<1> QED
  BY <1>2, <1>3

\* On normalised stamps the lexical order is that of the time line.
LEMMA CompareIsMillis ==
  ASSUME NEW a, NEW b, Normalised(a), Normalised(b)
  PROVE  /\ compareTimestamps(a, b) = -1 <=> Millis(a) < Millis(b)
         /\ compareTimestamps(a, b) = 1 <=> Millis(a) > Millis(b)
<1> DEFINE ma == a.MJD * MillisPerDay
           mb == b.MJD * MillisPerDay
<1>1. {a.MJD, a.MPM, b.MJD, b.MPM, MillisPerDay} \subseteq Nat
  BY TimeAssumption DEF Normalised, AnyStamp
<1>2. ma \in Nat /\ mb \in Nat
  BY <1>1
<1>3. a.MJD < b.MJD => ma + MillisPerDay <= mb
  BY <1>1, DaysGrow
<1>4. b.MJD < a.MJD => mb + MillisPerDay <= ma
  BY <1>1, DaysGrow
<1>5. Millis(a) = ma + a.MPM /\ Millis(b) = mb + b.MPM
  BY DEF Millis
<1>6. a.MJD = b.MJD => ma = mb
  OBVIOUS
<1>7. a.MPM < MillisPerDay /\ b.MPM < MillisPerDay
  BY DEF Normalised
<1> HIDE DEF ma, mb
<1> QED
  BY <1>1, <1>2, <1>3, <1>4, <1>5, <1>6, <1>7 DEF compareTimestamps

\* A count of milliseconds that fits in a word survives the conversion.
LEMMA FromMillisMillis ==
  ASSUME NEW q \in Nat, q < Word
  PROVE  Normalised(FromMillis(q)) /\ Millis(FromMillis(q)) = q
<1>1. q % Word = q
  BY TimeAssumption
<1>2. (q \div MillisPerDay) * MillisPerDay + (q % MillisPerDay) = q
  BY TimeAssumption
<1>3. FromMillis(q) = [MJD |-> q \div MillisPerDay, MPM |-> q % MillisPerDay]
  BY <1>1 DEF FromMillis, TimeStamp
<1>4. Millis(FromMillis(q)) = q
  BY <1>2, <1>3 DEF Millis
<1>5. q \in Int
  OBVIOUS
<1> QED
  BY <1>4, <1>5, FromMillisType DEF Normalised

-----------------------------------------------------------------------------
(* Slots that fit in a word.                                               *)

\* The end of such a slot is where the time line has it.
LEMMA StopIsMillis ==
  ASSUME NEW ts, NEW w \in Nat, Fits(ts, w), ts.duration # FOREVER
  PROVE  Normalised(stop(ts)) /\ Millis(stop(ts)) = Millis(ts.start) + ts.duration
<1>1. Millis(ts.start) \in Nat /\ ts.duration \in Nat
  BY SlotTypes, MillisType DEF Fits
<1>2. Millis(ts.start) + ts.duration \in Nat /\ Millis(ts.start) + ts.duration < Word
  BY <1>1, TimeAssumption DEF Fits, FOREVER
<1> QED
  BY <1>2, FromMillisMillis DEF stop, addTime

\* A window that fits moves the start back and the end on, and nothing wraps.
LEMMA WindowIsMillis ==
  ASSUME NEW ts, NEW w \in Nat, Fits(ts, w)
  PROVE  LET p == applyWindow(ts, w)
         IN  /\ Fits(p, 0)
             /\ Millis(p.start) = Millis(ts.start) - w
             /\ ts.duration = FOREVER <=> p.duration = FOREVER
             /\ ts.duration # FOREVER =>
                  Millis(p.start) + p.duration = Millis(ts.start) + ts.duration + w
<1> DEFINE p == applyWindow(ts, w)
<1>1. Millis(ts.start) \in Nat /\ ts.duration \in Nat /\ p \in AnySlot
  BY SlotTypes, MillisType DEF Fits
<1>2. Millis(ts.start) - w \in Nat /\ Millis(ts.start) - w < Word
  BY <1>1, TimeAssumption DEF Fits
<1>3. p.start = FromMillis(Millis(ts.start) - w)
  BY DEF applyWindow, TimeSlot, subTime
<1>4. Normalised(p.start) /\ Millis(p.start) = Millis(ts.start) - w
  BY <1>2, <1>3, FromMillisMillis
<1>5. CASE ts.duration = FOREVER
  <2>1. p.duration = FOREVER
    BY <1>5 DEF applyWindow, TimeSlot
  <2> QED
    BY <1>1, <1>2, <1>4, <1>5, <2>1 DEF Fits
<1>6. CASE ts.duration # FOREVER
  <2>1. Millis(ts.start) + ts.duration + w < FOREVER /\ w <= Millis(ts.start)
    BY <1>6 DEF Fits
  <2>2. ts.duration + 2 * w \in Nat /\ ts.duration + 2 * w < Word
    BY <1>1, <2>1, TimeAssumption DEF FOREVER
  <2>3. (ts.duration + 2 * w) % Word = ts.duration + 2 * w
    BY <2>2, TimeAssumption
  <2>4. p.duration = ts.duration + 2 * w
    BY <1>6, <2>3 DEF applyWindow, TimeSlot
  <2>5. Millis(p.start) + p.duration = Millis(ts.start) + ts.duration + w
    BY <1>1, <1>4, <2>4
  <2>6. p.duration # FOREVER
    BY <1>1, <2>1, <2>4, TimeAssumption DEF FOREVER
  <2> QED
    BY <1>1, <1>2, <1>4, <1>6, <2>1, <2>5, <2>6 DEF Fits
<1> QED
  BY <1>5, <1>6

-----------------------------------------------------------------------------
(* The order on slots.                                                     *)

\* "Before" and "after" of compareSlots are the reverse of each other, no
\* slot is before itself, and "before" is transitive: what OpsQueue's sorted
\* list needs, for all slots, wrapped round or not.
LEMMA SlotOrder ==
  ASSUME NEW a \in AnySlot, NEW b \in AnySlot, NEW c \in AnySlot
  PROVE  /\ compareSlots(a, b) \in {-1, 0, 1}
         /\ compareSlots(a, b) = 1 => compareSlots(b, a) = -1
         /\ compareSlots(a, a) # -1
         /\ compareSlots(a, b) = -1 /\ compareSlots(b, c) = -1
              => compareSlots(a, c) = -1
<1>1. {a.start, b.start, c.start, stop(a), stop(b)} \subseteq AnyStamp
  BY SlotTypes, 0 \in Nat
<1>2. \A x, y, z \in AnyStamp :
        /\ compareTimestamps(x, y) \in {-1, 0, 1}
        /\ compareTimestamps(x, y) = 1 <=> compareTimestamps(y, x) = -1
        /\ compareTimestamps(x, y) = 0 <=> x = y
        /\ compareTimestamps(x, y) = -1 /\ compareTimestamps(y, z) = -1
             => compareTimestamps(x, z) = -1
  BY CompareLexical
<1>3. compareSlots(a, b) \in {-1, 0, 1}
  BY <1>1, <1>2 DEF compareSlots
<1>4. compareSlots(a, b) = 1 => compareSlots(b, a) = -1
  BY <1>1, <1>2 DEF compareSlots
<1>5. compareSlots(a, a) # -1
  BY <1>1, <1>2 DEF compareSlots
<1>6. ASSUME compareSlots(a, b) = -1, compareSlots(b, c) = -1
      PROVE  compareSlots(a, c) = -1
  <2>1. /\ compareTimestamps(a.start, b.start) = -1
        /\ a.duration # FOREVER
        /\ compareTimestamps(stop(a), b.start) = -1
    BY <1>1, <1>2, <1>6 DEF compareSlots
  <2>2. compareTimestamps(b.start, c.start) = -1
    BY <1>1, <1>2, <1>6 DEF compareSlots
  <2>3. /\ compareTimestamps(a.start, c.start) = -1
        /\ compareTimestamps(stop(a), c.start) = -1
    BY <1>1, <1>2, <2>1, <2>2
  <2> QED
    BY <2>1, <2>3 DEF compareSlots
<1> QED
  BY <1>3, <1>4, <1>5, <1>6

\* For slots that fit in a word, compareSlots is the order of intervals.
LEMMA CompareIsBefore ==
  ASSUME NEW a, NEW b, Fits(a, 0), Fits(b, 0)
  PROVE  /\ compareSlots(a, b) = -1 <=> Before(a, b)
         /\ compareSlots(a, b) = 1 <=> Before(b, a)
         /\ ~(Before(a, b) /\ Before(b, a))
<1>1. /\ Millis(a.start) \in Nat /\ Millis(b.start) \in Nat
      /\ a.duration \in Nat /\ b.duration \in Nat
      /\ Millis(a.start) < Word /\ Millis(b.start) < Word /\ Word \in Nat
      /\ Normalised(a.start) /\ Normalised(b.start)
  BY SlotTypes, MillisType, TimeAssumption DEF Fits
<1>2. /\ a.duration # FOREVER =>
           Normalised(stop(a)) /\ Millis(stop(a)) = Millis(a.start) + a.duration
      /\ b.duration # FOREVER =>
           Normalised(stop(b)) /\ Millis(stop(b)) = Millis(b.start) + b.duration
  BY StopIsMillis, 0 \in Nat
<1>3. /\ compareTimestamps(a.start, b.start) = -1 <=> Millis(a.start) < Millis(b.start)
      /\ compareTimestamps(a.start, b.start) = 1 <=> Millis(a.start) > Millis(b.start)
  BY <1>1, CompareIsMillis
<1>4. /\ a.duration # FOREVER =>
           (compareTimestamps(stop(a), b.start) = -1
              <=> Millis(a.start) + a.duration < Millis(b.start))
      /\ b.duration # FOREVER =>
           (compareTimestamps(stop(b), a.start) = -1
              <=> Millis(b.start) + b.duration < Millis(a.start))
  BY <1>1, <1>2, CompareIsMillis
<1>5. /\ Before(a, b) <=> a.duration # FOREVER /\ Millis(a.start) + a.duration < Millis(b.start)
      /\ Before(b, a) <=> b.duration # FOREVER /\ Millis(b.start) + b.duration < Millis(a.start)
  BY <1>1 DEF Before, LastMilli, Horizon
<1> QED
  BY <1>1, <1>3, <1>4, <1>5 DEF compareSlots

\* overlaps is intersection, except that a slot without an end overlaps all.
LEMMA OverlapsIsIntersect ==
  ASSUME NEW a, NEW b, Fits(a, 0), Fits(b, 0)
  PROVE  overlaps(a, b) <=> Intersect(a, b) \/ FOREVER \in {a.duration, b.duration}
<1>1. CASE FOREVER \in {a.duration, b.duration}
  BY <1>1 DEF overlaps
<1>2. CASE FOREVER \notin {a.duration, b.duration}
  <2>1. /\ Millis(a.start) \in Nat /\ Millis(b.start) \in Nat
        /\ a.duration \in Nat /\ b.duration \in Nat
        /\ Normalised(a.start) /\ Normalised(b.start)
    BY SlotTypes, MillisType, 0 \in Nat DEF Fits
  <2>2. /\ Normalised(stop(a)) /\ Millis(stop(a)) = Millis(a.start) + a.duration
        /\ Normalised(stop(b)) /\ Millis(stop(b)) = Millis(b.start) + b.duration
    BY <1>2, StopIsMillis, 0 \in Nat
  <2>3. \A x, y : Normalised(x) /\ Normalised(y) =>
          /\ compareTimestamps(x, y) = -1 <=> Millis(x) < Millis(y)
          /\ compareTimestamps(x, y) = 1 <=> Millis(x) > Millis(y)
    BY CompareIsMillis
  <2>4. overlaps(a, b) <=>
          /\ ~(Millis(a.start) < Millis(b.start) /\ Millis(stop(a)) < Millis(b.start))
          /\ ~(Millis(a.start) > Millis(stop(b)) /\ Millis(stop(a)) > Millis(stop(b)))
    BY <1>2, <2>1, <2>2, <2>3 DEF overlaps
  <2>5. Intersect(a, b) <=>
          /\ ~(Millis(a.start) + a.duration < Millis(b.start))
          /\ ~(Millis(b.start) + b.duration < Millis(a.start))
    BY <1>2 DEF Intersect, Before, LastMilli
  <2> QED
    BY <1>2, <2>1, <2>2, <2>4, <2>5
<1> QED
  BY <1>1, <1>2

\* A stamp is early or in the slot, and never late.
LEMMA StampIsStart ==
  ASSUME NEW a, NEW b, Fits(a, 0), Normalised(b)
  PROVE  compareStamp(a, b) = IF Millis(b) < Millis(a.start) THEN -1 ELSE 0
<1>1. Normalised(a.start)
  BY DEF Fits
<1>2. compareTimestamps(b, a.start) = -1 <=> Millis(b) < Millis(a.start)
  BY <1>1, CompareIsMillis
<1>3. \A s, t : compareUnending(s, t) =
                 IF compareTimestamps(t, s.start) = -1 THEN -1 ELSE 0
  BY DEF compareUnending
<1>4. compareUnending(TimeSlot(b, FOREVER), stop(a)) <= 0
  BY <1>3
<1> QED
  BY <1>2, <1>3, <1>4 DEF compareStamp

\* A slot of the calendar fits in a word with its window around it.
LEMMA CalendarFits ==
  ASSUME NEW s \in Slots
  PROVE  Fits(s, Padding) /\ Fits(s, 0)
<1>1. /\ MillisPerDay \in Nat /\ MillisPerDay > 0 /\ Word \in Nat
      /\ Days \in Nat /\ MaxDuration \in Nat /\ Padding \in Nat
  BY TimeAssumption, SlotAssumption
<1>2. /\ s.start.MJD \in 1..Days /\ s.start.MPM \in 0..(MillisPerDay - 1)
      /\ s.start = [MJD |-> s.start.MJD, MPM |-> s.start.MPM]
      /\ s.duration \in (0..MaxDuration) \cup {FOREVER}
      /\ s = [start |-> s.start, duration |-> s.duration]
  BY DEF Slots, Stamps
<1>3. Normalised(s.start)
  BY <1>1, <1>2 DEF Normalised, AnyStamp
<1> DEFINE day == s.start.MJD * MillisPerDay
<1>4. day \in Nat /\ 0 * MillisPerDay + MillisPerDay <= day
  BY <1>1, <1>2, DaysGrow
<1>5. Millis(s.start) = day + s.start.MPM
  BY DEF Millis
<1>6. day + MillisPerDay <= (Days + 1) * MillisPerDay
  BY <1>1, <1>2, DaysGrow
<1>7. (Days + 1) * MillisPerDay \in Nat /\ (Days + 1) * MillisPerDay + MaxDuration + Padding < Word
  BY <1>1, SlotAssumption
<1> HIDE DEF day
<1>8. Millis(s.start) \in Nat /\ Padding <= Millis(s.start) /\ Millis(s.start) < Word
  BY <1>1, <1>2, <1>4, <1>5, <1>6, <1>7, SlotAssumption
<1>9. s.duration # FOREVER => Millis(s.start) + s.duration + Padding < FOREVER
  BY <1>1, <1>2, <1>4, <1>5, <1>6, <1>7 DEF FOREVER
<1>10. s \in AnySlot
  <2>1. s.duration \in 0..FOREVER
    BY <1>1, <1>2, <1>4, <1>6, <1>7 DEF FOREVER
  <2> QED
    BY <1>2, <1>3, <2>1 DEF AnySlot, Normalised
<1>11. Fits(s, Padding)
  BY <1>3, <1>8, <1>9, <1>10 DEF Fits
<1>12. FOREVER \in Int /\ s.duration \in Int
  BY <1>1, <1>2 DEF FOREVER
<1>13. s.duration # FOREVER => Millis(s.start) + s.duration + 0 < FOREVER
  BY <1>1, <1>8, <1>9, <1>12
<1>14. Fits(s, 0)
  BY <1>3, <1>8, <1>10, <1>13 DEF Fits
<1> QED
  BY <1>11, <1>14

\* compare and overlaps of two slots and applyWindow are what intervals of the
\* time line say, for every pair of slots of every calendar that fits in a
\* word: compare and applyWindow without exception, overlaps but for slots
\* that never end, which overlap everything.  compare of a slot and a stamp
\* is exact at the start and blind to the end.
THEOREM SlotsAreIntervalsAlways == MCSpec => []SlotsAreIntervals
<1> DEFINE Inv == slotA \in Slots /\ slotB \in Slots
<1>1. MCInit => Inv
  BY DEF MCInit
<1>2. Inv /\ [MCNext]_<<slotA, slotB>> => Inv'
  BY DEF MCNext
<1>3. Inv => SlotsAreIntervals
  <2> SUFFICES ASSUME Inv PROVE SlotsAreIntervals
    OBVIOUS
  <2> DEFINE pA == applyWindow(slotA, Padding)
             pB == applyWindow(slotB, Padding)
  <2>1. Fits(slotA, 0) /\ Fits(slotB, 0) /\ Fits(slotA, Padding) /\ Fits(slotB, Padding)
    BY CalendarFits
  <2>2. CompareIsOrder
    <3>1. slotA \in AnySlot /\ slotB \in AnySlot
      BY <2>1 DEF Fits
    <3>2. compareSlots(slotA, slotB) \in {-1, 0, 1}
      BY <3>1, SlotOrder
    <3> QED
      BY <2>1, <3>2, CompareIsBefore DEF CompareIsOrder
  <2>3. OverlapsIsIntersection
    BY <2>1, OverlapsIsIntersect DEF OverlapsIsIntersection
  <2>4. PaddingSeparates
    <3>1. Padding \in Nat
      BY SlotAssumption
    <3>2. /\ Fits(pA, 0) /\ Fits(pB, 0)
          /\ Millis(pB.start) = Millis(slotB.start) - Padding
          /\ slotA.duration = FOREVER <=> pA.duration = FOREVER
          /\ slotA.duration # FOREVER =>
               Millis(pA.start) + pA.duration = Millis(slotA.start) + slotA.duration + Padding
      BY <2>1, <3>1, WindowIsMillis
    <3>3. Millis(slotA.start) \in Nat /\ Millis(slotB.start) \in Nat
          /\ slotA.duration \in Nat /\ Word \in Nat /\ Millis(slotB.start) < Word
      BY <2>1, SlotTypes, MillisType, TimeAssumption, 0 \in Nat DEF Fits
    <3>4. ASSUME Before(pA, pB)
          PROVE  LastMilli(slotA) + 2 * Padding < Millis(slotB.start)
      <4>1. slotA.duration # FOREVER
        BY <3>1, <3>2, <3>3, <3>4 DEF Before, LastMilli, Horizon
      <4> QED
        BY <3>1, <3>2, <3>3, <3>4, <4>1 DEF Before, LastMilli
    <3> QED
      BY <3>2, <3>4, CompareIsBefore DEF PaddingSeparates
  <2>5. StampIsEarlyOrIn
    BY <2>1, StampIsStart DEF StampIsEarlyOrIn, Fits
  <2> QED
    BY <2>2, <2>3, <2>4, <2>5 DEF SlotsAreIntervals
<1> QED
  BY <1>1, <1>2, <1>3, PTL DEF MCSpec

-----------------------------------------------------------------------------
(* Numbers and sequences.                                                  *)

\* Every set of naturals that is not empty has a least element.
LEMMA LeastNatural ==
  ASSUME NEW T, T \subseteq Nat, T # {}
  PROVE  \E x \in T : \A y \in T : x <= y
<1>1. PICK x \in T : \A y \in T : ~(<<y, x>> \in OpToRel(<, Nat))
  BY NatLessThanWellFounded, WFMin
<1>2. \A y \in T : ~(y < x)
  BY <1>1 DEF OpToRel
<1> QED
  BY <1>2

ConcatShape(S, a, b) ==
  /\ a \o b \in Seq(S) /\ Len(a \o b) = Len(a) + Len(b)
  /\ \A j \in 1..(Len(a) + Len(b)) : (a \o b)[j] = IF j <= Len(a) THEN a[j] ELSE b[j - Len(a)]

\* Two sequences behind each other.
LEMMA ConcatHasShape ==
  ASSUME NEW S, NEW a \in Seq(S), NEW b \in Seq(S)
  PROVE  ConcatShape(S, a, b)
BY ConcatProperties DEF ConcatShape

\* Inserting puts one element in and moves the ones behind it up.
LEMMA InsertAtProperties ==
  ASSUME NEW S, NEW q \in Seq(S), NEW x \in S, NEW i \in 1..(Len(q) + 1)
  PROVE  /\ InsertAt(q, i, x) \in Seq(S)
         /\ Len(InsertAt(q, i, x)) = Len(q) + 1
         /\ \A j \in 1..(Len(q) + 1) :
              InsertAt(q, i, x)[j] = IF j < i THEN q[j] ELSE IF j = i THEN x ELSE q[j - 1]
<1> DEFINE front == SubSeq(q, 1, i - 1)
           back  == SubSeq(q, i, Len(q))
<1>1. /\ Len(q) \in Nat /\ i \in Nat /\ i >= 1 /\ i <= Len(q) + 1
      /\ \A j \in 1..Len(q) : q[j] \in S
  BY ElementOfSeq, LenProperties
<1>2. /\ front \in Seq(S) /\ Len(front) = i - 1
      /\ \A j \in 1..(i - 1) : front[j] = q[j]
  BY <1>1, SubSeqProperties
<1>3. /\ back \in Seq(S) /\ Len(back) = Len(q) - i + 1
      /\ \A j \in 1..(Len(q) - i + 1) : back[j] = q[i + j - 1]
  BY <1>1, SubSeqProperties
<1>4. <<x>> \in Seq(S) /\ Len(<<x>>) = 1 /\ <<x>>[1] = x
  OBVIOUS
<1>5. InsertAt(q, i, x) = (front \o <<x>>) \o back
  BY DEF InsertAt
<1> HIDE DEF front, back
<1>6. /\ front \o <<x>> \in Seq(S) /\ Len(front \o <<x>>) = i
      /\ \A j \in 1..i : (front \o <<x>>)[j] = IF j < i THEN q[j] ELSE x
  BY <1>1, <1>2, <1>4, ConcatProperties
<1>7. /\ InsertAt(q, i, x) \in Seq(S)
      /\ Len(InsertAt(q, i, x)) = Len(q) + 1
      /\ \A j \in 1..(Len(q) + 1) : InsertAt(q, i, x)[j] =
           IF j <= i THEN (front \o <<x>>)[j] ELSE back[j - i]
  <2>1. PICK a \in Seq(S) : a = front \o <<x>> /\ Len(a) = i
    BY <1>6
  <2>2. back \in Seq(S) /\ a \in Seq(S)
    BY <1>3, <2>1
  <2>3. /\ a \o back \in Seq(S) /\ Len(a \o back) = Len(a) + Len(back)
        /\ \A j \in 1..(Len(a) + Len(back)) : (a \o back)[j] =
             IF j <= Len(a) THEN a[j] ELSE back[j - Len(a)]
    <3>1. ConcatShape(S, a, back)
      BY ONLY <2>2, ConcatHasShape
    <3> QED
      BY <3>1 DEF ConcatShape
  <2>4. Len(a) + Len(back) = Len(q) + 1 /\ InsertAt(q, i, x) = a \o back
    BY <1>1, <1>3, <1>5, <2>1
  <2> QED
    BY <2>1, <2>3, <2>4
<1>8. \A j \in 1..(Len(q) + 1) : j > i => back[j - i] = q[j - 1]
  BY <1>1, <1>3
<1>9. ASSUME NEW j \in 1..(Len(q) + 1)
      PROVE  InsertAt(q, i, x)[j] = IF j < i THEN q[j] ELSE IF j = i THEN x ELSE q[j - 1]
  <2>1. CASE j <= i
    <3>1. j \in 1..i
      BY <1>1, <2>1
    <3> QED
      BY <1>1, <1>6, <1>7, <2>1, <3>1
  <2>2. CASE j > i
    BY <1>1, <1>7, <1>8, <2>2
  <2> QED
    BY <1>1, <2>1, <2>2
<1> QED
  BY <1>7, <1>9

\* Removing takes one element out and moves the ones behind it down.
LEMMA RemoveAtProperties ==
  ASSUME NEW S, NEW q \in Seq(S), NEW i \in DOMAIN q
  PROVE  /\ RemoveAt(q, i) \in Seq(S)
         /\ Len(RemoveAt(q, i)) = Len(q) - 1
         /\ \A j \in 1..(Len(q) - 1) : RemoveAt(q, i)[j] = IF j < i THEN q[j] ELSE q[j + 1]
<1> DEFINE front == SubSeq(q, 1, i - 1)
           back  == SubSeq(q, i + 1, Len(q))
<1>1. /\ Len(q) \in Nat /\ i \in Nat /\ i >= 1 /\ i <= Len(q)
      /\ \A j \in 1..Len(q) : q[j] \in S
  BY ElementOfSeq, LenProperties
<1>2. /\ front \in Seq(S) /\ Len(front) = i - 1
      /\ \A j \in 1..(i - 1) : front[j] = q[j]
  BY <1>1, SubSeqProperties
<1>3. /\ back \in Seq(S) /\ Len(back) = Len(q) - i
      /\ \A j \in 1..(Len(q) - i) : back[j] = q[i + j]
  BY <1>1, SubSeqProperties
<1>4. RemoveAt(q, i) = front \o back
  BY DEF RemoveAt
<1> HIDE DEF front, back
<1>5. front \in Seq(S) /\ back \in Seq(S)
  BY <1>2, <1>3
<1>6. /\ front \o back \in Seq(S) /\ Len(front \o back) = Len(front) + Len(back)
      /\ \A j \in 1..(Len(front) + Len(back)) : (front \o back)[j] =
           IF j <= Len(front) THEN front[j] ELSE back[j - Len(front)]
  <2>1. ConcatShape(S, front, back)
    BY ONLY <1>5, ConcatHasShape
  <2> QED
    BY <2>1 DEF ConcatShape
<1>7. Len(front \o back) = Len(q) - 1
  BY <1>1, <1>2, <1>3, <1>6
<1>8. ASSUME NEW j \in 1..(Len(q) - 1) PROVE (front \o back)[j] = IF j < i THEN q[j] ELSE q[j + 1]
  <2>1. (front \o back)[j] = IF j <= i - 1 THEN front[j] ELSE back[j - (i - 1)]
    <3>1. j \in 1..(Len(front) + Len(back)) /\ Len(front) = i - 1
      BY <1>1, <1>2, <1>3
    <3> QED
      BY <1>6, <3>1
  <2>2. CASE j < i
    <3>1. j \in 1..(i - 1) /\ j <= i - 1
      BY <1>1, <2>2
    <3> QED
      BY <1>2, <2>1, <2>2, <3>1
  <2>3. CASE ~(j < i)
    <3>1. /\ j - (i - 1) \in 1..(Len(q) - i) /\ ~(j <= i - 1)
          /\ i + (j - (i - 1)) = j + 1
      BY <1>1, <2>3
    <3>2. back[j - (i - 1)] = q[j + 1]
      BY <1>3, <3>1
    <3> QED
      BY <2>1, <2>3, <3>1, <3>2
  <2> QED
    BY <2>2, <2>3
<1> QED
  BY <1>4, <1>6, <1>7, <1>8

-----------------------------------------------------------------------------
(* The queue.                                                              *)

\* QueueOrdered, for any queue and any slots.
Sorted(q, sl) ==
  \A i, j \in DOMAIN q : i < j =>
    compareSlots(applyWindow(sl[q[i]], Window), applyWindow(sl[q[j]], Window)) = -1

\* The property in the words of the lemmas about lists.
LEMMA QueueOrderedIsSorted == QueueOrdered <=> Sorted(opsQueue, slot)
BY DEF QueueOrdered, Sorted, padded

\* A window around a slot is a slot.
LEMMA WindowType ==
  ASSUME NEW sl \in [Ref -> AnySlot], NEW r \in Ref
  PROVE  applyWindow(sl[r], Window) \in AnySlot
BY SlotTypes, ScheduleAssumption

\* A sorted queue has no operation twice.
LEMMA SortedNoDuplicates ==
  ASSUME NEW q \in Seq(Ref), NEW sl \in [Ref -> AnySlot], Sorted(q, sl),
         NEW i \in DOMAIN q, NEW j \in DOMAIN q, q[i] = q[j]
  PROVE  i = j
<1>1. i \in Nat /\ j \in Nat /\ q[i] \in Ref /\ q[j] \in Ref
  OBVIOUS
<1>2. compareSlots(applyWindow(sl[q[i]], Window), applyWindow(sl[q[i]], Window)) # -1
  BY <1>1, WindowType, SlotOrder
<1>3. ~(i < j) /\ ~(j < i)
  BY <1>2 DEF Sorted
<1> QED
  BY <1>1, <1>3

\* insertionPoint is the first place the new slot is not after.
LEMMA InsertionPoint ==
  ASSUME NEW ts, opsQueue \in Seq(Ref)
  PROVE  LET i == insertionPoint(ts)
         IN  \/ /\ i = 0
                /\ \A j \in DOMAIN opsQueue : compareSlots(ts, padded(opsQueue[j])) = 1
             \/ /\ i \in DOMAIN opsQueue
                /\ compareSlots(ts, padded(opsQueue[i])) # 1
                /\ \A j \in DOMAIN opsQueue : j < i => compareSlots(ts, padded(opsQueue[j])) = 1
<1> DEFINE I == {k \in 1..Len(opsQueue) : compareSlots(ts, padded(opsQueue[k])) # 1}
           i == insertionPoint(ts)
<1>1. DOMAIN opsQueue = 1..Len(opsQueue) /\ Len(opsQueue) \in Nat
  BY LenProperties
<1>2. i = IF I # {} THEN Min(I) ELSE 0
  BY DEF insertionPoint, SelectInSeq
<1>3. CASE I = {}
  BY <1>1, <1>2, <1>3
<1>4. CASE I # {}
  <2>1. \E m \in I : \A k \in I : m <= k
    <3>1. I \subseteq Nat
      BY <1>1
    <3> QED
      BY <1>4, <3>1, LeastNatural
  <2> QED
    BY <1>1, <1>2, <1>4, <2>1 DEF Min
<1> QED
  BY <1>3, <1>4

\* OpsQueue::insert keeps the queue in order, whether or not the slots of the
\* queue wrap round.
LEMMA InsertKeepsOrder ==
  ASSUME opsQueue \in Seq(Ref), slot \in [Ref -> AnySlot], Sorted(opsQueue, slot),
         NEW r \in Ref, r \notin Range(opsQueue), NEW ts \in AnySlot,
         ~insertConflicts(applyWindow(ts, Window))
  PROVE  /\ insertInto(r, applyWindow(ts, Window)) \in Seq(Ref)
         /\ Sorted(insertInto(r, applyWindow(ts, Window)), [slot EXCEPT ![r] = ts])
         /\ Range(insertInto(r, applyWindow(ts, Window))) = Range(opsQueue) \cup {r}
<1> DEFINE w  == applyWindow(ts, Window)
           n  == Len(opsQueue)
           ip == insertionPoint(w)
           i  == IF ip = 0 THEN n + 1 ELSE ip
           q  == InsertAt(opsQueue, i, r)
           sl == [slot EXCEPT ![r] = ts]
           P(x) == applyWindow(slot[x], Window)
<1>1. n \in Nat /\ DOMAIN opsQueue = 1..n /\ \A j \in 1..n : opsQueue[j] \in Ref
  BY LenProperties, ElementOfSeq
<1>2. w \in AnySlot
  BY SlotTypes, ScheduleAssumption
<1>3. \A j \in 1..n : P(opsQueue[j]) \in AnySlot /\ opsQueue[j] # r
  BY <1>1, WindowType DEF Range
<1>4. \/ /\ ip = 0
         /\ \A j \in 1..n : compareSlots(w, P(opsQueue[j])) = 1
      \/ /\ ip \in 1..n
         /\ compareSlots(w, P(opsQueue[ip])) # 1
         /\ \A j \in 1..n : j < ip => compareSlots(w, P(opsQueue[j])) = 1
  BY <1>1, InsertionPoint DEF padded
<1>5. ip # 0 => compareSlots(w, P(opsQueue[ip])) # 0
  BY DEF insertConflicts, padded
<1>6. i \in 1..(n + 1)
  BY <1>1, <1>4
<1>7. insertInto(r, w) = q
  BY DEF insertInto
<1> HIDE DEF w, ip, i, q, sl, P
<1>8. \A j \in 1..n : j < i => compareSlots(P(opsQueue[j]), w) = -1
  BY <1>1, <1>2, <1>3, <1>4, SlotOrder DEF i
<1>9. \A j \in 1..n : j >= i => compareSlots(w, P(opsQueue[j])) = -1
  <2> SUFFICES ASSUME NEW j \in 1..n, j >= i
               PROVE  compareSlots(w, P(opsQueue[j])) = -1
    OBVIOUS
  <2>1. ip \in 1..n /\ i = ip
    BY <1>1, <1>4 DEF i
  <2>2. compareSlots(w, P(opsQueue[ip])) = -1
    BY <1>2, <1>3, <1>4, <1>5, <2>1, SlotOrder
  <2>3. CASE j = ip
    BY <2>2, <2>3
  <2>4. CASE j # ip
    <3>1. ip < j
      BY <1>1, <2>1, <2>4
    <3>2. compareSlots(P(opsQueue[ip]), P(opsQueue[j])) = -1
      BY <1>1, <2>1, <3>1 DEF Sorted, P
    <3> QED
      BY <1>2, <1>3, <2>1, <2>2, <3>2, SlotOrder
  <2> QED
    BY <2>3, <2>4
<1>10. \A j, k \in 1..n : j < k => compareSlots(P(opsQueue[j]), P(opsQueue[k])) = -1
  BY <1>1 DEF Sorted, P
<1>11. /\ q \in Seq(Ref) /\ Len(q) = n + 1 /\ DOMAIN q = 1..(n + 1)
       /\ \A j \in 1..(n + 1) :
            q[j] = IF j < i THEN opsQueue[j] ELSE IF j = i THEN r ELSE opsQueue[j - 1]
  <2>1. /\ q \in Seq(Ref) /\ Len(q) = n + 1
        /\ \A j \in 1..(n + 1) :
             q[j] = IF j < i THEN opsQueue[j] ELSE IF j = i THEN r ELSE opsQueue[j - 1]
    BY <1>6, InsertAtProperties DEF q
  <2> QED
    BY <2>1, LenProperties
<1>12. /\ applyWindow(sl[r], Window) = w
       /\ \A j \in 1..n : applyWindow(sl[opsQueue[j]], Window) = P(opsQueue[j])
  BY <1>1, <1>3 DEF sl, w, P
<1> DEFINE Q(j) == applyWindow(sl[q[j]], Window)
<1>13. ASSUME NEW j \in 1..(n + 1), NEW k \in 1..(n + 1), j < k
       PROVE  compareSlots(Q(j), Q(k)) = -1
  <2>1. i \in Nat /\ j \in Nat /\ k \in Nat
    BY <1>1, <1>6
  <2>2. CASE k < i
    <3>1. j \in 1..n /\ k \in 1..n /\ q[j] = opsQueue[j] /\ q[k] = opsQueue[k]
      BY <1>1, <1>6, <1>11, <1>13, <2>1, <2>2
    <3> QED
      BY <1>10, <1>12, <1>13, <3>1
  <2>3. CASE k = i
    <3>1. j \in 1..n /\ q[j] = opsQueue[j] /\ q[k] = r
      BY <1>1, <1>6, <1>11, <1>13, <2>1, <2>3
    <3> QED
      BY <1>8, <1>12, <1>13, <2>3, <3>1
  <2>4. CASE k > i /\ j < i
    <3>1. j \in 1..n /\ k - 1 \in 1..n /\ j < k - 1 /\ q[j] = opsQueue[j] /\ q[k] = opsQueue[k - 1]
      BY <1>1, <1>6, <1>11, <1>13, <2>1, <2>4
    <3> QED
      BY <1>10, <1>12, <3>1
  <2>5. CASE k > i /\ j = i
    <3>1. k - 1 \in 1..n /\ k - 1 >= i /\ q[j] = r /\ q[k] = opsQueue[k - 1]
      BY <1>1, <1>6, <1>11, <1>13, <2>1, <2>5
    <3> QED
      BY <1>9, <1>12, <3>1
  <2>6. CASE j > i
    <3>1. /\ j - 1 \in 1..n /\ k - 1 \in 1..n /\ j - 1 < k - 1
          /\ q[j] = opsQueue[j - 1] /\ q[k] = opsQueue[k - 1]
      BY <1>1, <1>6, <1>11, <1>13, <2>1, <2>6
    <3> QED
      BY <1>10, <1>12, <3>1
  <2> QED
    BY <1>13, <2>1, <2>2, <2>3, <2>4, <2>5, <2>6
<1>14. Sorted(q, sl)
  BY <1>11, <1>13 DEF Sorted
<1>15. Range(q) = Range(opsQueue) \cup {r}
  <2>1. Range(q) \subseteq Range(opsQueue) \cup {r}
    <3> SUFFICES ASSUME NEW j \in 1..(n + 1) PROVE q[j] \in Range(opsQueue) \cup {r}
      BY <1>11 DEF Range
    <3>1. CASE j < i
      <4>1. j \in 1..n /\ q[j] = opsQueue[j]
        BY <1>1, <1>6, <1>11, <3>1
      <4> QED
        BY <1>1, <4>1 DEF Range
    <3>2. CASE j = i
      BY <1>11, <3>2
    <3>3. CASE j > i
      <4>1. j - 1 \in 1..n /\ q[j] = opsQueue[j - 1]
        BY <1>1, <1>6, <1>11, <3>3
      <4> QED
        BY <1>1, <4>1 DEF Range
    <3> QED
      BY <1>1, <1>6, <3>1, <3>2, <3>3
  <2>2. r \in Range(q)
    <3>1. q[i] = r /\ i \in DOMAIN q
      BY <1>6, <1>11
    <3> QED
      BY <3>1 DEF Range
  <2>3. ASSUME NEW j \in 1..n PROVE opsQueue[j] \in Range(q)
    <3>1. CASE j < i
      <4>1. q[j] = opsQueue[j] /\ j \in DOMAIN q
        BY <1>1, <1>11, <3>1
      <4> QED
        BY <4>1 DEF Range
    <3>2. CASE j >= i
      <4>1. q[j + 1] = opsQueue[j] /\ j + 1 \in DOMAIN q
        BY <1>1, <1>6, <1>11, <3>2
      <4> QED
        BY <4>1 DEF Range
    <3> QED
      BY <1>1, <1>6, <3>1, <3>2
  <2> QED
    BY <1>1, <2>1, <2>2, <2>3 DEF Range
<1> QED
  BY <1>7, <1>11, <1>14, <1>15 DEF w, sl

\* Taking an operation out of the queue keeps it in order.
LEMMA RemoveKeepsOrder ==
  ASSUME NEW q \in Seq(Ref), NEW sl \in [Ref -> AnySlot], Sorted(q, sl),
         NEW i \in DOMAIN q
  PROVE  /\ RemoveAt(q, i) \in Seq(Ref)
         /\ Sorted(RemoveAt(q, i), sl)
         /\ Range(RemoveAt(q, i)) = Range(q) \ {q[i]}
<1> DEFINE p == RemoveAt(q, i)
           n == Len(q)
           at(j) == IF j < i THEN j ELSE j + 1
<1>1. n \in Nat /\ DOMAIN q = 1..n /\ i \in 1..n
  BY LenProperties
<1>2. /\ p \in Seq(Ref) /\ Len(p) = n - 1
      /\ \A j \in 1..(n - 1) : p[j] = IF j < i THEN q[j] ELSE q[j + 1]
  BY RemoveAtProperties
<1>3. DOMAIN p = 1..(n - 1)
  BY <1>2, LenProperties
<1> HIDE DEF p
<1>4. \A j \in 1..(n - 1) : at(j) \in 1..n /\ p[j] = q[at(j)] /\ at(j) # i
  BY <1>1, <1>2
<1>5. \A j, k \in 1..(n - 1) : j < k => at(j) < at(k)
  BY <1>1
<1>6. Sorted(p, sl)
  <2> HIDE DEF at
  <2> SUFFICES ASSUME NEW j \in 1..(n - 1), NEW k \in 1..(n - 1), j < k
               PROVE  compareSlots(applyWindow(sl[p[j]], Window),
                                   applyWindow(sl[p[k]], Window)) = -1
    BY <1>3 DEF Sorted
  <2>1. /\ p[j] = q[at(j)] /\ p[k] = q[at(k)]
        /\ at(j) \in DOMAIN q /\ at(k) \in DOMAIN q /\ at(j) < at(k)
    BY <1>1, <1>4, <1>5
  <2> QED
    BY <2>1 DEF Sorted
<1>7. Range(p) \subseteq Range(q) \ {q[i]}
  <2> SUFFICES ASSUME NEW j \in 1..(n - 1) PROVE p[j] \in Range(q) /\ p[j] # q[i]
    BY <1>3 DEF Range
  <2>1. p[j] = q[at(j)] /\ at(j) \in DOMAIN q /\ at(j) # i
    BY <1>1, <1>4
  <2> QED
    BY <1>1, <2>1, SortedNoDuplicates DEF Range
<1>8. ASSUME NEW k \in 1..n, k # i PROVE q[k] \in Range(p)
  <2> DEFINE j == IF k < i THEN k ELSE k - 1
  <2>1. j \in 1..(n - 1) /\ at(j) = k
    BY <1>1, <1>8
  <2>2. p[j] = q[k]
    BY <1>4, <2>1
  <2> QED
    BY <1>3, <2>1, <2>2 DEF Range
<1> QED
  BY <1>1, <1>2, <1>6, <1>7, <1>8 DEF Range, p

\* So does taking the front.
LEMMA TailKeepsOrder ==
  ASSUME NEW q \in Seq(Ref), q # <<>>, NEW sl \in [Ref -> AnySlot], Sorted(q, sl)
  PROVE  /\ Head(q) \in Ref /\ Head(q) \in Range(q) /\ Tail(q) \in Seq(Ref)
         /\ Sorted(Tail(q), sl)
         /\ Range(Tail(q)) = Range(q) \ {Head(q)}
<1> DEFINE n == Len(q)
<1>1. n \in Nat \ {0} /\ DOMAIN q = 1..n
  BY LenProperties, EmptySeq
<1>2. /\ Head(q) \in Ref /\ Tail(q) \in Seq(Ref) /\ Len(Tail(q)) = n - 1
      /\ \A j \in 1..(n - 1) : Tail(q)[j] = q[j + 1]
  BY HeadTailProperties
<1>3. DOMAIN Tail(q) = 1..(n - 1) /\ Head(q) = q[1]
  BY <1>2, LenProperties
<1>4. Sorted(Tail(q), sl)
  BY <1>1, <1>2, <1>3 DEF Sorted
<1>5. Head(q) \in Range(q)
  BY <1>1, <1>3 DEF Range
<1>6. ASSUME NEW j \in 1..(n - 1) PROVE Tail(q)[j] \in Range(q) \ {Head(q)}
  <2>1. j + 1 \in DOMAIN q /\ 1 \in DOMAIN q /\ j + 1 # 1
    BY <1>1
  <2>2. q[j + 1] # q[1]
    BY <2>1, SortedNoDuplicates
  <2> QED
    BY <1>2, <1>3, <2>1, <2>2 DEF Range
<1>7. ASSUME NEW k \in 1..n, q[k] # Head(q) PROVE q[k] \in Range(Tail(q))
  <2>1. k - 1 \in 1..(n - 1) /\ Tail(q)[k - 1] = q[k]
    BY <1>1, <1>2, <1>3, <1>7
  <2> QED
    BY <1>3, <2>1 DEF Range
<1> QED
  BY <1>1, <1>2, <1>3, <1>4, <1>5, <1>6, <1>7 DEF Range

-----------------------------------------------------------------------------
(* The inductive invariant.  QueueSound, OneAtATime and CallbackProtocol   *)
(* are not inductive: that an operation may be let go when it is done      *)
(* needs what done means for each kind of operation, and that the next     *)
(* operation has no callback yet needs that nothing touched it before.     *)

\* The message processor is in the middle of a command only for an operation
\* the scheduler does not know yet, and never during a shutdown.
PendingIsNew ==
  /\ pending # Idle => status[pending] = "none"
  /\ abort # "no" => pending = Idle

\* An operation that has not been current has done nothing.
Untouched(r) == thread[r] = "none" /\ ~started[r] /\ ~done[r] /\ calls[r] = 0

NewIsUntouched ==
  \A r \in Ref : status[r] \in {"none", "queued"} => Untouched(r)

\* A ThreadOperation has a thread and no end; it is done when its thread has
\* ended, and its thread is at work only while it is the current operation.
ThreadWork ==
  \A r \in Ref :
    /\ thread[r] # "none" => kind[r] \in ThreadKinds
    /\ thread[r] \in {"spawned", "running"} => r = current
    /\ kind[r] \in ThreadKinds /\ done[r] => thread[r] = "ended"
    /\ kind[r] \in ThreadKinds /\ status[r] # "none" => slot[r].duration = FOREVER

\* A recording that was started has its file open only while it is current
\* and not done.
RecordWork ==
  \A r \in Ref :
    kind[r] = "REC" /\ started[r] /\ file[r] = "open" => r = current /\ ~done[r]

\* What the flags say of the current operation.
CurrentFlags ==
  current # Idle =>
    /\ kind[current] \in ThreadKinds => notified \in {0, 1, 4}
    /\ notified = 0 => thread[current] = "none"
    /\ kind[current] = "REC" /\ notified = 3 => file[current] # "open"
    /\ kind[current] = "REC" /\ done[current] =>
         cancelled \/ notified = 4 \/ abort = "current"

\* The scheduler waits only without a current operation; doAbort empties the
\* queue before it turns to the current operation.
AbortFlags ==
  /\ loop = "wait" => current = Idle
  /\ abort \in {"current", "over"} => opsQueue = <<>>
  /\ abort = "current" => current # Idle
  /\ abort = "over" => current = Idle

\* The static nextEvent belongs to the current operation once the first
\* callback was made.
EventIsCurrent ==
  current # Idle =>
    /\ notified = 1 => nextEvent = slot[current].start
    /\ notified = 2 => slot[current].duration # FOREVER /\ nextEvent = stop(slot[current])
    /\ notified = 3 => slot[current].duration # FOREVER /\ nextEvent = stop(padded(current))

WorkInv == PendingIsNew /\ NewIsUntouched /\ ThreadWork /\ RecordWork
             /\ CurrentFlags /\ AbortFlags

Inv == TypeOK /\ Sorted(opsQueue, slot) /\ WorkInv /\ CallbackProtocol /\ EventIsCurrent

\* The scheduler starts with an empty queue and nothing current.
LEMMA InitInv == Init => Inv
<1> SUFFICES ASSUME Init PROVE Inv
  OBVIOUS
<1>1. Begin \in Begin..End /\ 0 \in 0..FOREVER /\ TimeStamp(0, 0) \in AnyStamp
  BY ScheduleAssumption, TimeAssumption DEF TimeStamp, AnyStamp, FOREVER
<1>2. Range(<<>>) = {} /\ <<>> \in Seq(Ref)
  BY DEF Range
<1>3. TypeOK
  <2>1. slot \in [Ref -> AnySlot]
    BY <1>1 DEF Init, TimeSlot, AnySlot
  <2>2. nextEvent \in AnyStamp /\ now \in Begin..End /\ notified \in 0..4
    BY <1>1 DEF Init
  <2>3. status \in [Ref -> Statuses] /\ kind \in [Ref -> Kinds \cup {"none"}]
    BY DEF Init, Statuses
  <2>4. \A r \in Ref : /\ status[r] = "queued" <=> r \in Range(opsQueue)
                       /\ status[r] = "current" <=> r = current
    BY <1>2, ScheduleAssumption DEF Init
  <2>5. calls \in [Ref -> 0..4]
    BY DEF Init
  <2> QED
    BY <1>2, <2>1, <2>2, <2>3, <2>4, <2>5 DEF Init, TypeOK
<1>4. Sorted(opsQueue, slot)
  BY DEF Init, Sorted
<1> QED
  BY <1>3, <1>4 DEF Init, Inv, WorkInv, PendingIsNew, NewIsUntouched, Untouched, ThreadWork,
       RecordWork, CurrentFlags, AbortFlags, CallbackProtocol, EventIsCurrent, ThreadKinds

\* The steps that change nothing but the scheduler's place in its loop.
LEMMA LoopInv ==
  ASSUME Inv, getState \/ doNothing \/ doBusyIdle
  PROVE  Inv'
<1> USE DEF getState, doNothing, doBusyIdle
<1>1. loop' \in {"look", "wait", "busy", "ended", "crashed"}
  OBVIOUS
<1>2. UNCHANGED <<now, schVars, pending, abort, opVars>>
  OBVIOUS
<1>3. loop' = "wait" => current = Idle
  OBVIOUS
<1> QED
  BY <1>1, <1>2, <1>3 DEF Inv, TypeOK, Sorted, WorkInv, PendingIsNew, NewIsUntouched, Untouched,
       ThreadWork, RecordWork, CurrentFlags, AbortFlags, CallbackProtocol, AllCalls,
       EventIsCurrent, padded, schVars, opVars

\* The clock moves nothing but itself.
LEMMA TickInv ==
  ASSUME Inv, Tick
  PROVE  Inv'
<1>1. now' \in Begin..End
  BY ScheduleAssumption DEF Inv, TypeOK, Tick
<1> QED
  BY <1>1 DEF Tick, Inv, TypeOK, Sorted, WorkInv, PendingIsNew, NewIsUntouched, Untouched,
       ThreadWork, RecordWork, CurrentFlags, AbortFlags, CallbackProtocol, AllCalls,
       EventIsCurrent, padded, schVars, opVars

\* An operation that joins the queue, or is rejected: the last step of every
\* command that makes one.
LEMMA ScheduleInv ==
  ASSUME Inv, NEW r \in Ref, NEW k \in Kinds, NEW ts \in AnySlot,
         status[r] = "none", pending \in {Idle, r}, abort = "no",
         k \in ThreadKinds => ts.duration = FOREVER,
         schedule(r, k, ts), pending' = Idle,
         file' \in {file, [file EXCEPT ![r] = "closed"]},
         UNCHANGED <<now, current, cancelled, notified, nextEvent, loop, abort,
                     started, done, thread, calls>>
  PROVE  Inv'
<1> USE ScheduleAssumption
<1>1. r \notin Range(opsQueue) /\ r # current /\ opsQueue \in Seq(Ref) /\ slot \in [Ref -> AnySlot]
  BY DEF Inv, TypeOK
<1>2. kind' = [kind EXCEPT ![r] = k] /\ slot' = [slot EXCEPT ![r] = ts]
  BY DEF schedule
<1>3. /\ opsQueue' \in Seq(Ref)
      /\ Sorted(opsQueue', slot')
      /\ \/ Range(opsQueue') = Range(opsQueue) /\ status' = [status EXCEPT ![r] = "rejected"]
         \/ Range(opsQueue') = Range(opsQueue) \cup {r} /\ status' = [status EXCEPT ![r] = "queued"]
  <2>1. CASE insertConflicts(applyWindow(ts, Window))
    <3>1. opsQueue' = opsQueue /\ status' = [status EXCEPT ![r] = "rejected"]
      BY <2>1 DEF schedule
    <3>2. \A i \in DOMAIN opsQueue : opsQueue[i] \in Ref /\ slot'[opsQueue[i]] = slot[opsQueue[i]]
      BY <1>1, <1>2 DEF Range
    <3>3. Sorted(opsQueue, slot')
      BY <3>2 DEF Inv, Sorted
    <3> QED
      BY <1>1, <3>1, <3>3
  <2>2. CASE ~insertConflicts(applyWindow(ts, Window))
    <3>1. opsQueue' = insertInto(r, applyWindow(ts, Window)) /\ status' = [status EXCEPT ![r] = "queued"]
      BY <2>2 DEF schedule
    <3>2. Sorted(opsQueue, slot)
      BY DEF Inv
    <3>3. /\ insertInto(r, applyWindow(ts, Window)) \in Seq(Ref)
          /\ Sorted(insertInto(r, applyWindow(ts, Window)), [slot EXCEPT ![r] = ts])
          /\ Range(insertInto(r, applyWindow(ts, Window))) = Range(opsQueue) \cup {r}
      BY <1>1, <2>2, <3>2, InsertKeepsOrder
    <3> QED
      BY <1>2, <3>1, <3>3
  <2> QED
    BY <2>1, <2>2
<1>4. TypeOK'
  <2>1. slot' \in [Ref -> AnySlot] /\ kind' \in [Ref -> Kinds \cup {"none"}]
    BY <1>1, <1>2 DEF Inv, TypeOK
  <2>2. status' \in [Ref -> Statuses] /\ file' \in [Ref -> {"none", "open", "closed"}]
    <3>1. status \in [Ref -> Statuses] /\ file \in [Ref -> {"none", "open", "closed"}]
      BY DEF Inv, TypeOK
    <3>2. status' \in [Ref -> Statuses]
      BY <1>3, <3>1 DEF Statuses
    <3> QED
      BY <3>1, <3>2
  <2>3. \A x \in Ref : /\ status'[x] = "queued" <=> x \in Range(opsQueue')
                       /\ status'[x] = "current" <=> x = current'
    BY <1>1, <1>3 DEF Inv, TypeOK
  <2> QED
    BY <1>3, <2>1, <2>2, <2>3 DEF Inv, TypeOK
<1>5. \A x \in Ref : x # r => /\ kind'[x] = kind[x] /\ slot'[x] = slot[x]
                              /\ status'[x] = status[x] /\ file'[x] = file[x]
  BY <1>2, <1>3 DEF Inv, TypeOK
<1>6. kind'[r] = k /\ slot'[r] = ts /\ Untouched(r)
  BY <1>1, <1>2 DEF Inv, TypeOK, WorkInv, NewIsUntouched
<1>7. WorkInv'
  <2>1. PendingIsNew' /\ AbortFlags'
    BY DEF Inv, WorkInv, PendingIsNew, AbortFlags
  <2>2. NewIsUntouched'
    BY <1>5, <1>6 DEF Inv, WorkInv, NewIsUntouched, Untouched
  <2>3. ThreadWork' /\ RecordWork'
    BY <1>5, <1>6 DEF Inv, WorkInv, ThreadWork, RecordWork, Untouched
  <2>4. CurrentFlags'
    BY <1>1, <1>5 DEF Inv, TypeOK, WorkInv, CurrentFlags
  <2> QED
    BY <2>1, <2>2, <2>3, <2>4 DEF WorkInv
<1>8. CallbackProtocol'
  BY <1>1, <1>5, <1>6 DEF Inv, TypeOK, CallbackProtocol, AllCalls, Untouched
<1>9. EventIsCurrent'
  BY <1>1, <1>5 DEF Inv, TypeOK, EventIsCurrent, padded
<1> QED
  BY <1>3, <1>4, <1>7, <1>8, <1>9 DEF Inv

\* The slots that the commands make.
LEMMA MadeSlots ==
  ASSUME TypeOK
  PROVE  /\ threadSlot \in AnySlot /\ threadSlot.duration = FOREVER
         /\ testSlot \in AnySlot
<1>1. now \in Nat /\ Window + Lead \in Nat /\ TestLead \in Nat
  BY ScheduleAssumption DEF TypeOK
<1>2. clock \in AnyStamp /\ Millis(clock) \in Nat
  BY <1>1, FromMillisType, MillisType DEF clock
<1>3. addTime(clock, Window + Lead) \in AnyStamp /\ addTime(clock, TestLead) \in AnyStamp
  BY <1>1, <1>2, FromMillisType DEF addTime
<1>4. FOREVER \in 0..FOREVER /\ TestLength \in 0..FOREVER
  BY TimeAssumption, ScheduleAssumption DEF FOREVER
<1> QED
  BY <1>3, <1>4 DEF threadSlot, testSlot, TimeSlot, AnySlot

\* The first step of REC, and of FMT and CPY.
LEMMA CheckInv ==
  ASSUME Inv, NEW r \in Ref, checkREC(r) \/ checkFMT(r)
  PROVE  Inv'
<1> USE ScheduleAssumption
<1>1. status[r] = "none" /\ pending = Idle /\ abort = "no" /\ pending' = r
  BY DEF checkREC, checkFMT, Accepting
<1>2. PICK k \in {"REC", "FMT", "CPY"} : kind' = [kind EXCEPT ![r] = k]
  BY DEF checkREC, checkFMT
<1>3. PICK ts \in AnySlot : slot' = [slot EXCEPT ![r] = ts]
  <2>1. CASE checkREC(r)
    BY <2>1 DEF checkREC
  <2>2. CASE checkFMT(r)
    <3>1. slot' = [slot EXCEPT ![r] = slot[r]] /\ slot[r] \in AnySlot
      BY <2>2 DEF checkFMT, Inv, TypeOK
    <3> QED
      BY <3>1
  <2> QED
    BY <2>1, <2>2
<1>4. PICK f \in {"none", "open", "closed"} : file' = [file EXCEPT ![r] = f]
  <2>1. CASE checkREC(r)
    BY <2>1 DEF checkREC
  <2>2. CASE checkFMT(r)
    <3>1. file' = [file EXCEPT ![r] = file[r]] /\ file[r] \in {"none", "open", "closed"}
      BY <2>2 DEF checkFMT, Inv, TypeOK
    <3> QED
      BY <3>1
  <2> QED
    BY <2>1, <2>2
<1>5. UNCHANGED <<now, opsQueue, current, cancelled, notified, nextEvent, loop, abort,
                  status, started, done, thread, calls>>
  BY DEF checkREC, checkFMT, schVars
<1>6. r \notin Range(opsQueue) /\ r # current /\ Untouched(r)
  BY <1>1 DEF Inv, TypeOK, WorkInv, NewIsUntouched
<1>7. \A x \in Ref : x # r => kind'[x] = kind[x] /\ slot'[x] = slot[x] /\ file'[x] = file[x]
  BY <1>2, <1>3, <1>4 DEF Inv, TypeOK
<1>8. TypeOK'
  BY <1>1, <1>2, <1>3, <1>4, <1>5 DEF Inv, TypeOK, Kinds, ThreadKinds
<1>9. Sorted(opsQueue', slot')
  <2>1. \A i \in DOMAIN opsQueue : opsQueue[i] \in Ref /\ slot'[opsQueue[i]] = slot[opsQueue[i]]
    BY <1>6, <1>7 DEF Range, Inv, TypeOK
  <2> QED
    BY <1>5, <2>1 DEF Inv, Sorted
<1>10. WorkInv'
  <2>1. PendingIsNew' /\ AbortFlags' /\ NewIsUntouched'
    BY <1>1, <1>5 DEF Inv, WorkInv, PendingIsNew, AbortFlags, NewIsUntouched, Untouched
  <2>2. ThreadWork' /\ RecordWork'
    BY <1>1, <1>5, <1>6, <1>7 DEF Inv, WorkInv, ThreadWork, RecordWork, Untouched
  <2>3. CurrentFlags'
    BY <1>5, <1>6, <1>7 DEF Inv, TypeOK, WorkInv, CurrentFlags
  <2> QED
    BY <2>1, <2>2, <2>3 DEF WorkInv
<1>11. CallbackProtocol' /\ EventIsCurrent'
  BY <1>5, <1>6, <1>7 DEF Inv, TypeOK, CallbackProtocol, AllCalls, EventIsCurrent, padded
<1> QED
  BY <1>8, <1>9, <1>10, <1>11 DEF Inv

\* A recording is queued where its slot belongs, if the slot is still free.
LEMMA DoRECInv ==
  ASSUME Inv, NEW r \in Ref, doREC(r)
  PROVE  Inv'
<1>1. pending = r /\ pending # Idle
  BY ScheduleAssumption DEF doREC
<1>2. status[r] = "none" /\ abort = "no"
  BY <1>1 DEF Inv, WorkInv, PendingIsNew
<1>3. slot[r] \in AnySlot /\ "REC" \in Kinds /\ "REC" \notin ThreadKinds
  BY DEF Inv, TypeOK, Kinds, ThreadKinds
<1>4. file' \in {file, [file EXCEPT ![r] = "closed"]}
  BY DEF doREC, Inv, TypeOK
<1> QED
  BY <1>1, <1>2, <1>3, <1>4, ScheduleInv DEF doREC

\* SYN and TST are queued like a recording, or refused.
LEMMA DoSYNInv ==
  ASSUME Inv, NEW r \in Ref, doSYN(r)
  PROVE  Inv'
<1>1. status[r] = "none" /\ pending = Idle /\ abort = "no"
  BY DEF doSYN, Accepting
<1>2. {"SYN", "TST"} \subseteq Kinds /\ "TST" \notin ThreadKinds
  BY DEF Kinds, ThreadKinds
<1>3. TypeOK
  BY DEF Inv
<1>4. schedule(r, "SYN", threadSlot) => Inv'
  BY <1>1, <1>2, <1>3, MadeSlots, ScheduleInv DEF doSYN
<1>5. schedule(r, "TST", testSlot) => Inv'
  BY <1>1, <1>2, <1>3, MadeSlots, ScheduleInv DEF doSYN
<1> QED
  BY <1>4, <1>5 DEF doSYN

\* The second half of FMT and DEL checks again what the first half read.
LEMMA DoFMTInv ==
  ASSUME Inv, NEW r \in Ref, doFMT(r)
  PROVE  Inv'
<1>1. pending = r /\ pending # Idle
  BY ScheduleAssumption DEF doFMT
<1>2. status[r] = "none" /\ abort = "no"
  BY <1>1 DEF Inv, WorkInv, PendingIsNew
<1>3. kind[r] \in Kinds
  BY DEF doFMT, Kinds, ThreadKinds
<1>4. TypeOK
  BY DEF Inv
<1> QED
  BY <1>1, <1>2, <1>3, <1>4, MadeSlots, ScheduleInv DEF doFMT

\* What doCancel does to an operation: a recording is done and its file is
\* closed if it was started; nothing happens to the others.
LEMMA CancelEffect ==
  ASSUME TypeOK, NEW r \in Ref, doCancel(r)
  PROVE  /\ done' \in [Ref -> BOOLEAN]
         /\ file' \in [Ref -> {"none", "open", "closed"}]
         /\ \A x \in Ref : x # r => done'[x] = done[x] /\ file'[x] = file[x]
         /\ kind[r] = "REC" => done'[r] /\ (started[r] => file'[r] = "closed")
         /\ kind[r] # "REC" => done'[r] = done[r] /\ file'[r] = file[r]
         /\ file'[r] = "open" => file[r] = "open"
<1>1. done' = [done EXCEPT ![r] = done[r] \/ kind[r] = "REC"]
  BY DEF doCancel
<1>2. file' = [file EXCEPT ![r] = IF started[r] /\ kind[r] = "REC" THEN "closed" ELSE file[r]]
  BY DEF doCancel
<1>3. done[r] \in BOOLEAN /\ file[r] \in {"none", "open", "closed"}
  BY DEF TypeOK
<1> QED
  BY <1>1, <1>2, <1>3 DEF TypeOK

\* STP of the operation in progress.
LEMMA StopCurrentInv ==
  ASSUME Inv, NEW r \in Ref, doSTP(r), doCancelCurrent(r), UNCHANGED <<opsQueue, status>>
  PROVE  Inv'
<1>1. current = r /\ doCancel(r) /\ cancelled' = TRUE
  BY DEF doCancelCurrent
<1>2. UNCHANGED <<now, opsQueue, current, notified, nextEvent, loop, pending, abort,
                  kind, slot, status, started, thread, calls>>
  BY DEF doSTP
<1>3. /\ done' \in [Ref -> BOOLEAN] /\ file' \in [Ref -> {"none", "open", "closed"}]
      /\ \A x \in Ref : x # r => done'[x] = done[x] /\ file'[x] = file[x]
      /\ kind[r] = "REC" => done'[r] /\ (started[r] => file'[r] = "closed")
      /\ kind[r] # "REC" => done'[r] = done[r] /\ file'[r] = file[r]
      /\ file'[r] = "open" => file[r] = "open"
  BY <1>1, CancelEffect DEF Inv
<1>4. TypeOK'
  BY <1>1, <1>2, <1>3 DEF Inv, TypeOK
<1>5. status[r] = "current" /\ r \in Ref
  BY <1>1 DEF Inv, TypeOK
<1>6. Sorted(opsQueue', slot') /\ CallbackProtocol' /\ EventIsCurrent'
  BY <1>2 DEF Inv, Sorted, CallbackProtocol, AllCalls, EventIsCurrent, padded
<1>7. PendingIsNew' /\ AbortFlags'
  BY <1>2 DEF Inv, WorkInv, PendingIsNew, AbortFlags
<1>8. NewIsUntouched'
  BY <1>2, <1>3, <1>5 DEF Inv, WorkInv, NewIsUntouched, Untouched
<1>9. ThreadWork' /\ RecordWork'
  BY <1>2, <1>3 DEF Inv, WorkInv, ThreadWork, RecordWork, ThreadKinds
<1>10. CurrentFlags'
  BY <1>1, <1>2, <1>3 DEF Inv, WorkInv, CurrentFlags
<1> QED
  BY <1>4, <1>6, <1>7, <1>8, <1>9, <1>10 DEF Inv, WorkInv

\* An operation that leaves the queue cancelled: STP, and doAbort.
LEMMA CancelQueuedInv ==
  ASSUME Inv, NEW r \in Ref, NEW s \in {"removed", "victim"}, r \in Range(opsQueue),
         opsQueue' \in Seq(Ref), Sorted(opsQueue', slot),
         Range(opsQueue') = Range(opsQueue) \ {r}, abort \in {"no", "queue"},
         doCancel(r), status' = [status EXCEPT ![r] = s],
         UNCHANGED <<now, current, cancelled, notified, nextEvent, loop, pending, abort,
                     kind, slot, started, thread, calls>>
  PROVE  Inv'
<1>1. status[r] = "queued" /\ r # current /\ Untouched(r)
  BY DEF Inv, TypeOK, WorkInv, NewIsUntouched
<1>2. /\ done' \in [Ref -> BOOLEAN] /\ file' \in [Ref -> {"none", "open", "closed"}]
      /\ \A x \in Ref : x # r => done'[x] = done[x] /\ file'[x] = file[x]
      /\ kind[r] = "REC" => done'[r] /\ (started[r] => file'[r] = "closed")
      /\ kind[r] # "REC" => done'[r] = done[r] /\ file'[r] = file[r]
  BY CancelEffect DEF Inv
<1>3. status'[r] = s /\ \A x \in Ref : x # r => status'[x] = status[x]
  BY DEF Inv, TypeOK
<1>4. TypeOK'
  <2>1. status' \in [Ref -> Statuses]
    BY DEF Inv, TypeOK, Statuses
  <2>2. \A x \in Ref : /\ status'[x] = "queued" <=> x \in Range(opsQueue')
                       /\ status'[x] = "current" <=> x = current'
    BY <1>1, <1>3 DEF Inv, TypeOK
  <2> QED
    BY <1>2, <2>1, <2>2 DEF Inv, TypeOK
<1>5. PendingIsNew' /\ AbortFlags'
  BY <1>1, <1>3, <1>4, ScheduleAssumption DEF Inv, TypeOK, WorkInv, PendingIsNew, AbortFlags
<1>6. NewIsUntouched'
  BY <1>2, <1>3 DEF Inv, WorkInv, NewIsUntouched, Untouched
<1>7. ThreadWork' /\ RecordWork'
  BY <1>1, <1>2, <1>3 DEF Inv, WorkInv, ThreadWork, RecordWork, Untouched, ThreadKinds
<1>8. CurrentFlags'
  BY <1>1, <1>2 DEF Inv, TypeOK, WorkInv, CurrentFlags
<1>9. CallbackProtocol' /\ EventIsCurrent'
  BY <1>1, <1>3 DEF Inv, CallbackProtocol, AllCalls, EventIsCurrent, padded
<1> QED
  BY <1>4, <1>5, <1>6, <1>7, <1>8, <1>9 DEF Inv, WorkInv

\* STP takes an operation out of the queue, or ... cancels the current one when the queue is empty, ....
LEMMA DoSTPInv ==
  ASSUME Inv, NEW r \in Ref, doSTP(r)
  PROVE  Inv'
<1>1. CASE doCancelCurrent(r) /\ UNCHANGED <<opsQueue, status>>
  BY <1>1, StopCurrentInv
<1>2. CASE /\ \E i \in DOMAIN opsQueue : opsQueue[i] = r /\ opsQueue' = RemoveAt(opsQueue, i)
           /\ doCancelQueued(r)
           /\ status' = [status EXCEPT ![r] = "removed"]
  <2>1. PICK i \in DOMAIN opsQueue : opsQueue[i] = r /\ opsQueue' = RemoveAt(opsQueue, i)
    BY <1>2
  <2>2. /\ opsQueue' \in Seq(Ref) /\ Sorted(opsQueue', slot)
        /\ Range(opsQueue') = Range(opsQueue) \ {r}
    BY <2>1, RemoveKeepsOrder DEF Inv, TypeOK
  <2>3. r \in Range(opsQueue)
    BY <2>1 DEF Range
  <2> QED
    BY <1>2, <2>2, <2>3, CancelQueuedInv DEF doSTP, doCancelQueued
<1> QED
  BY <1>1, <1>2 DEF doSTP

\* The front of the queue becomes the current operation.  No other is: doWait
\* follows a getState that saw none, and only doWait makes one current.
LEMMA DequeueInv ==
  ASSUME Inv, loop = "wait", opsQueue # <<>>, dequeue, loop' = "look",
         UNCHANGED <<now, nextEvent, pending, abort, kind, slot, started, done, thread,
                     file, calls>>
  PROVE  Inv'
<1> DEFINE h == Head(opsQueue)
<1>1. /\ h \in Ref /\ h \in Range(opsQueue) /\ opsQueue' \in Seq(Ref)
      /\ Sorted(opsQueue', slot)
      /\ Range(opsQueue') = Range(opsQueue) \ {h}
  BY TailKeepsOrder DEF Inv, TypeOK, dequeue
<1>2. current' = h /\ cancelled' = FALSE /\ notified' = 0 /\ status' = [status EXCEPT ![h] = "current"]
  BY DEF dequeue
<1> HIDE DEF h
<1>3. status[h] = "queued" /\ Untouched(h) /\ h # Idle
  BY <1>1, ScheduleAssumption DEF Inv, TypeOK, WorkInv, NewIsUntouched
<1>4. status'[h] = "current" /\ \A x \in Ref : x # h => status'[x] = status[x]
  BY <1>1, <1>2 DEF Inv, TypeOK
<1>5. \A x \in Ref : status[x] # "current"
  BY ScheduleAssumption DEF Inv, TypeOK, WorkInv, AbortFlags
<1>6. TypeOK'
  <2>1. status' \in [Ref -> Statuses]
    BY <1>1, <1>2 DEF Inv, TypeOK, Statuses
  <2>2. \A x \in Ref : /\ status'[x] = "queued" <=> x \in Range(opsQueue')
                       /\ status'[x] = "current" <=> x = current'
    BY <1>1, <1>2, <1>3, <1>4, <1>5 DEF Inv, TypeOK
  <2>3. notified' \in 0..4 /\ current' \in Ref \cup {Idle}
    BY <1>1, <1>2
  <2>4. cancelled' \in BOOLEAN
    BY <1>2, Zenon
  <2> QED
    BY <1>1, <2>1, <2>2, <2>3, <2>4 DEF Inv, TypeOK
<1>7. PendingIsNew' /\ AbortFlags'
  BY <1>3, <1>4 DEF Inv, TypeOK, WorkInv, PendingIsNew, AbortFlags
<1>8. NewIsUntouched'
  BY <1>4 DEF Inv, WorkInv, NewIsUntouched, Untouched
<1>9. ThreadWork' /\ RecordWork'
  <2>1. \A x \in Ref : x # current
    BY ScheduleAssumption DEF Inv, WorkInv, AbortFlags
  <2> QED
    BY <1>2, <1>3, <1>4, <2>1 DEF Inv, WorkInv, ThreadWork, RecordWork, Untouched
<1>10. CurrentFlags' /\ EventIsCurrent'
  BY <1>2, <1>3 DEF CurrentFlags, EventIsCurrent, Untouched
<1>11. CallbackProtocol'
  BY <1>2, <1>3, <1>4, <1>8 DEF Inv, CallbackProtocol, Untouched
<1> QED
  BY <1>1, <1>6, <1>7, <1>8, <1>9, <1>10, <1>11 DEF Inv, WorkInv

\* The scheduler waits for the front of the queue, or takes it; without one it crashes.
LEMMA DoWaitInv ==
  ASSUME Inv, doWait
  PROVE  Inv'
<1>1. CASE UNCHANGED <<schVars, status>> /\ loop' \in {"look", "crashed"}
  BY <1>1 DEF doWait, Inv, TypeOK, Sorted, WorkInv, PendingIsNew, NewIsUntouched, Untouched,
       ThreadWork, RecordWork, CurrentFlags, AbortFlags, CallbackProtocol, AllCalls,
       EventIsCurrent, padded, schVars
<1>2. CASE opsQueue # <<>> /\ loop' = "look" /\ dequeue /\ UNCHANGED nextEvent
  BY <1>2, DequeueInv DEF doWait
<1> QED
  BY <1>1, <1>2 DEF doWait

\* What holds before every callback.
LEMMA BeforeCallback ==
  ASSUME Inv, doCallback
  PROVE  /\ current \in Ref /\ current # Idle /\ status[current] = "current" /\ abort = "no"
         /\ notified # 4 => calls[current] = notified
         /\ slot[current] \in AnySlot /\ padded(current) \in AnySlot
         /\ ~cancelled /\ loop' = "look"
         /\ UNCHANGED <<now, opsQueue, current, cancelled, pending, abort, kind, slot, status>>
<1>1. current \in Ref /\ current # Idle /\ ~cancelled /\ loop' = "look"
  BY DEF doCallback, Inv, TypeOK
<1>2. abort = "no"
  BY DEF doCallback, Unlocked, Inv, WorkInv, AbortFlags
<1>3. status[current] = "current" /\ slot[current] \in AnySlot
  BY <1>1 DEF Inv, TypeOK
<1>4. notified # 4 => calls[current] = notified
  BY <1>1 DEF Inv, CallbackProtocol
<1>5. padded(current) \in AnySlot
  BY <1>1, WindowType DEF Inv, TypeOK, padded
<1> QED
  BY <1>1, <1>2, <1>3, <1>4, <1>5 DEF doCallback

\* What a callback has to show: the rest of the invariant follows.
LEMMA CallbackInv ==
  ASSUME Inv, doCallback,
         notified' \in 0..4, nextEvent' \in AnyStamp,
         started' \in [Ref -> BOOLEAN], done' \in [Ref -> BOOLEAN],
         thread' \in [Ref -> {"none", "spawned", "running", "ended"}],
         file' \in [Ref -> {"none", "open", "closed"}], calls' \in [Ref -> 0..4],
         \A x \in Ref : x # current =>
           /\ started'[x] = started[x] /\ done'[x] = done[x] /\ thread'[x] = thread[x]
           /\ file'[x] = file[x] /\ calls'[x] = calls[x],
         calls'[current] = IF notified' = 4 THEN AllCalls(current) ELSE notified',
         thread'[current] # "none" => kind[current] \in ThreadKinds,
         kind[current] \in ThreadKinds /\ done'[current] => thread'[current] = "ended",
         kind[current] = "REC" /\ started'[current] /\ file'[current] = "open" => ~done'[current],
         CurrentFlags', EventIsCurrent'
  PROVE  Inv'
<1>1. /\ current \in Ref /\ current # Idle /\ status[current] = "current" /\ abort = "no"
      /\ loop' = "look"
      /\ UNCHANGED <<now, opsQueue, current, cancelled, pending, abort, kind, slot, status>>
  BY BeforeCallback
<1>2. TypeOK'
  BY <1>1 DEF Inv, TypeOK
<1>3. Sorted(opsQueue', slot')
  BY <1>1 DEF Inv
<1>4. PendingIsNew' /\ AbortFlags'
  BY <1>1 DEF Inv, WorkInv, PendingIsNew, AbortFlags
<1>5. NewIsUntouched'
  BY <1>1 DEF Inv, WorkInv, NewIsUntouched, Untouched
<1>6. ThreadWork' /\ RecordWork'
  BY <1>1 DEF Inv, WorkInv, ThreadWork, RecordWork
<1>7. CallbackProtocol'
  BY <1>1 DEF Inv, CallbackProtocol, AllCalls
<1> QED
  BY <1>2, <1>3, <1>4, <1>5, <1>6, <1>7 DEF Inv, WorkInv

\* First callback: the front of the queue becomes current ...
LEMMA WindowStartInv ==
  ASSUME Inv, doCallback, windowStart
  PROVE  Inv'
<1>1. /\ current \in Ref /\ current # Idle /\ abort = "no" /\ ~cancelled
      /\ notified # 4 => calls[current] = notified
      /\ slot[current] \in AnySlot /\ padded(current) \in AnySlot
      /\ UNCHANGED <<current, cancelled, abort, kind, slot>>
  BY BeforeCallback
<1>2. notified = 0 /\ UNCHANGED <<done, file>> /\ calls[current] = 0 /\ thread[current] = "none"
  BY <1>1 DEF windowStart, Inv, WorkInv, CurrentFlags
<1>3. slot[current].start \in AnyStamp /\ padded(current).start \in AnyStamp
  BY <1>1 DEF AnySlot
<1>4. kind[current] \in ThreadKinds => ~done[current]
  BY <1>1, <1>2 DEF Inv, WorkInv, ThreadWork
<1>5. kind[current] = "REC" => ~done[current]
  BY <1>1, <1>2 DEF Inv, WorkInv, CurrentFlags
<1>6. CASE compareTimestamps(padded(current).start, clock) <= 0
  <2>1. nextEvent' = slot[current].start /\ notified' = 1 /\ calls' = [calls EXCEPT ![current] = 1]
    BY <1>2, <1>6 DEF windowStart, Callback, afterWindowStart
  <2>2. started' = [started EXCEPT ![current] = started[current] \/ kind[current] \notin ThreadKinds]
    BY <1>6 DEF windowStart
  <2>3. thread' = [thread EXCEPT ![current] = IF kind[current] \in ThreadKinds THEN "spawned" ELSE "none"]
    BY <1>2, <1>6 DEF windowStart
  <2>4. started' \in [Ref -> BOOLEAN] /\ \A x \in Ref : x # current => started'[x] = started[x]
    BY <2>2 DEF Inv, TypeOK
  <2>5. /\ thread' \in [Ref -> {"none", "spawned", "running", "ended"}]
        /\ \A x \in Ref : x # current => thread'[x] = thread[x]
        /\ thread'[current] = IF kind[current] \in ThreadKinds THEN "spawned" ELSE "none"
    BY <1>1, <2>3 DEF Inv, TypeOK
  <2>6. calls' \in [Ref -> 0..4] /\ calls'[current] = 1 /\ \A x \in Ref : x # current => calls'[x] = calls[x]
    BY <1>1, <2>1 DEF Inv, TypeOK
  <2>7. CurrentFlags' /\ EventIsCurrent'
    BY <1>1, <1>2, <1>5, <2>1 DEF CurrentFlags, EventIsCurrent
  <2> QED
    BY <1>1, <1>2, <1>3, <1>4, <1>5, <2>1, <2>4, <2>5, <2>6, <2>7, CallbackInv DEF Inv, TypeOK
<1>7. CASE ~(compareTimestamps(padded(current).start, clock) <= 0)
  <2>1. nextEvent' = padded(current).start /\ UNCHANGED <<notified, calls, started, thread>>
    BY <1>7 DEF windowStart
  <2>2. CurrentFlags' /\ EventIsCurrent'
    BY <1>1, <1>2, <1>5, <2>1 DEF CurrentFlags, EventIsCurrent
  <2> QED
    BY <1>1, <1>2, <1>3, <1>4, <1>5, <2>1, <2>2, CallbackInv DEF Inv, TypeOK
<1> QED
  BY <1>6, <1>7

\* ... the second one starts it ...
LEMMA ExecutionStartInv ==
  ASSUME Inv, doCallback, executionStart
  PROVE  Inv'
<1>1. /\ current \in Ref /\ current # Idle /\ abort = "no" /\ ~cancelled
      /\ notified # 4 => calls[current] = notified
      /\ slot[current] \in AnySlot
      /\ UNCHANGED <<current, cancelled, abort, kind, slot>>
  BY BeforeCallback
<1>2. notified = 1 /\ UNCHANGED <<started, done, thread, file>> /\ calls[current] = 1
  BY <1>1 DEF executionStart
<1>3. calls' = [calls EXCEPT ![current] = 2]
  BY <1>2 DEF executionStart
<1>4. calls' \in [Ref -> 0..4] /\ calls'[current] = 2 /\ \A x \in Ref : x # current => calls'[x] = calls[x]
  BY <1>1, <1>3 DEF Inv, TypeOK
<1>5. /\ thread[current] # "none" => kind[current] \in ThreadKinds
      /\ kind[current] \in ThreadKinds /\ done[current] => thread[current] = "ended"
      /\ kind[current] = "REC" /\ started[current] /\ file[current] = "open" => ~done[current]
      /\ kind[current] \in ThreadKinds => slot[current].duration = FOREVER
  BY <1>1 DEF Inv, TypeOK, WorkInv, ThreadWork, RecordWork
<1>6. stop(slot[current]) \in AnyStamp
  BY <1>1, SlotTypes, ScheduleAssumption
<1>7. CASE slot[current].duration = FOREVER
  <2>1. notified' = 4 /\ UNCHANGED nextEvent
    BY <1>7 DEF executionStart
  <2>2. CurrentFlags' /\ EventIsCurrent'
    BY <1>1, <2>1 DEF CurrentFlags, EventIsCurrent
  <2>3. calls'[current] = AllCalls(current)
    BY <1>4, <1>7 DEF AllCalls
  <2> QED
    BY <1>2, <1>4, <1>5, <2>1, <2>2, <2>3, CallbackInv DEF Inv, TypeOK
<1>8. CASE slot[current].duration # FOREVER
  <2>1. notified' = 2 /\ nextEvent' = stop(slot[current])
    BY <1>8 DEF executionStart
  <2>2. kind[current] = "REC" => ~done[current]
    BY <1>1, <1>2 DEF Inv, WorkInv, CurrentFlags
  <2>3. CurrentFlags' /\ EventIsCurrent'
    BY <1>1, <1>2, <1>5, <1>8, <2>1, <2>2 DEF CurrentFlags, EventIsCurrent
  <2> QED
    BY <1>2, <1>4, <1>5, <1>6, <2>1, <2>3, CallbackInv DEF Inv, TypeOK
<1> QED
  BY <1>7, <1>8

\* ... the third stops it ...
LEMMA ExecutionStopInv ==
  ASSUME Inv, doCallback, executionStop
  PROVE  Inv'
<1>1. /\ current \in Ref /\ current # Idle /\ abort = "no" /\ ~cancelled
      /\ notified # 4 => calls[current] = notified
      /\ padded(current) \in AnySlot
      /\ UNCHANGED <<current, cancelled, abort, kind, slot>>
  BY BeforeCallback
<1>2. /\ notified = 2 /\ UNCHANGED <<started, done, thread>> /\ calls[current] = 2
      /\ slot[current].duration # FOREVER
  BY <1>1 DEF executionStop, Inv, EventIsCurrent
<1>3. /\ notified' = 3 /\ nextEvent' = stop(padded(current)) /\ calls' = [calls EXCEPT ![current] = 3]
      /\ file' = [file EXCEPT ![current] = IF kind[current] = "REC" THEN "closed" ELSE file[current]]
  BY <1>2 DEF executionStop, Callback
<1>4. calls' \in [Ref -> 0..4] /\ calls'[current] = 3 /\ \A x \in Ref : x # current => calls'[x] = calls[x]
  BY <1>1, <1>3 DEF Inv, TypeOK
<1>5. /\ file' \in [Ref -> {"none", "open", "closed"}]
      /\ \A x \in Ref : x # current => file'[x] = file[x]
      /\ kind[current] = "REC" => file'[current] = "closed"
  BY <1>1, <1>3 DEF Inv, TypeOK
<1>6. /\ thread[current] # "none" => kind[current] \in ThreadKinds
      /\ kind[current] \in ThreadKinds /\ done[current] => thread[current] = "ended"
      /\ kind[current] \notin ThreadKinds
      /\ kind[current] = "REC" => ~done[current]
  BY <1>1, <1>2 DEF Inv, WorkInv, ThreadWork, CurrentFlags
<1>7. stop(padded(current)) \in AnyStamp
  BY <1>1, SlotTypes, ScheduleAssumption
<1>8. CurrentFlags' /\ EventIsCurrent'
  BY <1>1, <1>2, <1>3, <1>5, <1>6 DEF CurrentFlags, EventIsCurrent, padded
<1> QED
  BY <1>2, <1>3, <1>4, <1>5, <1>6, <1>7, <1>8, CallbackInv DEF Inv, TypeOK

\* ... and with the last one nothing is current any more.
LEMMA WindowStopInv ==
  ASSUME Inv, doCallback, windowStop
  PROVE  Inv'
<1>1. /\ current \in Ref /\ current # Idle /\ abort = "no" /\ ~cancelled
      /\ notified # 4 => calls[current] = notified
      /\ UNCHANGED <<current, cancelled, abort, kind, slot>>
  BY BeforeCallback
<1>2. /\ notified = 3 /\ UNCHANGED <<nextEvent, started, thread, file>> /\ calls[current] = 3
      /\ slot[current].duration # FOREVER
  BY <1>1 DEF windowStop, Inv, EventIsCurrent
<1>3. /\ notified' = 4 /\ calls' = [calls EXCEPT ![current] = 4]
      /\ done' = [done EXCEPT ![current] = TRUE]
  BY <1>2 DEF windowStop, Callback
<1>4. calls' \in [Ref -> 0..4] /\ calls'[current] = AllCalls(current) /\ \A x \in Ref : x # current => calls'[x] = calls[x]
  BY <1>1, <1>2, <1>3 DEF Inv, TypeOK, AllCalls
<1>5. done' \in [Ref -> BOOLEAN] /\ \A x \in Ref : x # current => done'[x] = done[x]
  BY <1>1, <1>3 DEF Inv, TypeOK
<1>6. /\ thread[current] # "none" => kind[current] \in ThreadKinds
      /\ kind[current] \notin ThreadKinds
      /\ kind[current] = "REC" => file[current] # "open"
  BY <1>1, <1>2 DEF Inv, WorkInv, ThreadWork, CurrentFlags
<1>7. CurrentFlags' /\ EventIsCurrent'
  BY <1>1, <1>3, <1>6 DEF CurrentFlags, EventIsCurrent
<1> QED
  BY <1>2, <1>3, <1>4, <1>5, <1>6, <1>7, CallbackInv DEF Inv, TypeOK

\* One call of doBusy is one of the four callbacks.
LEMMA DoCallbackInv ==
  ASSUME Inv, doCallback
  PROVE  Inv'
BY WindowStartInv, ExecutionStartInv, ExecutionStopInv, WindowStopInv DEF doCallback

\* The current operation is let go once it is done, by doBusy or by doAbort.
LEMMA LetGoInv ==
  ASSUME Inv, current # Idle, done[current], current' = Idle,
         status' = [status EXCEPT ![current] = "over"],
         \/ abort' = abort /\ abort # "current"
         \/ abort = "current" /\ abort' = "over",
         loop' \in {loop, "look"},
         UNCHANGED <<now, opsQueue, cancelled, notified, nextEvent, pending, kind, slot,
                     started, done, thread, file, calls>>
  PROVE  Inv'
<1>1. current \in Ref /\ status[current] = "current"
  BY DEF Inv, TypeOK
<1>2. status'[current] = "over" /\ \A x \in Ref : x # current => status'[x] = status[x]
  BY <1>1 DEF Inv, TypeOK
<1>3. TypeOK'
  <2>1. status' \in [Ref -> Statuses]
    BY <1>1 DEF Inv, TypeOK, Statuses
  <2>2. \A x \in Ref : /\ status'[x] = "queued" <=> x \in Range(opsQueue)
                       /\ status'[x] = "current" <=> x = current'
    BY <1>1, <1>2, ScheduleAssumption DEF Inv, TypeOK
  <2> QED
    BY <2>1, <2>2 DEF Inv, TypeOK
<1>4. PendingIsNew' /\ AbortFlags' /\ NewIsUntouched'
  BY <1>1, <1>2 DEF Inv, TypeOK, WorkInv, PendingIsNew, AbortFlags, NewIsUntouched, Untouched
<1>5. ThreadWork' /\ RecordWork'
  BY <1>1, <1>2 DEF Inv, WorkInv, ThreadWork, RecordWork
<1>6. CurrentFlags' /\ EventIsCurrent' /\ CallbackProtocol'
  BY <1>2 DEF Inv, CurrentFlags, EventIsCurrent, CallbackProtocol
<1> QED
  BY <1>3, <1>4, <1>5, <1>6 DEF Inv, WorkInv, Sorted

\* An operation that has finished is deleted.
LEMMA DoReleaseInv ==
  ASSUME Inv, doRelease
  PROVE  Inv'
BY LetGoInv DEF doRelease, Finished, Unlocked

-----------------------------------------------------------------------------
(* doAbort, and the threads of operations.                                 *)

\* doAbort only says that it begins; ...
LEMMA DoAbortInv ==
  ASSUME Inv, doAbort
  PROVE  Inv'
BY DEF doAbort, Inv, TypeOK, Sorted, WorkInv, PendingIsNew, NewIsUntouched, Untouched,
       ThreadWork, RecordWork, CurrentFlags, AbortFlags, CallbackProtocol, AllCalls,
       EventIsCurrent, padded, schVars, opVars

\* ... it takes an operation from the queue, ...
LEMMA AbortPopInv ==
  ASSUME Inv, abortPop
  PROVE  Inv'
<1>1. /\ Head(opsQueue) \in Ref /\ Head(opsQueue) \in Range(opsQueue)
      /\ opsQueue' \in Seq(Ref) /\ Sorted(opsQueue', slot)
      /\ Range(opsQueue') = Range(opsQueue) \ {Head(opsQueue)}
  BY TailKeepsOrder DEF Inv, TypeOK, abortPop
<1> QED
  BY <1>1, CancelQueuedInv DEF abortPop

\* ... deletes it once it is done, ...
LEMMA AbortDeleteInv ==
  ASSUME Inv, abortDelete
  PROVE  Inv'
<1>1. PICK r \in Ref : status[r] = "victim" /\ status' = [status EXCEPT ![r] = "over"]
  BY DEF abortDelete, Victim
<1>2. UNCHANGED <<now, schVars, loop, pending, abort, kind, slot, started, done, thread, file, calls>>
  BY DEF abortDelete
<1>3. status'[r] = "over" /\ \A x \in Ref : x # r => status'[x] = status[x]
  BY <1>1 DEF Inv, TypeOK
<1>4. TypeOK'
  <2>1. status' \in [Ref -> Statuses]
    BY <1>1 DEF Inv, TypeOK, Statuses
  <2>2. \A x \in Ref : /\ status'[x] = "queued" <=> x \in Range(opsQueue)
                       /\ status'[x] = "current" <=> x = current
    BY <1>1, <1>3 DEF Inv, TypeOK
  <2> QED
    BY <1>2, <2>1, <2>2 DEF Inv, TypeOK, schVars
<1>5. PendingIsNew' /\ AbortFlags' /\ NewIsUntouched' /\ ThreadWork' /\ RecordWork'
  BY <1>1, <1>2, <1>3 DEF Inv, TypeOK, WorkInv, PendingIsNew, AbortFlags, NewIsUntouched,
       Untouched, ThreadWork, RecordWork, schVars
<1>6. CurrentFlags' /\ EventIsCurrent' /\ CallbackProtocol' /\ Sorted(opsQueue', slot')
  BY <1>2, <1>3 DEF Inv, WorkInv, CurrentFlags, EventIsCurrent, CallbackProtocol, AllCalls,
       padded, schVars
<1> QED
  BY <1>4, <1>5, <1>6 DEF Inv, WorkInv

\* ... cancels the current one when the queue is empty, ...
LEMMA AbortCurrentInv ==
  ASSUME Inv, abortCurrent
  PROVE  Inv'
<1>1. UNCHANGED <<now, schVars, loop, pending, kind, slot, status, started, thread, calls>>
  BY DEF abortCurrent
<1>2. CASE current = Idle /\ abort' = "over" /\ UNCHANGED <<done, file>>
  BY <1>1, <1>2 DEF abortCurrent, Inv, TypeOK, Sorted, WorkInv, PendingIsNew, NewIsUntouched,
       Untouched, ThreadWork, RecordWork, CurrentFlags, AbortFlags, CallbackProtocol, AllCalls,
       EventIsCurrent, padded, schVars
<1>3. CASE current # Idle /\ abort' = "current" /\ doCancel(current)
  <2>1. current \in Ref /\ status[current] = "current"
    BY <1>3 DEF Inv, TypeOK
  <2>2. /\ done' \in [Ref -> BOOLEAN] /\ file' \in [Ref -> {"none", "open", "closed"}]
        /\ \A x \in Ref : x # current => done'[x] = done[x] /\ file'[x] = file[x]
        /\ kind[current] = "REC" => done'[current] /\ (started[current] => file'[current] = "closed")
        /\ kind[current] # "REC" => done'[current] = done[current] /\ file'[current] = file[current]
        /\ file'[current] = "open" => file[current] = "open"
    BY <1>3, <2>1, CancelEffect DEF Inv
  <2>3. TypeOK'
    BY <1>1, <1>3, <2>2 DEF Inv, TypeOK, schVars
  <2>4. PendingIsNew' /\ AbortFlags'
    BY <1>1, <1>3 DEF abortCurrent, Inv, WorkInv, PendingIsNew, AbortFlags, schVars
  <2>5. NewIsUntouched'
    BY <1>1, <2>1, <2>2 DEF Inv, WorkInv, NewIsUntouched, Untouched
  <2>6. ThreadWork' /\ RecordWork'
    BY <1>1, <2>1, <2>2 DEF Inv, WorkInv, ThreadWork, RecordWork, ThreadKinds, schVars
  <2>7. CurrentFlags'
    BY <1>1, <1>3, <2>1, <2>2 DEF Inv, WorkInv, CurrentFlags, schVars
  <2>8. EventIsCurrent' /\ CallbackProtocol' /\ Sorted(opsQueue', slot')
    BY <1>1 DEF Inv, EventIsCurrent, CallbackProtocol, AllCalls, padded, schVars
  <2> QED
    BY <2>3, <2>4, <2>5, <2>6, <2>7, <2>8 DEF Inv, WorkInv
<1> QED
  BY <1>2, <1>3 DEF abortCurrent

\* ... and deletes that one too.
LEMMA AbortReleaseInv ==
  ASSUME Inv, abortRelease
  PROVE  Inv'
<1>1. current # Idle
  BY DEF abortRelease, Inv, WorkInv, AbortFlags
<1> QED
  BY <1>1, LetGoInv DEF abortRelease

\* An operation's own thread starts and ends beside the scheduler.
LEMMA ThreadInv ==
  ASSUME Inv, NEW r \in Ref, threadStarted(r) \/ threadDone(r)
  PROVE  Inv'
<1>1. /\ thread[r] \in {"spawned", "running"} /\ r = current /\ kind[r] \in ThreadKinds
      /\ status[r] = "current" /\ r # Idle /\ kind[r] # "REC"
  BY ScheduleAssumption DEF threadStarted, threadDone, Inv, TypeOK, WorkInv, ThreadWork, ThreadKinds
<1>2. UNCHANGED <<schVars, loop, pending, abort, kind, slot, status, file, calls>>
  BY DEF threadStarted, threadDone
<1>3. now' \in Begin..End
  BY DEF threadStarted, threadDone, Inv, TypeOK
<1>4. /\ started' \in [Ref -> BOOLEAN] /\ done' \in [Ref -> BOOLEAN]
      /\ thread' \in [Ref -> {"none", "spawned", "running", "ended"}]
      /\ \A x \in Ref : x # r => started'[x] = started[x] /\ done'[x] = done[x] /\ thread'[x] = thread[x]
      /\ thread'[r] \in {"running", "ended"}
      /\ done'[r] => thread'[r] = "ended"
  <2>1. CASE threadStarted(r)
    <3>1. ~done[r]
      BY <1>1, <2>1 DEF threadStarted, Inv, WorkInv, ThreadWork
    <3> QED
      BY <2>1, <3>1 DEF threadStarted, Inv, TypeOK
  <2>2. CASE threadDone(r)
    BY <2>2 DEF threadDone, Inv, TypeOK
  <2> QED
    BY <2>1, <2>2
<1>5. TypeOK'
  BY <1>2, <1>3, <1>4 DEF Inv, TypeOK, schVars
<1>6. PendingIsNew' /\ AbortFlags' /\ NewIsUntouched'
  BY <1>1, <1>2, <1>4 DEF Inv, WorkInv, PendingIsNew, AbortFlags, NewIsUntouched, Untouched, schVars
<1>7. ThreadWork' /\ RecordWork'
  BY <1>1, <1>2, <1>4 DEF Inv, WorkInv, ThreadWork, RecordWork, schVars
<1>8. CurrentFlags'
  BY <1>1, <1>2, <1>4 DEF Inv, WorkInv, CurrentFlags, schVars
<1>9. EventIsCurrent' /\ CallbackProtocol' /\ Sorted(opsQueue', slot')
  BY <1>2 DEF Inv, EventIsCurrent, CallbackProtocol, AllCalls, padded, schVars
<1> QED
  BY <1>5, <1>6, <1>7, <1>8, <1>9 DEF Inv, WorkInv

-----------------------------------------------------------------------------
(* The theorems.                                                           *)

\* Every step keeps the invariant.
LEMMA NextInv ==
  ASSUME Inv, [Next]_vars
  PROVE  Inv'
<1>1. CASE UNCHANGED vars
  BY <1>1 DEF vars, schVars, opVars, Inv, TypeOK, Sorted, WorkInv, PendingIsNew, NewIsUntouched,
       Untouched, ThreadWork, RecordWork, CurrentFlags, AbortFlags, CallbackProtocol, AllCalls,
       EventIsCurrent, padded
<1>2. CASE SchedulerStep
  BY <1>2, LoopInv, DoWaitInv, DoCallbackInv, DoReleaseInv DEF SchedulerStep
<1>3. CASE AbortStep
  BY <1>3, AbortPopInv, AbortDeleteInv, AbortCurrentInv, AbortReleaseInv DEF AbortStep
<1>4. CASE doAbort \/ Tick
  BY <1>4, DoAbortInv, TickInv
<1>5. CASE \E r \in Ref : CommandStep(r)
  BY <1>5, CheckInv, DoRECInv, DoSYNInv, DoFMTInv, DoSTPInv DEF CommandStep
<1>6. CASE \E r \in Ref : threadStarted(r) \/ threadDone(r)
  BY <1>6, ThreadInv
<1> QED
  BY <1>1, <1>2, <1>3, <1>4, <1>5, <1>6 DEF Next

\* The invariant holds in every reachable state.
THEOREM ScheduleInvariant == Spec => []Inv
BY InitInv, NextInv, PTL DEF Spec

\* The queue is what the statuses of the operations say, in order of time and
\* free of conflicts: OpsQueue::insert, remove_by_ref and dequeue together.
THEOREM QueueSoundAlways == Spec => []QueueSound
BY ScheduleInvariant, QueueOrderedIsSorted, PTL DEF Inv, QueueSound

\* Only the current operation is at work: doBusy and doAbort let go of an
\* operation only when its thread has ended and its file is closed.
THEOREM OneAtATimeAlways == Spec => []OneAtATime
<1>1. Inv => OneAtATime
  BY DEF Inv, WorkInv, ThreadWork, RecordWork, OneAtATime, AtWork
<1> QED
  BY <1>1, ScheduleInvariant, PTL

\* Every operation gets its callbacks from the first on and each once.
THEOREM CallbackProtocolAlways == Spec => []CallbackProtocol
BY ScheduleInvariant, PTL DEF Inv

-----------------------------------------------------------------------------
(* No callback is early.                                                   *)

\* The slots of the operations the scheduler knows, and of the recording that
\* is about to be scheduled, do not wrap round.
SlotsFit ==
  \A r \in Ref : status[r] \in {"queued", "current"} \/ (pending = r /\ kind[r] = "REC")
                   => Fits(slot[r], Window)

\* The slots that the commands make fit, since the clock is far from the end
\* of the time line.
LEMMA MadeSlotsFit ==
  ASSUME SaneTimes, TypeOK
  PROVE  Fits(threadSlot, Window) /\ Fits(testSlot, Window)
<1>1. /\ now \in Nat /\ now >= Begin /\ now <= End
      /\ {Window, Lead, TestLead, Begin, End, TestLength} \subseteq Nat
      /\ Word \in Nat \ {0} /\ FOREVER = Word - 1
  BY ScheduleAssumption, TimeAssumption DEF TypeOK, FOREVER
<1>2. /\ now + (Window + Lead) < Word /\ now + TestLead + TestLength + Window < FOREVER
      /\ now + TestLead < Word /\ now < Word
      /\ Window <= now + TestLead
  BY <1>1 DEF SaneTimes
<1>3. Millis(clock) = now
  BY <1>1, <1>2, FromMillisMillis DEF clock
<1>4. /\ Normalised(addTime(clock, Window + Lead)) /\ Millis(addTime(clock, Window + Lead)) = now + (Window + Lead)
      /\ Normalised(addTime(clock, TestLead)) /\ Millis(addTime(clock, TestLead)) = now + TestLead
  BY <1>1, <1>2, <1>3, FromMillisMillis DEF addTime
<1>5. /\ threadSlot.start = addTime(clock, Window + Lead) /\ threadSlot.duration = FOREVER
      /\ testSlot.start = addTime(clock, TestLead) /\ testSlot.duration = TestLength
  BY DEF threadSlot, testSlot, TimeSlot
<1>6. threadSlot \in AnySlot /\ testSlot \in AnySlot
  BY MadeSlots
<1>7. Fits(threadSlot, Window)
  BY <1>1, <1>2, <1>4, <1>5, <1>6 DEF Fits
<1>8. Fits(testSlot, Window)
  BY <1>1, <1>2, <1>4, <1>5, <1>6 DEF Fits
<1> QED
  BY <1>7, <1>8

\* No step makes a slot that does not fit in the time line.
LEMMA SlotsFitNext ==
  ASSUME SaneTimes, Inv, SlotsFit, [Next]_vars
  PROVE  SlotsFit'
<1> USE ScheduleAssumption
<1>1. TypeOK /\ TypeOK'
  BY NextInv DEF Inv
\* A step that makes no operation leaves every slot alone.
<1>2. ASSUME UNCHANGED <<kind, slot>>, pending' = pending,
             \A r \in Ref : status'[r] \in {"queued", "current"} =>
                              status[r] \in {"queued", "current"}
      PROVE  SlotsFit'
  BY <1>2 DEF SlotsFit
\* A step that schedules r with a slot that fits.
<1>3. ASSUME NEW r \in Ref, NEW k, NEW ts, schedule(r, k, ts), Fits(ts, Window), pending' = Idle
      PROVE  SlotsFit'
  <2>1. slot' = [slot EXCEPT ![r] = ts] /\ \A x \in Ref : x # r => status'[x] = status[x]
    BY <1>1, <1>3 DEF schedule, TypeOK
  <2> QED
    BY <1>1, <1>3, <2>1 DEF SlotsFit, TypeOK
<1>4. CASE UNCHANGED vars
  BY <1>2, <1>4 DEF vars, opVars
<1>5. CASE SchedulerStep
  <2>1. CASE getState \/ doNothing \/ doBusyIdle \/ doCallback
    BY <1>2, <2>1 DEF getState, doNothing, doBusyIdle, doCallback, opVars
  <2>2. CASE doWait
    <3>1. CASE UNCHANGED status
      BY <1>2, <2>2, <3>1 DEF doWait
    <3>2. CASE opsQueue # <<>> /\ dequeue
      <4>1. Head(opsQueue) \in Ref /\ status[Head(opsQueue)] = "queued"
        BY <3>2, TailKeepsOrder DEF Inv, TypeOK
      <4>2. \A x \in Ref : x # Head(opsQueue) => status'[x] = status[x]
        BY <1>1, <3>2 DEF dequeue, TypeOK
      <4> QED
        BY <1>2, <2>2, <4>1, <4>2 DEF doWait
    <3> QED
      BY <2>2, <3>1, <3>2 DEF doWait
  <2>3. CASE doRelease
    BY <1>1, <1>2, <2>3 DEF doRelease, TypeOK
  <2> QED
    BY <1>5, <2>1, <2>2, <2>3 DEF SchedulerStep
<1>6. CASE AbortStep
  <2>1. CASE abortPop
    <3>1. Head(opsQueue) \in Ref
      BY <2>1, TailKeepsOrder DEF abortPop, Inv, TypeOK
    <3> QED
      BY <1>1, <1>2, <2>1, <3>1 DEF abortPop, TypeOK
  <2>2. CASE abortDelete \/ abortCurrent \/ abortRelease
    BY <1>1, <1>2, <2>2 DEF abortDelete, abortCurrent, abortRelease, TypeOK
  <2> QED
    BY <1>6, <2>1, <2>2 DEF AbortStep
<1>7. CASE doAbort \/ Tick
  BY <1>2, <1>7 DEF doAbort, Tick, opVars
<1>8. ASSUME NEW r \in Ref, CommandStep(r)
      PROVE  SlotsFit'
  <2>1. CASE checkREC(r)
    <3>1. PICK ts \in RecSlots : slot' = [slot EXCEPT ![r] = ts]
      BY <2>1 DEF checkREC
    <3>2. Fits(ts, Window) /\ pending' = r /\ UNCHANGED status
      BY <2>1 DEF SaneTimes, checkREC
    <3> QED
      BY <1>1, <3>1, <3>2 DEF SlotsFit, TypeOK
  <2>2. CASE doREC(r)
    <3>1. Fits(slot[r], Window) /\ pending' = Idle /\ schedule(r, "REC", slot[r])
      BY <2>2 DEF doREC, SlotsFit
    <3> QED
      BY <1>3, <3>1
  <2>3. CASE doSYN(r)
    <3>1. pending' = Idle
      BY <2>3 DEF doSYN, Accepting
    <3> QED
      BY <1>1, <1>3, <2>3, <3>1, MadeSlotsFit DEF doSYN
  <2>4. CASE checkFMT(r)
    <3>1. status[r] = "none" /\ pending' = r /\ UNCHANGED <<slot, status>> /\ kind'[r] # "REC"
      BY <1>1, <2>4 DEF checkFMT, Accepting, TypeOK
    <3> QED
      BY <3>1 DEF SlotsFit
  <2>5. CASE doFMT(r)
    BY <1>1, <1>3, <2>5, MadeSlotsFit DEF doFMT
  <2>6. CASE doSTP(r)
    <3>1. UNCHANGED <<kind, slot, pending>> /\ \A x \in Ref : x # r => status'[x] = status[x]
      BY <1>1, <2>6 DEF doSTP, TypeOK
    <3>2. status'[r] \in {status[r], "removed"}
      BY <1>1, <2>6 DEF doSTP, TypeOK
    <3> QED
      BY <1>2, <3>1, <3>2
  <2> QED
    BY <1>8, <2>1, <2>2, <2>3, <2>4, <2>5, <2>6 DEF CommandStep
<1>9. CASE \E r \in Ref : threadStarted(r) \/ threadDone(r)
  BY <1>2, <1>9 DEF threadStarted, threadDone
<1> QED
  BY <1>4, <1>5, <1>6, <1>7, <1>8, <1>9 DEF Next

\* An event that is due has come, on the time line.
LEMMA DueHasCome ==
  ASSUME SaneTimes, TypeOK, NEW t, Normalised(t), compareTimestamps(t, clock) <= 0
  PROVE  Millis(t) <= now
<1>1. now \in Nat /\ now < Word /\ Window \in Nat /\ Lead \in Nat
  BY ScheduleAssumption, TimeAssumption DEF TypeOK, SaneTimes
<1>2. Normalised(clock) /\ Millis(clock) = now
  BY <1>1, FromMillisMillis DEF clock
<1>3. Millis(t) \in Nat
  BY MillisType DEF Normalised
<1>4. compareTimestamps(t, clock) # 1
  OBVIOUS
<1>5. ~(Millis(t) > now)
  BY <1>2, <1>4, CompareIsMillis
<1> QED
  BY <1>1, <1>3, <1>5

\* A step that makes a callback makes it at or after its time.
LEMMA CallbackOnTime ==
  ASSUME SaneTimes, Inv, SlotsFit, [Next]_vars, NEW r \in Ref, calls'[r] # calls[r]
  PROVE  EventTime(r, calls'[r]) <= now
<1>1. doCallback
  BY DEF Next, vars, opVars, SchedulerStep, getState, doWait, doRelease, doNothing, doBusyIdle,
       AbortStep, abortPop, abortDelete, abortCurrent, abortRelease, doAbort, Tick, CommandStep,
       checkREC, doREC, doSYN, checkFMT, doFMT, doSTP, threadStarted, threadDone
<1>2. /\ current \in Ref /\ status[current] = "current" /\ current # Idle
      /\ notified # 4 => calls[current] = notified
  BY <1>1, BeforeCallback
<1>3. r = current
  <2>1. \A x \in Ref : x # current => calls'[x] = calls[x]
    BY <1>1 DEF doCallback, windowStart, executionStart, executionStop, windowStop, Callback,
         Inv, TypeOK
  <2> QED
    BY <2>1
<1>4. Fits(slot[r], Window) /\ TypeOK /\ Window \in Nat
  BY <1>2, <1>3, ScheduleAssumption DEF SlotsFit, Inv
<1>5. /\ Normalised(slot[r].start) /\ Normalised(padded(r).start)
      /\ Millis(padded(r).start) = Millis(slot[r].start) - Window
  BY <1>4, WindowIsMillis DEF Fits, padded
<1>6. CASE windowStart
  <2>1. compareTimestamps(padded(r).start, clock) <= 0 /\ calls'[r] = 1
    BY <1>2, <1>3, <1>6 DEF windowStart, Callback, Inv, TypeOK
  <2>2. Millis(padded(r).start) <= now
    BY <1>4, <1>5, <2>1, DueHasCome
  <2> QED
    BY <1>5, <2>1, <2>2 DEF EventTime
<1>7. CASE executionStart
  <2>1. nextEvent = slot[r].start /\ Due /\ calls'[r] = 2
    BY <1>2, <1>3, <1>7 DEF executionStart, Inv, TypeOK, EventIsCurrent
  <2>2. Millis(slot[r].start) <= now
    BY <1>4, <1>5, <2>1, DueHasCome DEF Due
  <2> QED
    BY <2>1, <2>2 DEF EventTime
<1>8. CASE executionStop
  <2>1. nextEvent = stop(slot[r]) /\ slot[r].duration # FOREVER /\ Due /\ calls'[r] = 3
    BY <1>2, <1>3, <1>8 DEF executionStop, Callback, Inv, TypeOK, EventIsCurrent
  <2>2. Normalised(stop(slot[r])) /\ Millis(stop(slot[r])) = Millis(slot[r].start) + slot[r].duration
    BY <1>4, <2>1, StopIsMillis
  <2>3. Millis(stop(slot[r])) <= now
    BY <1>4, <2>1, <2>2, DueHasCome DEF Due
  <2> QED
    BY <2>1, <2>2, <2>3 DEF EventTime
<1>9. CASE windowStop
  <2>1. nextEvent = stop(padded(r)) /\ slot[r].duration # FOREVER /\ Due /\ calls'[r] = 4
    BY <1>2, <1>3, <1>9 DEF windowStop, Callback, Inv, TypeOK, EventIsCurrent
  <2>2. /\ Fits(padded(r), 0) /\ padded(r).duration # FOREVER
        /\ Millis(padded(r).start) + padded(r).duration = Millis(slot[r].start) + slot[r].duration + Window
    BY <1>4, <2>1, WindowIsMillis DEF padded
  <2>3. Normalised(stop(padded(r))) /\ Millis(stop(padded(r))) = Millis(padded(r).start) + padded(r).duration
    BY <2>2, StopIsMillis
  <2>4. Millis(stop(padded(r))) <= now
    BY <1>4, <2>1, <2>3, DueHasCome DEF Due
  <2> QED
    BY <2>1, <2>2, <2>3, <2>4 DEF EventTime
<1> QED
  BY <1>1, <1>6, <1>7, <1>8, <1>9 DEF doCallback

\* No callback comes early, for any slots that do not wrap round: the static
\* nextEvent of doBusy always is the current operation's own.
THEOREM NeverEarlyAlways ==
  ASSUME SaneTimes
  PROVE  Spec => NeverEarly
<1>1. Init => SlotsFit
  BY ScheduleAssumption DEF Init, SlotsFit
<1>2. Inv /\ SlotsFit /\ [Next]_vars => SlotsFit'
  BY SlotsFitNext
<1>3. Inv /\ SlotsFit /\ [Next]_vars =>
        [\A r \in Ref : calls'[r] # calls[r] => EventTime(r, calls'[r]) <= now]_vars
  BY CallbackOnTime
<1> QED
  BY <1>1, <1>2, <1>3, ScheduleInvariant, PTL DEF Spec, NeverEarly
=============================================================================
