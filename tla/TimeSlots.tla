------------------------------ MODULE TimeSlots ------------------------------
(***************************************************************************)
(* Time stamps, time slots and the order on them (System/Time.h).          *)
(*                                                                         *)
(* A stamp is a day (MJD) and milliseconds past its midnight (MPM); a slot *)
(* is a start and a duration.  Both fields are size_t, so sums wrap round, *)
(* and the largest duration means for ever.  The scheduler keeps its queue *)
(* in order, and rejects conflicting commands, by these functions alone.   *)
(***************************************************************************)
EXTENDS Integers

CONSTANTS
  MillisPerDay,  \* MILLIS_PER_DAY
  Word           \* size_t arithmetic is modulo Word

ASSUME TimeAssumption ==
  /\ MillisPerDay \in Nat \ {0}
  /\ Word \in Nat \ {0}

FOREVER == Word - 1

\* The values the fields can have.
AnyStamp == [MJD : Nat, MPM : Nat]
AnySlot  == [start : AnyStamp, duration : 0..FOREVER]

TimeStamp(mjd, mpm)       == [MJD |-> mjd, MPM |-> mpm]
TimeSlot(start, duration) == [start |-> start, duration |-> duration]

\* A stamp as one count of milliseconds, and back.
Millis(t)     == t.MJD * MillisPerDay + t.MPM
FromMillis(q) == TimeStamp((q % Word) \div MillisPerDay,
                           (q % Word) % MillisPerDay)

\* A stamp as every caller of the library makes it.
Normalised(t) == t \in AnyStamp /\ t.MPM < MillisPerDay

\* A slot whose arithmetic does not wrap round: it starts at least w after
\* the epoch, and never ends or ends w before what means for ever.
Fits(ts, w) ==
  /\ ts \in AnySlot
  /\ Normalised(ts.start)
  /\ w <= Millis(ts.start)
  /\ Millis(ts.start) < Word
  /\ ts.duration = FOREVER \/ Millis(ts.start) + ts.duration + w < FOREVER

compareTimestamps(a, b) ==
  IF a.MJD # b.MJD THEN (IF a.MJD < b.MJD THEN -1 ELSE 1)
  ELSE IF a.MPM # b.MPM THEN (IF a.MPM < b.MPM THEN -1 ELSE 1)
  ELSE 0

addTime(when, increment) == FromMillis(Millis(when) + increment)
subTime(when, decrement) == FromMillis(Millis(when) - decrement)

\* Mutant of applyWindow: the end of the slot gets no window.
applyWindowOnce(ts, winsize) ==
  TimeSlot(subTime(ts.start, winsize),
           IF ts.duration = FOREVER THEN FOREVER
                                    ELSE (ts.duration + winsize) % Word)

applyWindow(ts, winsize) ==
  TimeSlot(subTime(ts.start, winsize),
           IF ts.duration = FOREVER THEN FOREVER
                                    ELSE (ts.duration + 2 * winsize) % Word)

stop(ts) == addTime(ts.start, ts.duration)

\* Mutant of overlaps: a slot overlaps another only if it begins in it.
overlapsStart(a, b) ==
  \/ a.duration = FOREVER
  \/ b.duration = FOREVER
  \/ /\ compareTimestamps(a.start, b.start) # -1
     /\ compareTimestamps(a.start, stop(b)) # 1

overlaps(a, b) ==
  \/ a.duration = FOREVER
  \/ b.duration = FOREVER
  \/ /\ ~(compareTimestamps(a.start, b.start) = -1
            /\ compareTimestamps(stop(a), b.start) = -1)
     /\ ~(compareTimestamps(a.start, stop(b)) = 1
            /\ compareTimestamps(stop(a), stop(b)) = 1)

\* Mutant of compareSlots: slots that touch do not overlap.
compareTouching(a, b) ==
  CASE compareTimestamps(a.start, b.start) = -1 ->
         IF a.duration # FOREVER /\ compareTimestamps(stop(a), b.start) <= 0
           THEN -1 ELSE 0
    [] compareTimestamps(a.start, b.start) = 1 ->
         IF b.duration # FOREVER /\ compareTimestamps(stop(b), a.start) <= 0
           THEN 1 ELSE 0
    [] OTHER -> 0

\* compare(TimeSlot, TimeSlot).
compareSlots(a, b) ==
  CASE compareTimestamps(a.start, b.start) = -1 ->
         IF a.duration # FOREVER /\ compareTimestamps(stop(a), b.start) = -1
           THEN -1 ELSE 0
    [] compareTimestamps(a.start, b.start) = 1 ->
         IF b.duration # FOREVER /\ compareTimestamps(stop(b), a.start) = -1
           THEN 1 ELSE 0
    [] OTHER -> 0

\* compare(TimeSlot, TimeStamp) for a slot that lasts for ever.
compareUnending(a, b) == IF compareTimestamps(b, a.start) = -1 THEN -1 ELSE 0

\* Mutant of compareStamp: a stamp at the very start is early.
compareStampAfter(a, b) == IF compareTimestamps(b, a.start) <= 0 THEN -1 ELSE 0

\* compare(TimeSlot, TimeStamp).  Its inner call has two stamps: the first
\* is converted to a slot, which by default lasts for ever.
compareStamp(a, b) ==
  IF a.duration = FOREVER \/ compareTimestamps(b, a.start) = -1
    THEN compareUnending(a, b)
  ELSE IF compareUnending(TimeSlot(b, FOREVER), stop(a)) <= 0
    THEN 0
    ELSE 1
=============================================================================
