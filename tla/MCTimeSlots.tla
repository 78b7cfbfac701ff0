---------------------------- MODULE MCTimeSlots -----------------------------
(***************************************************************************)
(* The functions of TimeSlots against intervals of the time line, over all *)
(* pairs of slots of a short calendar.  Slots begin at least a window      *)
(* after the epoch and end before the word wraps round, with their start   *)
(* normalised: what a sane command sends.                                  *)
(***************************************************************************)
EXTENDS TimeSlots

CONSTANTS
  Days,        \* slots start on days 1..Days
  MaxDuration, \* longest finite slot
  Padding      \* SCHEDULING_WINDOW

ASSUME SlotAssumption ==
  /\ {Days, MaxDuration, Padding} \subseteq Nat
  /\ Padding <= MillisPerDay
  /\ (Days + 1) * MillisPerDay + MaxDuration + Padding < Word

VARIABLES slotA, slotB

Stamps == [MJD : 1..Days, MPM : 0..(MillisPerDay - 1)]
Slots  == [start : Stamps, duration : (0..MaxDuration) \cup {FOREVER}]

MCInit == slotA \in Slots /\ slotB \in Slots
MCNext == UNCHANGED <<slotA, slotB>>
MCSpec == MCInit /\ [][MCNext]_<<slotA, slotB>>

\* Reference: the closed interval of the time line that a slot covers, up to
\* a horizon no finite slot reaches.
Horizon == Word
LastMilli(s) == IF s.duration = FOREVER THEN Horizon
                                   ELSE Millis(s.start) + s.duration
Before(s, u)    == LastMilli(s) < Millis(u.start)
Intersect(s, u) == ~Before(s, u) /\ ~Before(u, s)

\* "-1 if a is before b, without overlap; 1 if b is before a, without overlap;
\* 0 if overlapping" (Time.h:313-316), across midnights and for slots that
\* never end.
CompareIsOrder ==
  compareSlots(slotA, slotB) = CASE Before(slotA, slotB) -> -1
                         [] Before(slotB, slotA) -> 1
                         [] OTHER        -> 0

\* overlaps() is intersection of finite slots, and everything overlaps a slot
\* that never ends, what was over before it begins included.
OverlapsIsIntersection ==
  overlaps(slotA, slotB) <=>
    Intersect(slotA, slotB) \/ FOREVER \in {slotA.duration, slotB.duration}

\* applyWindow() widens a slot by the window on both sides, so that two
\* operations whose padded slots do not overlap are two windows apart.
PaddingSeparates ==
  compareSlots(applyWindow(slotA, Padding), applyWindow(slotB, Padding)) = -1 =>
    LastMilli(slotA) + 2 * Padding < Millis(slotB.start)

\* compare(TimeSlot, TimeStamp), by which a FileWriter chooses the tickets it
\* writes, is exact at the start of the slot, across midnights too.  It does
\* not look at the end: what TooLateIsReported says instead is refuted.
StampIsEarlyOrIn ==
  compareStamp(slotA, slotB.start) =
    IF Millis(slotB.start) < Millis(slotA.start) THEN -1 ELSE 0

\* compare and overlaps of two slots and applyWindow agree with intervals of
\* the time line (overlaps but for what never ends), and compare of a slot and
\* a stamp with the half line from its start on.
SlotsAreIntervals ==
  CompareIsOrder /\ OverlapsIsIntersection /\ PaddingSeparates /\ StampIsEarlyOrIn

\* FileWriter.h:148 "case 1: // too late": a stamp after the end of a slot
\* compares as later than the slot.
TooLateIsReported ==
  slotA.duration # FOREVER /\ Millis(slotB.start) > LastMilli(slotA) =>
    compareStamp(slotA, slotB.start) = 1
=============================================================================
