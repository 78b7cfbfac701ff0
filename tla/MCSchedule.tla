----------------------------- MODULE MCSchedule -----------------------------
(* Bounds for Schedule: a day of eight milliseconds, a window of one, and  *)
(* a time line that crosses midnight.                                      *)
EXTENDS Schedule

CONSTANTS r1, r2, r3

MCRef     == {r1, r2, r3}
MCRefPair == {r1, r2}

\* Around midnight (time 8): 7..9, 11..12, 12..13 and the next midnight.  The
\* second is free of the first's padded slot but not with its own padding;
\* the third is further from the first than two windows and fits between it
\* and the fourth, which has no length.
MCRecSlots == {TimeSlot(TimeStamp(0, 7), 2), TimeSlot(TimeStamp(1, 3), 1),
               TimeSlot(TimeStamp(1, 4), 1), TimeSlot(TimeStamp(2, 0), 0)}

ASSUME SlotsAreSane == SaneTimes

Symmetry == Permutations(Ref)
=============================================================================
