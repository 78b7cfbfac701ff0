------------------------------ MODULE Calendar ------------------------------
(***************************************************************************)
(* The clock the recorder and its companions stamp messages and frames      *)
(* with: Modified Julian Day from the calendar date, milliseconds past      *)
(* midnight from the time of day, read in two calls while the clock runs.   *)
(***************************************************************************)
EXTENDS Naturals, Sequences, FiniteSetsExt

CONSTANTS
  StartDates,   \* dates the clock may start at
  TicksPerDay,  \* milliseconds of a day
  MaxDays       \* bound on the days a behaviour lasts

ASSUME CalendarAssumption == {TicksPerDay, MaxDays} \subseteq Nat \ {0}

VARIABLES
  date, tod,    \* what gmtime_r makes of the system clock: date and ticks since midnight
  days,         \* the midnights passed
  mjd, mpm,     \* the stamp being made
  reads         \* the parts of it that have been read

calVars == <<date, tod, days, mjd, mpm, reads>>

-----------------------------------------------------------------------------
\* The calendar of the C library.
IsLeap(y) == y % 4 = 0 /\ (y % 100 # 0 \/ y % 400 = 0)
DaysIn(y, m) ==
  CASE m = 2 -> IF IsLeap(y) THEN 29 ELSE 28
    [] m \in {4, 6, 9, 11} -> 30
    [] OTHER -> 31
NextDay(d) ==
  IF d.day < DaysIn(d.year, d.month) THEN [d EXCEPT !.day = @ + 1]
  ELSE IF d.month < 12 THEN [d EXCEPT !.day = 1, !.month = @ + 1]
  ELSE [year |-> d.year + 1, month |-> 1, day |-> 1]

\* Time::getMJD, Time::now, Time::micros_toStamp and both TimeKeeper::getMJD:
\* the year begins in March, so that the leap day is its last.  The half day
\* of the constant 2400000.5 is lost in the conversion to an integer.
getMJDRounded(d) ==
  LET a == (14 - d.month) \div 12
      y == d.year + 4800 - a
      m == d.month + 12 * a - 3
      p == d.day + (153 * m) \div 5 + 365 * y
      q == (y \div 4 + y \div 400) - y \div 100
  IN  (p + q - 32045) - 2400001
getMJD(d) ==
  LET a == (14 - d.month) \div 12
      y == d.year + 4800 - a
      m == d.month + 12 * a - 3
      p == d.day + (153 * m + 2) \div 5 + 365 * y
      q == (y \div 4 + y \div 400) - y \div 100
  IN  (p + q - 32045) - 2400001

-----------------------------------------------------------------------------
CalInit ==
  /\ date \in StartDates
  /\ tod \in 0 .. TicksPerDay - 1
  /\ days = 0
  /\ mjd = 0 /\ mpm = 0
  /\ reads = 0

calTick ==
  /\ tod < TicksPerDay - 1
  /\ tod' = tod + 1
  /\ UNCHANGED <<date, days, mjd, mpm, reads>>

midnight ==
  /\ tod = TicksPerDay - 1 /\ days < MaxDays
  /\ tod' = 0 /\ date' = NextDay(date) /\ days' = days + 1
  /\ UNCHANGED <<mjd, mpm, reads>>

\* Message::setResponse, Message::clear and main() of Msender read the day
\* first and the time of day second.
readOrderTimeFirst == <<"mpm", "mjd">>
readOrder == <<"mjd", "mpm">>
readPart ==
  /\ reads < Len(readOrder)
  /\ reads' = reads + 1
  /\ IF readOrder[reads + 1] = "mjd" THEN mjd' = getMJD(date) /\ UNCHANGED mpm
                                     ELSE mpm' = tod /\ UNCHANGED mjd
  /\ UNCHANGED <<date, tod, days>>

CalNext == calTick \/ midnight \/ readPart
CalSpec == CalInit /\ [][CalNext]_calVars

-----------------------------------------------------------------------------
\* The formula counts days: across month ends, leap years and centuries the
\* day number is 40587, that of 1 January 1970, plus the days since then.
MJDCountsDays ==
  LET years  == 1970 .. date.year - 1
      months == 1 .. date.month - 1
  IN  getMJD(date) = 40587 + 365 * (date.year - 1970) + Cardinality({y \in years : IsLeap(y)})
                       + MapThenSumSet(LAMBDA m : DaysIn(date.year, m), months) + date.day - 1

\* A stamp is never ahead of the clock it was read from, although midnight may
\* pass between the two reads: it is then a day behind, which is what a
\* response or a command sent at midnight carries.
StampNotAhead ==
  reads = Len(readOrder) =>
    LET stamp == mjd * TicksPerDay + mpm
        now   == getMJD(date) * TicksPerDay + tod
    IN  stamp <= now

\* The same without the exception: a finished stamp is the time of its last
\* read.  Midnight between the two reads makes it a day old.
StampIsExact ==
  [][reads = 1 /\ reads' = 2
       => mjd' * TicksPerDay + mpm' = getMJD(date) * TicksPerDay + tod]_calVars

\* The day number is right, and a stamp made of two reads is not ahead.
ClockSound == MJDCountsDays /\ StampNotAhead
=============================================================================
