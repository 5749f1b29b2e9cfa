------------------------------ MODULE Timestamp ------------------------------
(***************************************************************************)
(* The date of a sentence.  A sentence tells hours, minutes and seconds;   *)
(* the date is that of the receiver's clock, and corrected when one of     *)
(* them is before midnight and the other behind.  Times are whole seconds  *)
(* since a midnight long ago.                                              *)
(***************************************************************************)
EXTENDS Integers

Hour == 3600
Day == 86400

DayOf(t) == t \div Day
OfDay(t) == t % Day
HourOf(t) == OfDay(t) \div Hour

\* timestamp_from_HMS(): the day of time of day hms, when the clock is at now.
DayFor(hms, now) ==
    IF hms \div Hour = 23 /\ HourOf(now) = 0 THEN DayOf(now) - 1
    ELSE IF hms \div Hour = 0 /\ HourOf(now) = 23 THEN DayOf(now) + 1
    ELSE DayOf(now)

Timestamp(hms, now) == DayFor(hms, now) * Day + hms
=============================================================================
