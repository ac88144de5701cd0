------------------------------ MODULE Calendar ------------------------------
(***************************************************************************)
(* The year of a timestamp, as ops_server computes it: a timestamp counts  *)
(* microseconds since 2000-01-01, C divides towards zero, and the year is  *)
(* read off the Julian day by counting centuries and then years of four.   *)
(***************************************************************************)
EXTENDS Integers

CONSTANT USECS_PER_DAY   \* 86400000000 in the code

ASSUME DayAssumption == USECS_PER_DAY \in Nat \ {0}

POSTGRES_EPOCH_JDATE == 2451545
INT_MAX == 2147483647

\* Division of C: the quotient is cut off towards zero.
CQuotient(t, u) == IF t >= 0 THEN t \div u ELSE -((-t) \div u)

\* TMODULO and the correction that follows it; what is left of the day is not used.
JulianDay(t) ==
    LET date == CQuotient(t, USECS_PER_DAY)
        rest == t - date * USECS_PER_DAY
    IN  (IF rest < 0 THEN date - 1 ELSE date) + POSTGRES_EPOCH_JDATE

\* The year of a Julian day, counted in days of March-based years since 4800 BC.
YearOfDay(jd) ==
    LET date == jd + 32044
        cycle == date \div 146097
        extra == (date - cycle * 146097) * 4 + 3
        flat == date + 60 + cycle * 3 + extra \div 146097
        quad == flat \div 1461
        rest == flat - quad * 1461
    IN  ((rest * 4) \div 1461) + quad * 4 - 4800

plain_timestamp_extract_year(t) ==
    LET jd == JulianDay(t)
    IN  IF jd < 0 \/ jd > INT_MAX THEN -1 ELSE YearOfDay(jd)

-----------------------------------------------------------------------------
(* The calendar it is compared with.                                       *)

\* The Julian day of the first of January of year y of the Gregorian calendar:
\* years of 365 days, and a leap day for each fourth year before y but not for
\* the centuries that 400 does not divide.
NewYear(y) ==
    1721426 + 365 * (y - 1) + ((y - 1) \div 4) - ((y - 1) \div 100) + ((y - 1) \div 400)

\* The timestamp of the beginning of a Julian day.
Midnight(jd) == (jd - POSTGRES_EPOCH_JDATE) * USECS_PER_DAY

HasYear(t) == JulianDay(t) >= 0 /\ JulianDay(t) <= INT_MAX

\* The year of a timestamp is the one it falls in: it is not before the first
\* moment of that year, and before the first moment of the next
\* (plain_timestamp_extract_year), for all days the computation is meant for.
YearRight(t) ==
    LET y == plain_timestamp_extract_year(t)
    IN  IF HasYear(t) THEN Midnight(NewYear(y)) <= t /\ t < Midnight(NewYear(y + 1)) ELSE y = -1
=============================================================================
