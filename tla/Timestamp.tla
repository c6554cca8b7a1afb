------------------------------ MODULE Timestamp ------------------------------
(***************************************************************************)
(* timestamp (Exp_TimestampCmd of expect.c) and the strftime of Expect     *)
(* (compat/exp_strf.c).  What is printed is a sequence of items: how it is *)
(* written, and the number that is.                                        *)
(***************************************************************************)
EXTENDS Integers, FiniteSets, SequencesExt

CONSTANTS
    Years,          \* a clock may start on 1 January of any of these
    Formats         \* formats, as sequences of characters

Zone == 2           \* hours that local time is ahead

\* The calendar of gmtime and localtime; time is in hours since 1970.
isleap(year) == (year % 4 = 0 /\ year % 100 # 0) \/ year % 400 = 0
YearDays(year) == IF isleap(year) THEN 366 ELSE 365
MonthDays(year) == <<31, IF isleap(year) THEN 29 ELSE 28, 31, 30, 31, 30, 31, 31, 30, 31, 30, 31>>
DaysTo(year) ==
    365 * (year - 1970) + (year - 1969) \div 4 - (year - 1901) \div 100 + (year - 1601) \div 400

localtime(time) ==
    LET day == time \div 24
        year == CHOOSE y \in Min(Years) - 1 .. Max(Years) + 1 : DaysTo(y) <= day /\ day < DaysTo(y + 1)
        yday == day - DaysTo(year)
        Before(m) == FoldLeft(+, 0, SubSeq(MonthDays(year), 1, m))
        mon == CHOOSE m \in 0 .. 11 : Before(m) <= yday /\ yday < Before(m + 1)
    IN  [year |-> year - 1900, mon |-> mon, mday |-> yday - Before(mon) + 1, yday |-> yday,
         wday |-> (day + 4) % 7, hour |-> time % 24, min |-> 59, sec |-> 1]
-----------------------------------------------------------------------------
(***************************************************************************)
(* exp_strf.c                                                              *)
(***************************************************************************)
range(low, item, hi) == IF item < low THEN low ELSE IF item > hi THEN hi ELSE item

weeknumber(tm, firstweekday) ==
    LET wday == IF firstweekday = 1 THEN (tm.wday + 6) % 7 ELSE tm.wday
    IN  (tm.yday + 7 - wday) \div 7

\* Mutant of iso8601wknum: the last days of December stay in the old year.
WknumOfYear(timeptr) ==
    LET Week(tm) ==
            LET jan1day == (tm.wday + 7 - (tm.yday % 7)) % 7
            IN  weeknumber(tm, 1) + IF jan1day \in 2 .. 4 THEN 1 ELSE 0
        jan1day == (timeptr.wday + 7 - (timeptr.yday % 7)) % 7
        dec31ly == [timeptr EXCEPT !.year = @ - 1, !.mon = 11, !.mday = 31, !.wday = (jan1day + 6) % 7,
                                   !.yday = IF isleap(timeptr.year + 1899) THEN 365 ELSE 364]
    IN  IF Week(timeptr) = 0 THEN Week(dec31ly) ELSE Week(timeptr)

\* A week that is 0 is the last one of the year before, which is asked for its
\* 31 December; the last days of this December may be in week 1.
iso8601wknum(timeptr) ==
    LET Week(tm) ==
            LET jan1day == (tm.wday + 7 - (tm.yday % 7)) % 7
            IN  weeknumber(tm, 1) + IF jan1day \in 2 .. 4 THEN 1 ELSE 0
        InNextYear(tm) == tm.mon = 11 /\ tm.wday \in 1 .. 3 /\ tm.mday >= 28 + tm.wday
        jan1day == (timeptr.wday + 7 - (timeptr.yday % 7)) % 7
        dec31ly == [timeptr EXCEPT !.year = @ - 1, !.mon = 11, !.mday = 31, !.wday = (jan1day + 6) % 7,
                                   !.yday = IF isleap(timeptr.year + 1899) THEN 365 ELSE 364]
    IN  IF InNextYear(timeptr) THEN 1
        ELSE IF Week(timeptr) > 0 THEN Week(timeptr)
        ELSE IF InNextYear(dec31ly) THEN 1 ELSE Week(dec31ly)

Item(as, n) == [as |-> as, n |-> n]
Text(c) == Item(c, -1)

\* One conversion that does not stand for others.
Field(c, tm) ==
    LET hour == range(0, tm.hour, 23) IN
    CASE c = "%" -> <<Text("%")>>
      [] c = "a" -> <<Item("days_a", tm.wday)>>
      [] c = "A" -> <<Item("days_l", tm.wday)>>
      [] c \in {"h", "b"} -> <<Item("months_a", tm.mon)>>
      [] c = "B" -> <<Item("months_l", tm.mon)>>
      [] c = "d" -> <<Item("%02d", range(1, tm.mday, 31))>>
      [] c = "e" -> <<Item("%2d", range(1, tm.mday, 31))>>
      [] c = "H" -> <<Item("%02d", hour)>>
      [] c = "I" -> <<Item("%02d", IF hour = 0 THEN 12 ELSE IF hour > 12 THEN hour - 12 ELSE hour)>>
      [] c = "j" -> <<Item("%03d", tm.yday + 1)>>
      [] c = "m" -> <<Item("%02d", range(0, tm.mon, 11) + 1)>>
      [] c = "M" -> <<Item("%02d", range(0, tm.min, 59))>>
      [] c = "p" -> <<Item("ampm", IF hour < 12 THEN 0 ELSE 1)>>
      [] c = "S" -> <<Item("%02d", range(0, tm.sec, 61))>>
      [] c = "U" -> <<Item("%02d", weeknumber(tm, 0))>>
      [] c = "W" -> <<Item("%02d", weeknumber(tm, 1))>>
      [] c = "V" -> <<Item("%02d", iso8601wknum(tm))>>
      [] c = "w" -> <<Item("%d", range(0, tm.wday, 6))>>
      [] c = "u" -> <<Item("%d", IF tm.wday = 0 THEN 7 ELSE tm.wday)>>
      [] c = "y" -> <<Item("%02d", tm.year % 100)>>
      [] c = "Y" -> <<Item("%d", tm.year + 1900)>>
      [] c = "C" -> <<Item("%02d", (tm.year + 1900) \div 100)>>
      [] c \in {"n", "t", "Z"} -> <<Text(c)>>
      [] OTHER -> <<Text("%"), Text(c)>>

\* Conversions that stand for a format.
Whole ==
    [c |-> <<"%", "a", " ", "%", "b", " ", "%", "e", " ", "%", "T", " ", "%", "Y">>,
     x |-> <<"%", "a", " ", "%", "b", " ", "%", "e", " ", "%", "Y">>,
     X |-> <<"%", "T">>,
     D |-> <<"%", "m", "/", "%", "d", "/", "%", "y">>,
     r |-> <<"%", "I", ":", "%", "M", ":", "%", "S", " ", "%", "p">>,
     R |-> <<"%", "H", ":", "%", "M">>,
     T |-> <<"%", "H", ":", "%", "M", ":", "%", "S">>]

\* E and O after the % are passed over; a % that ends the format stands for itself.
RECURSIVE exp_strftime(_, _)
exp_strftime(format, tm) ==
    IF format = <<>> THEN <<>>
    ELSE IF format[1] # "%" THEN <<Text(format[1])>> \o exp_strftime(Tail(format), tm)
    ELSE LET at == SelectInSubSeq(format, 2, Len(format), LAMBDA c : c \notin {"E", "O"})
         IN  IF at = 0 THEN <<Text("%")>>
             ELSE (IF format[at] \in DOMAIN Whole THEN exp_strftime(Whole[format[at]], tm)
                   ELSE Field(format[at], tm))
                    \o exp_strftime(SubSeq(format, at + 1, Len(format)), tm)
-----------------------------------------------------------------------------
VARIABLES
    now,            \* time(), in hours
    asked,          \* the last command: its format, what time it was to print
    printed         \* its result

stampVars == <<now, asked, printed>>

StampInit ==
    /\ \E y \in Years : now = 24 * DaysTo(y)
    /\ asked = [format |-> <<>>, time |-> 0] /\ printed = <<>>

\* 23 hours pass: no day is left out, and every hour comes, until a year is over
\* and the first week of the next.
Tick ==
    /\ \E y \in Years : now \div 24 \in DaysTo(y) .. DaysTo(y + 1) + 6
    /\ now' = now + 23
    /\ asked' = [format |-> <<>>, time |-> 0] /\ printed' = <<>>

\* -seconds -1 is as good as none.  A time before 1970 cannot be converted: gmtime
\* answers NULL, which is not tested.
Timestamp(format, seconds, gmt) ==
    LET time == IF seconds = -1 THEN now ELSE seconds
        shown == time + IF gmt THEN 0 ELSE Zone
    IN  /\ printed = <<>>
        /\ asked' = [format |-> format, time |-> shown]
        /\ printed' = IF format = <<>> THEN <<Item("%ld", time)>>
                      ELSE IF time < 0 THEN <<Text("fault")>>
                      ELSE exp_strftime(format, localtime(shown))
        /\ UNCHANGED now

StampNext ==
    \/ Tick
    \/ \E f \in Formats, gmt \in BOOLEAN, seconds \in {-2, -1} : Timestamp(f, seconds, gmt)

StampSpec == StampInit /\ [][StampNext]_stampVars
-----------------------------------------------------------------------------
Day(n) == localtime(24 * n)
Printed(c) == \E k \in 1 .. Len(asked.format) - 1 : asked.format[k] = "%" /\ asked.format[k + 1] = c

\* The week of a date is that of its Thursday, and the Thursdays of a year are
\* counted from 1 (ISO 8601); %U and %W are how many Sundays, or Mondays, the year
\* has had; %I with %p is the hour, %C with %y the year; what stands for a format
\* prints what that format does; and E, O and a lone % lose nothing.
Dated ==
    printed # <<>> /\ printed[1].as # "fault" =>
      LET day == asked.time \div 24
          tm == localtime(asked.time)
          thursday == Day(day + 4 - (IF tm.wday = 0 THEN 7 ELSE tm.wday))
          Had(wday) == Cardinality({d \in day - tm.yday .. day : (d + 4) % 7 = wday})
          N(k) == printed[k].n
      IN  /\ asked.format = <<"%", "V">> => N(1) = thursday.yday \div 7 + 1
          /\ asked.format = <<"%", "U", "%", "W">> => N(1) = Had(0) /\ N(2) = Had(1)
          /\ asked.format = <<"%", "r">> => (N(1) % 12) + 12 * N(7) = asked.time % 24
          /\ asked.format = <<"%", "C", "%", "y">> =>
               24 * DaysTo(100 * N(1) + N(2)) + 24 * tm.yday + tm.hour = asked.time
          /\ asked.format = <<"%", "E", "D", "%">> =>
               printed = exp_strftime(Whole.D \o <<"%">>, tm)
=============================================================================
