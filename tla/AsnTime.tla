------------------------------ MODULE AsnTime -------------------------------
(***************************************************************************)
(* src/src/asn1/asn1time.c: calendar arithmetic over a cache of the days   *)
(* before each year, centred on the current year, and the UTCTime fields   *)
(* that asn1write.c derives from a timestamp and asn1parse.c turns back    *)
(* into one.                                                               *)
(*                                                                         *)
(* The time of day is one number below DaySeconds.  The current year comes *)
(* from the timestamp a caller injected or from time(), which moves under  *)
(* the cache and may fail.                                                 *)
(***************************************************************************)
EXTENDS Integers, Sequences, FiniteSets

CONSTANTS DaySeconds,   \* 86400 in the code
          CacheRange,   \* SDC_ASN1_TIME_CACHE_RANGE: 30 in the code
          Clocks,       \* bound: what time() may return, NoTime among them or not
          Injected,     \* bound: timestamps a caller injects
          Dates,        \* bound: calendar dates handed in, sound or not
          LastYear      \* bound: no year looked at, cached ones included, is later

NoTime == -1            \* time() == (time_t)-1

ASSUME TimeAssumption ==
    /\ DaySeconds \in Nat \ {0}
    /\ CacheRange \in Nat
    /\ Clocks \subseteq Int /\ \A c \in Clocks : c >= NoTime
    /\ Injected \subseteq Nat
    /\ LastYear \in Nat /\ LastYear >= 2049 + CacheRange
    /\ \A ts \in Clocks \cup Injected :
            ts < (365 * (LastYear - CacheRange - 1970)) * DaySeconds
    /\ \A d \in Dates : d \in [y : Int, m : Int, d : Int, s : Nat] /\ d.y <= LastYear

VARIABLES clock,    \* the system's time
          user,     \* user_time_set and user_timestamp
          cache,    \* cache_initialized, cache_start_year, days_cache
          told      \* the last answer a caller got

timeVars == <<clock, user, cache, told>>

-----------------------------------------------------------------------------
(* The calendar's helpers and loops.                                       *)

YearIsLeap(y) == (y % 4 = 0 /\ y % 100 # 0) \/ y % 400 = 0

MonthLength(y, m) ==
    IF m \notin 1 .. 12 THEN 0
    ELSE IF m = 2 /\ YearIsLeap(y) THEN 29
    ELSE <<31, 28, 31, 30, 31, 30, 31, 31, 30, 31, 30, 31>>[m]

LeapYears == {y \in 1970 - CacheRange .. LastYear : YearIsLeap(y)}

(* The loops "for (y = from; y < to; y++) days += days_in_year(y)".        *)
YearDays(from, to) ==
    IF to <= from THEN 0
    ELSE 365 * (to - from) + Cardinality(LeapYears \cap (from .. to - 1))

MonthDays(y, m) ==
    LET Sum[k \in 1 .. 13] == IF k = 1 THEN 0 ELSE Sum[k - 1] + MonthLength(y, k - 1)
    IN  Sum[m]

(* The division of a day number into year, month and day.                  *)
DateOf(ts) ==
    LET t     == ts \div DaySeconds
        y     == CHOOSE y \in 1970 + (t \div 366) .. 1970 + (t \div 365) :
                    YearDays(1970, y) <= t /\ t < YearDays(1970, y + 1)
        inY   == t - YearDays(1970, y)
        m     == CHOOSE m \in 1 .. 12 : MonthDays(y, m) <= inY /\ inY < MonthDays(y, m + 1)
    IN  [y |-> y, m |-> m, d |-> inY - MonthDays(y, m) + 1, s |-> ts % DaySeconds]

-----------------------------------------------------------------------------
(* The cache.                                                              *)

(* Mutant of CacheElements: the current year itself has no slot.           *)
CacheElementsShort == 2 * CacheRange

CacheElements == 2 * CacheRange + 1

EmptyCache == [ready |-> FALSE, start |-> 0, days |-> [i \in 0 .. CacheElements - 1 |-> 0]]

(* get_current_year: 0 when the time is not known.                         *)
CurrentYear ==
    IF user.set THEN DateOf(user.ts).y
    ELSE IF clock = NoTime THEN 0 ELSE DateOf(clock).y

(* Mutant of Filled: the year a slot stands for is counted in it.          *)
FilledLate ==
    LET year  == IF CurrentYear = 0 THEN 1970 ELSE CurrentYear
        start == year - CacheRange
    IN  [ready |-> TRUE, start |-> start,
         days |-> [i \in 0 .. CacheElements - 1 |->
                     YearDays(1970, start) + YearDays(start, start + i + 1)]]

(* init_cache.                                                             *)
Filled ==
    LET year  == IF CurrentYear = 0 THEN 1970 ELSE CurrentYear
        start == year - CacheRange
    IN  [ready |-> TRUE, start |-> start,
         days |-> [i \in 0 .. CacheElements - 1 |->
                     YearDays(1970, start) + YearDays(start, start + i)]]

Used == IF cache.ready THEN cache ELSE Filled

DaysBeforeYear(c, y) ==
    IF y - c.start \in 0 .. CacheElements - 1 THEN c.days[y - c.start]
    ELSE YearDays(1970, y)

-----------------------------------------------------------------------------
(* The dates sdc_asn1_time_to_timestamp takes; the others give 0.          *)
Taken(d) ==
    /\ d.y >= 1970 /\ d.y <= 9999 /\ d.m \in 1 .. 12
    /\ d.d \in 1 .. MonthLength(d.y, d.m)
    /\ d.s < DaySeconds

Stamp(c, d) ==
    IF ~Taken(d) THEN 0
    ELSE (DaysBeforeYear(c, d.y) + MonthDays(d.y, d.m) + d.d - 1) * DaySeconds + d.s

(* Only a date it takes makes it look at the cache.                        *)
CacheAfter(d) == IF Taken(d) THEN Used ELSE cache

(* Mutant of FullYear: the pivot is one year late.                         *)
FullYearLate(yy) == IF yy > 50 THEN 1900 + yy ELSE 2000 + yy

(* A UTCTime has a two-digit year.                                         *)
FullYear(yy)   == IF yy >= 50 THEN 1900 + yy ELSE 2000 + yy
UtcFields(ts)  == [DateOf(ts) EXCEPT !.y = @ % 100]

-----------------------------------------------------------------------------
NoAnswer == [op |-> "none"]

TimeInit ==
    /\ clock \in Clocks
    /\ user = [set |-> FALSE, ts |-> 0]
    /\ cache = EmptyCache
    /\ told = NoAnswer

ClockMoves ==
    /\ clock' \in Clocks
    /\ told' = NoAnswer
    /\ UNCHANGED <<user, cache>>

ToTimestamp(d) ==
    /\ cache' = CacheAfter(d)
    /\ told' = [op |-> "stamp", date |-> d, ts |-> Stamp(Used, d)]
    /\ UNCHANGED <<clock, user>>

(* Mutant of SetCurrent: the cache outlives the year it was made for.      *)
SetCurrentKeeps(ts) ==
    /\ user' = [set |-> ts # 0, ts |-> ts]
    /\ told' = NoAnswer
    /\ UNCHANGED <<clock, cache>>

SetCurrent(ts) ==
    /\ user' = [set |-> ts # 0, ts |-> ts]
    /\ cache' = [cache EXCEPT !.ready = FALSE]
    /\ told' = NoAnswer
    /\ UNCHANGED clock

CacheRefresh ==
    /\ cache' = [cache EXCEPT !.ready = FALSE]
    /\ told' = NoAnswer
    /\ UNCHANGED <<clock, user>>

GetCacheRange ==
    /\ cache' = Used
    /\ told' = [op |-> "range", from |-> Used.start, to |-> Used.start + CacheElements - 1]
    /\ UNCHANGED <<clock, user>>

Now ==
    /\ told' = IF user.set THEN [op |-> "now", rc |-> "OK", ts |-> user.ts]
               ELSE IF clock = NoTime THEN [op |-> "now", rc |-> "TIME_FAIL", ts |-> 0]
               ELSE [op |-> "now", rc |-> "OK", ts |-> clock]
    /\ UNCHANGED <<clock, user, cache>>

(* The readers know a date that was refused by the timestamp's being 0.    *)
(* (Fields out of range are refused before: ts 0 stands for that too.)     *)
ReadTime(op, d, src) ==
    /\ cache' = CacheAfter(d)
    /\ told' = [op |-> op, src |-> src, date |-> d, ts |-> Stamp(Used, d),
                rc |-> IF Stamp(Used, d) = 0 THEN "BAD_FORMAT" ELSE "OK"]
    /\ UNCHANGED <<clock, user>>

ReadGeneralizedTime(d) == d.y \in 0 .. 9999 /\ ReadTime("gen", d, -1)

(* f has the fields of a UTCTime: two digits of the year.                  *)
ReadUtcTime(f, src) == ReadTime("utc", [f EXCEPT !.y = FullYear(f.y)], src)

(* sdc_asn1_write_utctime, and the reader on what it wrote.                *)
WriteThenRead(ts) == ReadUtcTime(UtcFields(ts), ts)

TimeNext ==
    \/ ClockMoves
    \/ \E d \in Dates : ToTimestamp(d)
    \/ \E ts \in Injected : SetCurrent(ts)
    \/ CacheRefresh
    \/ GetCacheRange
    \/ Now
    \/ \E d \in Dates : ReadGeneralizedTime(d) \/ ReadUtcTime([d EXCEPT !.y = @ % 100], -1)
    \/ \E ts \in Injected : WriteThenRead(ts)

TimeSpec == TimeInit /\ [][TimeNext]_timeVars

-----------------------------------------------------------------------------
(* The calendar by rule, without loops or cache: the reference.            *)

LeapsTo(y) == (y \div 4) - (y \div 100) + (y \div 400)

YearStart(y) == 365 * (y - 1970) + LeapsTo(y - 1) - LeapsTo(1969)

MonthStart(y, m) ==
    <<0, 31, 59, 90, 120, 151, 181, 212, 243, 273, 304, 334, 365>>[m]
        + IF m > 2 /\ YearIsLeap(y) THEN 1 ELSE 0

Exists(d) ==
    /\ d.y >= 1970 /\ d.y <= 9999 /\ d.m \in 1 .. 12 /\ d.s < DaySeconds
    /\ d.d \in 1 .. MonthStart(d.y, d.m + 1) - MonthStart(d.y, d.m)

ExactStamp(d) ==
    IF Exists(d) THEN (YearStart(d.y) + MonthStart(d.y, d.m) + d.d - 1) * DaySeconds + d.s
    ELSE 0

(* Types of every variable.                                                *)
TimeTypeOK ==
    /\ clock \in Clocks
    /\ user \in [set : BOOLEAN, ts : {0} \cup Injected]
    /\ cache \in [ready : BOOLEAN, start : Int, days : [0 .. 2 * CacheRange -> Nat]]
    /\ told.op \in {"none", "stamp", "range", "now", "utc", "gen"}

(* A conversion is the calendar's, whatever the cache was filled for and   *)
(* however the clock moved since: before, in and after the cached years    *)
(* and at their two ends; a date that does not exist gives 0.              *)
ConversionsExact ==
    told.op \in {"stamp", "utc", "gen"} => told.ts = ExactStamp(told.date)

(* An injected time takes hold of everything at once: what the cache       *)
(* covers is centred on it and not on the year it had before.              *)
InjectedRules ==
    user.set =>
        /\ told.op = "now" => told.rc = "OK" /\ told.ts = user.ts
        /\ told.op = "range" =>
              told.from = DateOf(user.ts).y - CacheRange
              /\ told.to = DateOf(user.ts).y + CacheRange

(* A timestamp written as a UTCTime reads back as itself while two digits  *)
(* can tell its year (to 2049); a UTCTime is read as a date of the years   *)
(* 1970 to 2049 or not at all; and both readers take exactly the dates     *)
(* that exist, but for the epoch, whose timestamp is the mark of refusal.  *)
UtcRoundTrip ==
    /\ told.op = "utc" =>
        /\ told.src \in 1 .. YearStart(2050) * DaySeconds - 1 =>
              told.rc = "OK" /\ told.ts = told.src
        /\ told.rc = "OK" => told.date.y \in 1970 .. 2049
    /\ told.op \in {"utc", "gen"} =>
        (told.rc = "OK" <=> Exists(told.date) /\ ExactStamp(told.date) # 0)

(* tests/test_asn1time.c:23 "1970-01-01 00:00:00 -> 0": the epoch converts *)
(* to 0.  It does not once the cache was filled for a year below 2000.     *)
EpochIsZero ==
    told.op = "stamp" /\ told.date = [y |-> 1970, m |-> 1, d |-> 1, s |-> 0] => told.ts = 0
=============================================================================
