----------------------------- MODULE FieldTexts -----------------------------
(* What the columns of a row say of a File: sizes, times and modes, each as    *)
(* the numbers and letters that are printed.                                   *)
EXTENDS Integers

CONSTANT MaxTime    \* the last time localtime() can convert

ASSUME TimeAssumption == MaxTime \in Nat

Unknown == <<"?">>

-----------------------------------------------------------------------------
(* getblocks() and humanbytes().                                               *)

DevBsize == 512

\* Faulty: a part of a block does not count.
BlocksRoundedDown(blocks, blocksize) ==
    IF blocksize > DevBsize THEN blocks \div (blocksize \div DevBsize)
    ELSE blocks * (DevBsize \div blocksize)

\* st_blocks, which are of DEV_BSIZE, in blocks of blocksize.
Blocks(blocks, blocksize) ==
    IF blocksize > DevBsize
    THEN LET factor == blocksize \div DevBsize
         IN  (blocks + (factor \div 2)) \div factor
    ELSE blocks * (DevBsize \div blocksize)

\* "%.0f" of n / unit: halves go to the even number.
Nearest(n, unit) ==
    LET half == (2 * (n % unit)) - unit
    IN  n \div unit + (IF half > 0 \/ (half = 0 /\ (n \div unit) % 2 = 1) THEN 1 ELSE 0)

\* How many bytes the unit is, i steps above B.
Unit(i) ==
    LET unit[k \in 0..i] == IF k = 0 THEN 1 ELSE 1000 * unit[k - 1]
    IN  unit[i]

\* The number and the unit it counts, B to YB.
HumanBytes(bytes) ==
    LET i == CHOOSE i \in 0..8 : /\ bytes \div Unit(i) < 1000 \/ i = 8
                                 /\ \A j \in 0..i - 1 : bytes \div Unit(j) >= 1000
    IN  <<"human", Nearest(bytes, Unit(i)), i>>

-----------------------------------------------------------------------------
(* getdatetimefield(), in a time zone without summer time and years without    *)
(* leap days: strftime() is not at issue, the choice of what it prints is.     *)

Minute == 60
Hour == 60 * Minute
Day == 24 * Hour
Month == 31 * Day
Year == 12 * Month

WeekdayAndTime(t) == <<"weekday", (t % (7 * Day)) \div Minute>>
DateAndTime(t)    == <<"date", (t % (365 * Day)) \div Minute>>
DateAndYear(t)    == <<"year", t \div Day>>
Iso(t)            == <<"iso", t>>
Raw(t)            == <<"number", t>>

\* Faulty: a weekday is good for eight days.
TraditionalForEightDays(t, now) ==
    CASE t <= now /\ t > now - 8 * Day   -> WeekdayAndTime(t)
      [] t <= now /\ t <= now - 8 * Day /\ t > now - 180 * Day -> DateAndTime(t)
      [] OTHER                           -> DateAndYear(t)

Traditional(t, now) ==
    CASE t <= now /\ t > now - 6 * Day   -> WeekdayAndTime(t)
      [] t <= now - 6 * Day /\ t > now - 180 * Day -> DateAndTime(t)
      [] OTHER                           -> DateAndYear(t)

UnitOf(age) ==
    CASE age > Year                      -> <<"years", Year>>
      [] age > Month /\ age <= Year      -> <<"months", Month>>
      [] age > Day /\ age <= Month       -> <<"days", Day>>
      [] age > Hour /\ age <= Day        -> <<"hours", Hour>>
      [] age > Minute /\ age <= Hour     -> <<"minutes", Minute>>
      [] OTHER                           -> <<"seconds", 1>>

Relative(t, now) ==
    IF t > now THEN DateAndYear(t)
    ELSE LET unit == UnitOf(now - t) IN <<unit[1], (now - t) \div unit[2]>>

Converts(t) == t \in -MaxTime..MaxTime

\* The time is compared with the present, which assert() wants to be known.
NeedsNow(t, timeformat) == Converts(t) /\ timeformat = "none"

DateText(t, now, timeformat, timestyle) ==
    IF ~Converts(t) THEN Raw(t)
    ELSE IF timeformat # "none" THEN Iso(t)
    ELSE IF timestyle = "relative" THEN Relative(t, now)
    ELSE Traditional(t, now)

-----------------------------------------------------------------------------
(* getmodes() and getperms().                                                  *)

Kinds == {"link", "dir", "blockdev", "chardev", "fifo", "sock", "regular"}
Bits == {"rusr", "wusr", "xusr", "rgrp", "wgrp", "xgrp", "roth", "woth", "xoth",
         "suid", "sgid", "svtx"}

KindLetter(kind) ==
    CASE kind = "link"     -> "l"   [] kind = "dir"     -> "d"
      [] kind = "blockdev" -> "b"   [] kind = "chardev" -> "c"
      [] kind = "fifo"     -> "p"   [] kind = "sock"    -> "s"
      [] OTHER             -> "-"

Letter(mode, bit, letter) == IF bit \in mode THEN letter ELSE "-"

\* The x of a class that another bit is shown in: "s" or "t" where both are
\* set, "S" or "T" where only the other is.
Execute(mode, bit, special, both, only) ==
    IF special \in mode THEN (IF bit \in mode THEN both ELSE only)
    ELSE Letter(mode, bit, "x")

Modes(kind, mode, acls) ==
    << KindLetter(kind),
       Letter(mode, "rusr", "r"), Letter(mode, "wusr", "w"),
       Execute(mode, "xusr", "suid", "s", "S"),
       Letter(mode, "rgrp", "r"), Letter(mode, "wgrp", "w"),
       Execute(mode, "xgrp", "sgid", "s", "S"),
       Letter(mode, "roth", "r"), Letter(mode, "woth", "w"),
       Execute(mode, "xoth", "svtx", "t", "T"),
       IF kind # "link" /\ acls THEN "+" ELSE " " >>

\* What access() answers of reading, writing and executing.
Perms(access) ==
    [i \in 1..3 |-> CASE access[i] = "yes"    -> <<"r", "w", "x">>[i]
                      [] access[i] = "EACCES" -> "-"
                      [] OTHER                -> "?"]
=============================================================================
