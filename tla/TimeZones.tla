----------------------------- MODULE TimeZones -----------------------------
(***************************************************************************)
(* Arithmetic in a time zone (packages/shared/src/time.ts). A zone is what *)
(* Intl says of it around the instants at hand: an offset that changes at  *)
(* most once, by less than half a day. The unit is Hour / 2, so that there *)
(* are zones of half an hour. A preset range of so many days, which a      *)
(* question and its answer have in common, begins by this arithmetic.      *)
(***************************************************************************)
EXTENDS Integers

CONSTANTS Day, Hour

ASSUME UnitsDivide == Hour \in Nat \ {0} /\ Day \in Nat \ {0} /\ Day % Hour = 0

\* timeZoneOffsetMs
Offset(t, z) == IF t < z.change THEN z.before ELSE z.after

\* %, which in JavaScript takes the sign of the dividend.
Remainder(v, step) == IF v >= 0 THEN v % step ELSE -((-v) % step)

modulo(v, step) == (Remainder(v, step) + step) % step
floorTo(v, step) == v - modulo(v, step)

\* Mutant: the midnight is not looked at again.
StartOfDayOnePass(t, z) == floorTo(t + Offset(t, z), Day) - Offset(t, z)

zonedStartOfDay(t, z) ==
  LET offset == Offset(t, z)
      wallDayStart == floorTo(t + offset, Day)
      candidate == wallDayStart - offset
  IN IF Offset(candidate, z) = offset THEN candidate
     ELSE wallDayStart - Offset(candidate, z)

\* Mutant: days of 24 hours, from midnight.
AddFlatDays(t, days, z) == zonedStartOfDay(zonedStartOfDay(t, z) + days * Day, z)

addZonedDays(t, days, z) ==
  zonedStartOfDay(zonedStartOfDay(t, z) + days * Day + Day \div 2, z)

\* presetBounds: "24h" is rolling, the other presets start with a day.
presetFrom(days, t, z) ==
  IF days = 1 THEN t - Day ELSE addZonedDays(t, -(days - 1), z)

zonedStartOfInterval(t, step, z) == floorTo(t + Offset(t, z), step) - Offset(t, z)

-----------------------------------------------------------------------------
(***************************************************************************)
(* What a calendar on the wall shows.                                      *)
(***************************************************************************)
Wall(t, z) == t + Offset(t, z)
CivilDay(t, z) == Wall(t, z) \div Day

\* A midnight is among the hours that the clock change repeats, or inside those it
\* skips: a day that begins when the clocks go from 0:00 to 1:00 is neither.
ChangesAcrossMidnight(z) ==
  \E w \in (z.change + z.after .. z.change + z.before - 1) \cup
            (z.change + z.before + 1 .. z.change + z.after - 1) : w % Day = 0

\* t is the first instant of its day.
BeginsDay(t, z) == CivilDay(t - 1, z) < CivilDay(t, z)

\* The first instant of t's day, where no clock change is across a midnight.
Midnight(t, z) ==
  CHOOSE s \in t - 2 * Day .. t :
    BeginsDay(s, z) /\ CivilDay(s, z) = CivilDay(t, z)
=============================================================================
