----------------------------- MODULE CallingWindow -----------------------------
(***************************************************************************)
(* When a campaign may next dial a recipient: domain-campaigns/            *)
(* scheduling.ts.  Instants are counted in minutes of a day of DayLength   *)
(* (1440 in the code), day 0 being a Sunday; a time zone is its offset     *)
(* before and after one change of clocks.  Calendar and zone data are the  *)
(* runtime's: the code asks Date and Intl for them.                        *)
(*                                                                         *)
(* A behavior fixes one campaign's window and one recipient's zone, and    *)
(* asks at every minute from First to Last.                                *)
(***************************************************************************)
EXTENDS Integers, FiniteSets, FiniteSetsExt

CONSTANTS
  DayLength,
  HourLength,
  Windows,        \* calling windows: pairs of times, as configured
  CallingDays,    \* sets of weekdays, as configured; 0 is Sunday
  Zones,          \* [before, after, change]
  MidnightHours,  \* how the runtime writes the hour after midnight: 0 or 24
  First, Last     \* bound: the minutes at which the code is asked

(* No zone is a day or more away from Greenwich.                           *)
Offsets == (1 - DayLength)..(DayLength - 1)

ASSUME WindowAssumption ==
  /\ DayLength \in Nat \ {0}
  /\ HourLength \in 1..DayLength
  /\ Windows \subseteq [start : Int, end : Int]
  /\ Zones \subseteq [before : Offsets, after : Offsets, change : Int]
  /\ MidnightHours \subseteq {0, 24}
  /\ First \in Nat /\ Last \in Nat

VARIABLES campaign, zone, midnight, now

dialingVars == <<campaign, zone, midnight, now>>

Week == 7

----------------------------------------------------------------------------
(* The runtime: local time of an instant, instant of a local time.         *)

getOffsetMinutes(z, u) == IF u < z.change THEN z.before ELSE z.after

Local(z, u) == u + getOffsetMinutes(z, u)

LocalDay(z, u) == Local(z, u) \div DayLength

Weekday(z, u) == LocalDay(z, u) % Week

(* A runtime that writes 24 for the hour after midnight puts those minutes *)
(* after all others of the day.                                            *)
TimeMinutes(z, u) ==
  LET t == Local(z, u) % DayLength
  IN  IF midnight = 24 /\ t < HourLength THEN DayLength + t ELSE t

(* Mutant: the offset at the local time taken as an instant is used.       *)
OneGuess(z, day, minutes) ==
  LET base == day * DayLength + minutes
  IN  base - getOffsetMinutes(z, base)

(* Three guesses at the offset; a guess that repeats is the answer.        *)
zonedLocalTimeToUtc(z, day, minutes) ==
  LET base     == day * DayLength + minutes
      Guess(u) == base - getOffsetMinutes(z, u)
  IN  Guess(Guess(Guess(base)))

----------------------------------------------------------------------------

Clamped(minutes) == Max({0, Min({DayLength - 1, minutes})})

startMinutes == Clamped(campaign.window.start)

endMinutes == Clamped(campaign.window.end)

days == IF campaign.days = {} THEN 1..5 ELSE campaign.days

crossesMidnight == startMinutes > endMinutes

isWithinCallingWindowAt(u) ==
  LET t == TimeMinutes(zone, u)
  IN  /\ Weekday(zone, u) \in days
      /\ IF crossesMidnight THEN t >= startMinutes \/ t < endMinutes
                            ELSE t >= startMinutes /\ t < endMinutes

(* Mutant: the search starts a day late.                                   *)
AllowedAfterTomorrow(weekday) == {i \in 2..Week : (weekday + i) % Week \in days}

AllowedWithinAWeek(weekday) == {i \in 1..Week : (weekday + i) % Week \in days}

DaysAhead(weekday) ==
  LET ahead == AllowedWithinAWeek(weekday)
  IN  IF ahead = {} THEN 0 ELSE Min(ahead)

(* On an allowed day whose window is still to come, the day itself.        *)
StillToCome(u) ==
  /\ Weekday(zone, u) \in days
  /\ crossesMidnight \/ TimeMinutes(zone, u) < startMinutes

nextAllowedStartUtc(u) ==
  LET today == LocalDay(zone, u)
      day   == IF StillToCome(u) THEN today
                                 ELSE today + DaysAhead(Weekday(zone, u))
  IN  IF isWithinCallingWindowAt(u)
        THEN u
        ELSE zonedLocalTimeToUtc(zone, day, startMinutes)

----------------------------------------------------------------------------

InitDialing ==
  /\ campaign \in [window : Windows, days : CallingDays]
  /\ zone \in Zones
  /\ midnight \in MidnightHours
  /\ now = First

Tick == now < Last /\ now' = now + 1 /\ UNCHANGED <<campaign, zone, midnight>>

DialingSpec == InitDialing /\ [][Tick]_dialingVars

----------------------------------------------------------------------------
(* Properties.  What the answer should be is stated without the code's     *)
(* arithmetic: over all instants of the following week and a day.          *)

Horizon == now..(now + (Week + 1) * DayLength)

(* The change of clocks neither skips nor repeats a local time: one instant *)
(* has it.                                                                 *)
ComesOnce(local) ==
  local < zone.change + zone.before <=> local < zone.change + zone.after

(* No window of the coming days starts, and none of the past ones ended, at *)
(* a time that is skipped or repeated.                                     *)
StartIsPlain ==
  \A day \in LocalDay(zone, now)..(LocalDay(zone, now) + Week) :
    ComesOnce(day * DayLength + startMinutes)

EndIsPlain ==
  \A day \in (LocalDay(zone, now) - 2)..LocalDay(zone, now) :
    ComesOnce(day * DayLength + endMinutes)

SomeDayIsAllowed == days \cap 0..(Week - 1) # {}

(* The answer can be used: it is not past, and at that instant the code    *)
(* itself allows a call, so a dialer that waits for it is not sent away    *)
(* again (scheduling.ts:155).                                              *)
NextStartIsAllowed ==
  StartIsPlain /\ SomeDayIsAllowed =>
    /\ nextAllowedStartUtc(now) >= now
    /\ (startMinutes # endMinutes /\ (midnight = 0 \/ startMinutes >= HourLength)) =>
         isWithinCallingWindowAt(nextAllowedStartUtc(now))

(* No allowed minute is passed over, for windows within one day; except    *)
(* that a runtime that writes 24 after midnight loses the day for whoever  *)
(* asks in that hour, and that a window which clocks set back open again   *)
(* after it ended is left for the next.                                    *)
NextStartIsEarliest ==
  (/\ ~crossesMidnight /\ StartIsPlain /\ EndIsPlain
   /\ TimeMinutes(zone, now) < DayLength) =>
    \A u \in Horizon : u < nextAllowedStartUtc(now) => ~isWithinCallingWindowAt(u)
================================================================================
