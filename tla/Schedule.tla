------------------------------ MODULE Schedule ------------------------------
(***************************************************************************)
(* The weekly on/off schedule of a camera (pkg/config/schedule) and the    *)
(* clock it is asked about.  The program stamps the entries of the week    *)
(* with dates once, from the day it starts on (TODAY); the monitor asks    *)
(* IsOn at every tick for as long as the program runs.                     *)
(*                                                                         *)
(* An instant counts ticks.  The entries are times of day in UTC           *)
(* (time.Parse without a zone), and a comparison compares instants; but    *)
(* the date of TODAY, and the weekday, are those of the local zone.        *)
(***************************************************************************)
EXTENDS Integers

CONSTANTS
    WeekLen,    \* days in a week (7 in schedule.go)
    DayLen,     \* ticks in a day
    MaxOffset,  \* the farthest a local clock is from UTC, in ticks
    MaxDays     \* model bound: days the clock runs

ASSUME WeekLenAssumption == WeekLen \in Nat \ {0}
ASSUME DayLenAssumption  == DayLen \in Nat \ {0}
ASSUME MaxOffsetAssumption == MaxOffset \in 0..DayLen
ASSUME MaxDaysAssumption == MaxDays \in Nat \ {0}

None == -1                 \* a nil entry: no time of day is negative
Tod  == 0..(DayLen - 1)
Weekday == 0..(WeekLen - 1)
OnOffTimes == [on : Tod \cup {None}, off : Tod \cup {None}]

VARIABLES
    week,   \* Week: the entries, one record for each weekday
    today,  \* TODAY: the day on which the program was started
    now,    \* the clock, in UTC
    offset  \* what the local zone adds to it
vars == <<week, today, now, offset>>

Day(t) == (t + offset) \div DayLen    \* the local date

(* Week.init: the instant of a weekday's entry, UTC, on the given date. *)
Stamp(entry, day) == IF entry = None THEN None ELSE day * DayLen + entry

-----------------------------------------------------------------------------
(* isTimeOnOrOff: one day's verdict, from instants on and off. *)

OffAtItsInstant(t, off) == t < off                                \* mutant
checkWOffTimeNoOnTime(t, off) == ~(t > off)

OffNeedNotFollowOn(t, on, off) ==                                 \* mutant
    ~(t < on /\ t > off) /\ ~(t > on /\ t > off)
checkWOnTimeAndWOffTime(t, on, off) ==
    ~(t < on /\ t > off) /\ ~(t > on /\ t > off /\ off > on)

isTimeOnOrOff(t, on, off) ==
    CASE off # None /\ on = None -> checkWOffTimeNoOnTime(t, off)
      [] off = None /\ on # None -> TRUE
      [] OTHER                   -> checkWOnTimeAndWOffTime(t, on, off)

IsEmpty(d) == week[d % WeekLen].on = None /\ week[d % WeekLen].off = None

(* The days IsOn looks at, latest first: from TODAY back through one week. *)
Looked == {d \in today - (WeekLen - 1)..today : ~IsEmpty(d)}

EarliestDay == CHOOSE d \in Looked : \A e \in Looked : d <= e     \* mutant
DecidingDay == CHOOSE d \in Looked : \A e \in Looked : e <= d

Verdict(t, d) ==
    isTimeOnOrOff(t, Stamp(week[d % WeekLen].on, d), Stamp(week[d % WeekLen].off, d))

IsOn(t) == Looked = {} \/ Verdict(t, DecidingDay)

-----------------------------------------------------------------------------
(* A configured week and a start of the program in the second week. *)
Init ==
    /\ week \in [Weekday -> OnOffTimes]
    /\ today \in WeekLen..(2 * WeekLen - 1)
    /\ offset \in (-MaxOffset)..MaxOffset
    /\ now \in (today * DayLen - offset)..(today * DayLen - offset + DayLen - 1)

Tick ==
    /\ now < (2 * WeekLen + MaxDays) * DayLen
    /\ now' = now + 1
    /\ UNCHANGED <<week, today, offset>>

(* The process is started anew: only then is TODAY set. *)
Restart ==
    /\ today # Day(now)
    /\ today' = Day(now)
    /\ UNCHANGED <<week, now, offset>>

Next == Tick \/ Restart
Spec == Init /\ [][Next]_vars

-----------------------------------------------------------------------------
(* What the schedule means, with its entries read in UTC: the last switch  *)
(* that has passed decides.  An Off takes effect just after its instant,   *)
(* an On at its instant.                                                   *)

SwitchesOn(t, days)  == {n \in {Stamp(week[d % WeekLen].on, d) : d \in days} \ {None} : n <= t}
SwitchesOff(t, days) == {n \in {Stamp(week[d % WeekLen].off, d) : d \in days} \ {None} : n < t}

LastSwitchIsOn(t, days) ==
    \A off \in SwitchesOff(t, days) : \E on \in SwitchesOn(t, days) : off <= on

TypeOK ==
    /\ week \in [Weekday -> OnOffTimes]
    /\ today \in Nat /\ now \in Nat /\ offset \in (-MaxOffset)..MaxOffset
    /\ today <= Day(now)

(***************************************************************************)
(* IsOn is exactly the last-switch rule applied to the entries of a single *)
(* day: the latest one with entries, counted from TODAY.                   *)
(***************************************************************************)
DecidingDayRules ==
    IsOn(now) = (Looked = {} \/ LastSwitchIsOn(now, {DecidingDay}))

(***************************************************************************)
(* On the day the program was started, once an entry of that day has       *)
(* passed, the camera is on exactly when the week's schedule says so,      *)
(* however far the local date is from the date of the entries' zone.       *)
(***************************************************************************)
FollowedOnFirstDay ==
    /\ Day(now) = today
    /\ SwitchesOn(now, {today}) \cup SwitchesOff(now, {today}) # {}
    => IsOn(now) = LastSwitchIsOn(now, (today - (WeekLen - 1))..today)

(***************************************************************************)
(* While the program runs, IsOn changes its answer only when the clock     *)
(* passes an entry of the deciding day, at most twice: the monitor never   *)
(* announces a switch nobody configured.                                   *)
(***************************************************************************)
SwitchesOnlyAtEntries ==
    [][ (today' = today /\ IsOn(now)' # IsOn(now)) =>
            \/ Stamp(week[DecidingDay % WeekLen].on, DecidingDay) = now'
            \/ Stamp(week[DecidingDay % WeekLen].off, DecidingDay) = now ]_vars

(***************************************************************************)
(* schedule.go:176: IsOn returns whether the given time is within an on    *)
(* period of the schedule.  Read for the days after the start.             *)
(***************************************************************************)
FollowedAfterMidnight ==
    Day(now) > today
        => (SwitchesOn(now, {Day(now)}) \cup SwitchesOff(now, {Day(now)}) # {}
               => IsOn(now) = LastSwitchIsOn(now, (Day(now) - (WeekLen - 1))..Day(now)))
=============================================================================
