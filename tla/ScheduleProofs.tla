--------------------------- MODULE ScheduleProofs ---------------------------
(***************************************************************************)
(* What the schedule answers, for every week, week length and day length.  *)
(***************************************************************************)
EXTENDS Schedule, WellFoundedInduction, TLAPS

(* Every date has an entry, and its stamps lie within that date. *)
LEMMA EntryType ==
  ASSUME week \in [Weekday -> OnOffTimes], NEW d \in Nat
  PROVE  /\ week[d % WeekLen].on \in Tod \cup {None}
         /\ week[d % WeekLen].off \in Tod \cup {None}
<1>1. d % WeekLen \in Weekday
  BY WeekLenAssumption DEF Weekday
<1> QED
  BY <1>1 DEF OnOffTimes

LEMMA StampWithinDay ==
  ASSUME NEW d \in Nat, NEW e \in Tod
  PROVE  /\ Stamp(e, d) = d * DayLen + e
         /\ d * DayLen \in Nat
         /\ Stamp(e, d) \in Nat /\ d * DayLen <= Stamp(e, d) /\ Stamp(e, d) < d * DayLen + DayLen
<1>1. d * DayLen \in Nat
  BY DayLenAssumption
<1> QED
  BY <1>1, DayLenAssumption DEF Stamp, Tod, None

LEMMA StampNone == ASSUME NEW d PROVE Stamp(None, d) = None
  BY DEF Stamp

(***************************************************************************)
(* isTimeOnOrOff is the last-switch rule for the entries of one day.       *)
(***************************************************************************)
THEOREM DayVerdict ==
  ASSUME week \in [Weekday -> OnOffTimes], NEW d \in Nat, NEW t \in Nat
  PROVE  Verdict(t, d) <=> LastSwitchIsOn(t, {d})
<1> DEFINE on  == Stamp(week[d % WeekLen].on, d)
           off == Stamp(week[d % WeekLen].off, d)
<1>1. on \in Nat \cup {None} /\ off \in Nat \cup {None}
  BY EntryType, StampWithinDay, StampNone
<1>2. SwitchesOn(t, {d}) = {n \in {on} \ {None} : n <= t}
  BY DEF SwitchesOn
<1>3. SwitchesOff(t, {d}) = {n \in {off} \ {None} : n < t}
  BY DEF SwitchesOff
<1>4. LastSwitchIsOn(t, {d}) <=>
         (off # None /\ off < t => on # None /\ on <= t /\ off <= on)
  BY <1>2, <1>3 DEF LastSwitchIsOn
<1>5. Verdict(t, d) <=> isTimeOnOrOff(t, on, off)
  BY DEF Verdict
<1> HIDE DEF on, off
<1>6. isTimeOnOrOff(t, on, off) <=>
         (off # None /\ off < t => on # None /\ on <= t /\ off <= on)
  BY <1>1 DEF isTimeOnOrOff, checkWOffTimeNoOnTime, checkWOnTimeAndWOffTime, None
<1> QED
  BY <1>4, <1>5, <1>6

(* Stamps of an earlier date come before those of a later one. *)
LEMMA EarlierDay ==
  ASSUME NEW d \in Nat, NEW e \in Nat, d < e
  PROVE  d * DayLen + DayLen <= e * DayLen
<1>1. PICK k \in Nat : e = d + 1 + k
  <2>1. e - d - 1 \in Nat /\ e = d + 1 + (e - d - 1)
    OBVIOUS
  <2> QED
    BY <2>1
<1>2. e * DayLen = d * DayLen + DayLen + k * DayLen
  BY <1>1, DayLenAssumption
<1>3. k * DayLen \in Nat /\ d * DayLen \in Nat
  BY DayLenAssumption
<1> QED
  BY <1>2, <1>3, DayLenAssumption

(* The clock and TODAY keep their types, and TODAY is never in the future;  *)
(* the local clock is past the first week.                                  *)
TypeInv == TypeOK /\ WeekLen <= today /\ now + offset \in Nat

(* What a local date is. *)
LEMMA DayBounds ==
  ASSUME NEW t, t + offset \in Nat
  PROVE  Day(t) \in Nat /\ Day(t) * DayLen <= t + offset /\ t + offset < Day(t) * DayLen + DayLen
<1> DEFINE n == t + offset
<1>1. n \in Nat
  OBVIOUS
<1> HIDE DEF n
<1>2. (n \div DayLen) \in Nat /\ (n \div DayLen) * DayLen <= n
                              /\ n < (n \div DayLen) * DayLen + DayLen
  BY <1>1, DayLenAssumption
<1> QED
  BY <1>2 DEF Day, n

(* A date that has begun is not after the current one. *)
LEMMA BegunDay ==
  ASSUME NEW t, t + offset \in Nat, NEW d \in Nat, d * DayLen <= t + offset
  PROVE  d <= Day(t)
<1> SUFFICES ASSUME Day(t) < d PROVE FALSE
  BY DayBounds
<1>1. Day(t) * DayLen + DayLen <= d * DayLen
  BY DayBounds, EarlierDay
<1>2. t + offset < Day(t) * DayLen + DayLen /\ Day(t) * DayLen \in Nat /\ d * DayLen \in Nat
  BY DayBounds, DayLenAssumption
<1> QED
  BY <1>1, <1>2, DayLenAssumption

(* TypeInv holds throughout. *)
LEMMA TypeCorrect == Spec => []TypeInv
<1>1. Init => TypeInv
  <2> SUFFICES ASSUME Init PROVE TypeInv
    OBVIOUS
  <2>1. today \in Nat /\ 1 <= today /\ WeekLen <= today /\ offset \in (-MaxOffset)..MaxOffset
    BY WeekLenAssumption DEF Init
  <2>2. today * DayLen \in Nat /\ DayLen <= today * DayLen
    <3>1. CASE today = 1
      BY <3>1, DayLenAssumption
    <3>2. CASE 1 < today
      <4>1. 1 * DayLen + DayLen <= today * DayLen
        BY <2>1, <3>2, EarlierDay
      <4>2. today * DayLen \in Nat
        BY <2>1, DayLenAssumption
      <4> QED
        BY <4>1, <4>2, DayLenAssumption
    <3> QED
      BY <2>1, <3>1, <3>2
  <2>3. now \in Nat /\ now + offset \in Nat /\ today * DayLen <= now + offset
    <3> DEFINE begin == today * DayLen
    <3>1. begin \in Nat /\ DayLen <= begin
      BY <2>2
    <3>2. now \in (begin - offset)..(begin - offset + DayLen - 1)
      BY DEF Init
    <3> HIDE DEF begin
    <3>3. now \in Nat /\ now + offset \in Nat /\ begin <= now + offset
      BY <2>1, <3>1, <3>2, DayLenAssumption, MaxOffsetAssumption
    <3> QED
      BY <3>3 DEF begin
  <2>4. today <= Day(now)
    BY <2>1, <2>3, BegunDay
  <2> QED
    BY <2>1, <2>3, <2>4 DEF Init, TypeInv, TypeOK
<1>2. TypeInv /\ [Next]_vars => TypeInv'
  <2> SUFFICES ASSUME TypeInv, [Next]_vars PROVE TypeInv'
    OBVIOUS
  <2> USE DEF TypeInv, TypeOK
  <2>1. CASE Tick
    <3>1. now + offset \in Nat /\ now + 1 + offset \in Nat
      BY MaxOffsetAssumption, DayLenAssumption
    <3>2. today <= Day(now + 1)
      <4>1. Day(now) * DayLen <= now + offset /\ Day(now) \in Nat
        BY <3>1, DayBounds
      <4>2. Day(now) <= Day(now + 1)
        <5>1. Day(now) * DayLen \in Nat
          BY <4>1, DayLenAssumption
        <5>2. Day(now) * DayLen <= now + 1 + offset
          BY <3>1, <4>1, <5>1, MaxOffsetAssumption, DayLenAssumption
        <5> QED
          BY <3>1, <4>1, <5>2, BegunDay
      <4>3. Day(now + 1) \in Nat
        BY <3>1, DayBounds
      <4> QED
        BY <4>1, <4>2, <4>3
    <3> QED
      BY <2>1, <3>1, <3>2 DEF Tick, Day
  <2>2. CASE Restart
    <3>1. Day(now) \in Nat /\ WeekLen <= Day(now)
      BY DayBounds, WeekLenAssumption
    <3>2. UNCHANGED <<week, now, offset>> /\ today' = Day(now)
      BY <2>2 DEF Restart
    <3> QED
      BY <3>1, <3>2 DEF Day
  <2>3. CASE UNCHANGED vars
    BY <2>3 DEF vars, Day
  <2> QED
    BY <2>1, <2>2, <2>3 DEF Next
<1> QED
  BY <1>1, <1>2, PTL DEF Spec

(* Of a set of naturals one is the least. *)
LEMMA Least ==
  ASSUME NEW S \in SUBSET Nat, S # {}
  PROVE  \E m \in S : \A n \in S : m <= n
<1> DEFINE lt == OpToRel(<, Nat)
<1>1. IsWellFoundedOn(lt, Nat)
  BY NatLessThanWellFounded
<1>2. \A m, n \in Nat : <<m, n>> \in lt <=> m < n
  BY DEF OpToRel
<1> HIDE DEF lt
<1>3. PICK m \in S : \A n \in S : ~(<<n, m>> \in lt)
  BY <1>1, WFMin
<1>4. ASSUME NEW n \in S PROVE m <= n
  <2>1. m \in Nat /\ n \in Nat /\ ~(n < m)
    BY <1>2, <1>3
  <2> QED
    BY <2>1
<1> QED
  BY <1>4

(* The deciding day is the latest of the days with entries. *)
LEMMA DecidingDayIs ==
  ASSUME TypeInv, Looked # {}
  PROVE  DecidingDay \in Looked /\ DecidingDay \in Nat
<1> USE WeekLenAssumption DEF TypeInv, TypeOK
<1>1. Looked \subseteq Nat /\ \A d \in Looked : d <= today
  BY DEF Looked
<1> DEFINE ago == {today - d : d \in Looked}
<1>2. PICK m \in ago : \A n \in ago : m <= n
  <2>1. ASSUME NEW d \in Looked PROVE today - d \in Nat
    BY <1>1
  <2>2. ago \in SUBSET Nat
    BY <2>1
  <2>3. ago # {}
    OBVIOUS
  <2> HIDE DEF ago
  <2> QED
    BY <2>2, <2>3, Least
<1>3. PICK d \in Looked : m = today - d
  BY <1>2
<1>4. ASSUME NEW e \in Looked PROVE e <= d
  <2>1. today - d <= today - e
    BY <1>2, <1>3
  <2>2. today \in Nat /\ d \in Nat /\ e \in Nat
    BY <1>1
  <2> QED
    BY <2>1, <2>2
<1>5. DecidingDay \in Looked
  BY <1>3, <1>4 DEF DecidingDay
<1> QED
  BY <1>1, <1>5

(***************************************************************************)
(* The answer is the last-switch rule over the deciding day alone.         *)
(***************************************************************************)
THEOREM DayDecides == Spec => []DecidingDayRules
<1>1. TypeInv => DecidingDayRules
  <2> SUFFICES ASSUME TypeInv PROVE DecidingDayRules
    OBVIOUS
  <2>1. CASE Looked = {}
    BY <2>1, Zenon DEF DecidingDayRules, IsOn
  <2>2. CASE Looked # {}
    <3>1. Verdict(now, DecidingDay) <=> LastSwitchIsOn(now, {DecidingDay})
      BY <2>2, DecidingDayIs, DayVerdict DEF TypeInv, TypeOK
    <3> QED
      BY <2>2, <3>1 DEF DecidingDayRules, IsOn, LastSwitchIsOn
  <2> QED
    BY <2>1, <2>2
<1> QED
  BY <1>1, TypeCorrect, PTL

(***************************************************************************)
(* While the program runs, the answer changes only as the clock reaches    *)
(* the deciding day's On or leaves its Off behind.                         *)
(***************************************************************************)
THEOREM ChangesAtEntries == Spec => SwitchesOnlyAtEntries
<1> DEFINE on  == Stamp(week[DecidingDay % WeekLen].on, DecidingDay)
           off == Stamp(week[DecidingDay % WeekLen].off, DecidingDay)
<1>1. TypeInv /\ [Next]_vars =>
        [(today' = today /\ IsOn(now)' # IsOn(now)) => on = now' \/ off = now]_vars
  <2> SUFFICES ASSUME TypeInv, Next, today' = today, IsOn(now)' # IsOn(now)
               PROVE  on = now' \/ off = now
    OBVIOUS
  <2> USE DEF TypeInv, TypeOK
  <2>1. now' = now + 1 /\ week' = week
    BY DEF Next, Tick, Restart
  <2>2. Looked' = Looked
    BY <2>1 DEF Looked, IsEmpty
  <2>3. DecidingDay' = DecidingDay
    BY <2>2 DEF DecidingDay
  <2>4. Looked # {} /\ Verdict(now, DecidingDay)' # Verdict(now, DecidingDay)
    BY <2>2, Zenon DEF IsOn
  <2>5. on \in Nat \cup {None} /\ off \in Nat \cup {None}
    BY <2>4, DecidingDayIs, EntryType, StampWithinDay, StampNone
  <2>6. /\ Verdict(now, DecidingDay) = isTimeOnOrOff(now, on, off)
        /\ Verdict(now, DecidingDay)' = isTimeOnOrOff(now', on, off)
    BY <2>1, <2>3 DEF Verdict
  <2> HIDE DEF on, off
  <2>7. ~(isTimeOnOrOff(now, on, off) <=> isTimeOnOrOff(now + 1, on, off))
    <3>1. \A t : isTimeOnOrOff(t, on, off) \in BOOLEAN
      BY DEF isTimeOnOrOff, checkWOffTimeNoOnTime, checkWOnTimeAndWOffTime
    <3> QED
      BY <2>1, <2>4, <2>6, <3>1, Zenon
  <2> QED
    BY <2>1, <2>5, <2>7
       DEF isTimeOnOrOff, checkWOffTimeNoOnTime, checkWOnTimeAndWOffTime, None
<1> QED
  BY <1>1, TypeCorrect, PTL DEF Spec, SwitchesOnlyAtEntries

(***************************************************************************)
(* On the day of the start, once an entry of that day has passed, IsOn is  *)
(* what the whole week's schedule says: no entry of an earlier day can     *)
(* make a difference any more.                                             *)
(***************************************************************************)
THEOREM FirstDay == Spec => []FollowedOnFirstDay
<1>1. TypeInv => FollowedOnFirstDay
  <2> SUFFICES ASSUME TypeInv, SwitchesOn(now, {today}) \cup SwitchesOff(now, {today}) # {}
               PROVE  IsOn(now) <=> LastSwitchIsOn(now, (today - (WeekLen - 1))..today)
    BY DEF FollowedOnFirstDay, IsOn, LastSwitchIsOn
  <2> DEFINE days == (today - (WeekLen - 1))..today
  <2> USE WeekLenAssumption DEF TypeInv, TypeOK
  <2>1. today \in days /\ days \subseteq Nat
    OBVIOUS
  <2>2. ~IsEmpty(today)
    BY DEF IsEmpty, SwitchesOn, SwitchesOff, Stamp
  <2>3. today \in Looked /\ \A e \in Looked : e <= today
    BY <2>1, <2>2 DEF Looked
  <2>4. DecidingDay = today
    BY <2>1, <2>3 DEF DecidingDay, Looked
  <2>5. IsOn(now) <=> LastSwitchIsOn(now, {today})
    BY <2>3, <2>4, DayVerdict DEF IsOn
  <2>6. ASSUME NEW d \in days, d # today,
               NEW o \in SwitchesOn(now, {d}) \cup SwitchesOff(now, {d}),
               NEW n \in SwitchesOn(now, {today}) \cup SwitchesOff(now, {today})
        PROVE  o \in Nat /\ n \in Nat /\ o < n
    <3>a. d \in Nat /\ today \in Nat
      BY <2>1
    <3>b. PICK e \in Tod : o = Stamp(e, d)
      BY <3>a, EntryType, StampNone DEF SwitchesOff, SwitchesOn
    <3>1. o \in Nat /\ o < d * DayLen + DayLen
      BY <3>a, <3>b, StampWithinDay
    <3>2. d * DayLen + DayLen <= today * DayLen
      BY <2>1, <2>6, EarlierDay
    <3>3. today * DayLen <= n /\ n \in Nat
      BY <2>1, EntryType, StampWithinDay, StampNone DEF SwitchesOff, SwitchesOn
    <3>4. d * DayLen \in Nat /\ today * DayLen \in Nat
      BY <2>1, DayLenAssumption
    <3> QED
      BY <3>1, <3>2, <3>3, <3>4, DayLenAssumption
  <2>7. /\ \A x \in SwitchesOn(now, days) : \E d \in days : x \in SwitchesOn(now, {d})
        /\ \A x \in SwitchesOff(now, days) : \E d \in days : x \in SwitchesOff(now, {d})
        /\ SwitchesOn(now, {today}) \subseteq SwitchesOn(now, days)
        /\ SwitchesOff(now, {today}) \subseteq SwitchesOff(now, days)
    BY <2>1 DEF SwitchesOn, SwitchesOff
  <2>8. ASSUME LastSwitchIsOn(now, days) PROVE LastSwitchIsOn(now, {today})
    <3> SUFFICES ASSUME NEW off \in SwitchesOff(now, {today})
                 PROVE  \E on \in SwitchesOn(now, {today}) : off <= on
      BY DEF LastSwitchIsOn
    <3>1. PICK on \in SwitchesOn(now, days) : off <= on
      BY <2>7, <2>8 DEF LastSwitchIsOn
    <3>2. PICK d \in days : on \in SwitchesOn(now, {d})
      BY <2>7
    <3>3. d = today
      <4> SUFFICES ASSUME d # today PROVE FALSE
        OBVIOUS
      <4>1. on \in Nat /\ off \in Nat /\ on < off
        BY <2>6, <3>2
      <4> QED
        BY <3>1, <4>1
    <3> QED
      BY <3>1, <3>2, <3>3
  <2>9. ASSUME LastSwitchIsOn(now, {today}) PROVE LastSwitchIsOn(now, days)
    <3> SUFFICES ASSUME NEW off \in SwitchesOff(now, days)
                 PROVE  \E on \in SwitchesOn(now, days) : off <= on
      BY DEF LastSwitchIsOn
    <3>1. PICK d \in days : off \in SwitchesOff(now, {d})
      BY <2>7
    <3>2. CASE d = today
      BY <2>7, <2>9, <3>1, <3>2 DEF LastSwitchIsOn
    <3>3. CASE d # today
      <4>1. PICK n \in SwitchesOn(now, {today}) \cup SwitchesOff(now, {today}) : TRUE
        OBVIOUS
      <4>2. off < n /\ off \in Nat /\ n \in Nat
        BY <2>6, <3>1, <3>3
      <4>3. CASE n \in SwitchesOn(now, {today})
        <5>1. off <= n
          BY <4>2
        <5> QED
          BY <2>7, <4>3, <5>1
      <4>4. CASE n \in SwitchesOff(now, {today})
        <5>1. PICK on \in SwitchesOn(now, {today}) : n <= on
          BY <2>9, <4>4 DEF LastSwitchIsOn
        <5>2. on \in Nat
          BY <2>6, <3>1, <3>3, <5>1
        <5>3. off <= on
          BY <4>2, <5>1, <5>2
        <5> QED
          BY <2>7, <5>1, <5>3
      <4> QED
        BY <4>1, <4>3, <4>4
    <3> QED
      BY <3>2, <3>3
  <2> QED
    BY <2>5, <2>8, <2>9
<1> QED
  BY <1>1, TypeCorrect, PTL
=============================================================================
