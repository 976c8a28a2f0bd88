---------------------------- MODULE FormatsProofs ---------------------------
(***************************************************************************)
(* The pure functions of the program, for every input: the dates of every  *)
(* year, frames of every length, texts of every length.                    *)
(***************************************************************************)
EXTENDS Formats, FiniteSetTheorems, WellFoundedInduction, TLAPS

-----------------------------------------------------------------------------
(* Induction over the natural numbers, and what a loop computes.           *)

LEMMA Induction ==
  ASSUME NEW S, 0 \in S, \A k \in Nat : k \in S => k + 1 \in S
  PROVE  \A k \in Nat : k \in S
<1> DEFINE I == Nat \ S
<1>1. SUFFICES ASSUME I # {} PROVE FALSE
  OBVIOUS
<1>2. PICK k \in I : \A j \in I : <<j, k>> \notin OpToRel(<, Nat)
  BY <1>1, NatLessThanWellFounded, WFMin, Zenon
<1>3. k \in Nat /\ k # 0
  OBVIOUS
<1>4. k - 1 \in Nat /\ <<k - 1, k>> \in OpToRel(<, Nat)
  BY <1>3 DEF OpToRel
<1>5. k - 1 \in S
  BY <1>2, <1>4
<1>6. (k - 1) + 1 \in S
  BY <1>4, <1>5
<1> QED BY <1>3, <1>6

\* g holds the values of a loop of n rounds that starts with d.
Runs(g, n, d, step) == g[0] = d /\ \A k \in 0..(n - 1) : g[k + 1] = step[<<k, g[k]>>]

LEMMA RunExists ==
  ASSUME NEW n \in Nat, NEW D, NEW d \in D, NEW step \in [(0..(n - 1)) \X D -> D]
  PROVE  \E g \in [0..n -> D] : Runs(g, n, d, step)
<1> DEFINE S == {m \in Nat : m <= n => \E g \in [0..m -> D] : Runs(g, m, d, step)}
<1>1. 0 \in S
  <2> DEFINE g == [k \in 0..0 |-> d]
  <2>1. g \in [0..0 -> D] /\ Runs(g, 0, d, step)
    BY DEF Runs
  <2> HIDE DEF g
  <2> QED BY <2>1
<1>2. ASSUME NEW m \in Nat, m \in S PROVE m + 1 \in S
  <2>1. SUFFICES ASSUME m + 1 <= n
                 PROVE  \E h \in [0..(m + 1) -> D] : Runs(h, m + 1, d, step)
    OBVIOUS
  <2>2. m <= n
    BY <2>1
  <2>3. PICK g \in [0..m -> D] : Runs(g, m, d, step)
    BY <1>2, <2>2
  <2> DEFINE h == [k \in 0..(m + 1) |-> IF k = m + 1 THEN step[<<m, g[m]>>] ELSE g[k]]
  <2>4. m \in 0..(n - 1) /\ g[m] \in D
    BY <2>1
  <2>5. step[<<m, g[m]>>] \in D
    BY <2>4
  <2>6. h \in [0..(m + 1) -> D]
    BY <2>5
  <2>7. \A k \in 0..m : h[k] = g[k]
    OBVIOUS
  <2>8. h[m + 1] = step[<<m, g[m]>>]
    OBVIOUS
  <2> HIDE DEF h
  <2>9. h[0] = d
    BY <2>3, <2>7 DEF Runs
  <2>10. ASSUME NEW k \in 0..m PROVE h[k + 1] = step[<<k, h[k]>>]
    <3>1. CASE k = m
      BY <2>7, <2>8, <3>1
    <3>2. CASE k # m
      <4>1. k \in 0..(m - 1) /\ k + 1 \in 0..m
        BY <3>2
      <4>2. g[k + 1] = step[<<k, g[k]>>]
        BY <2>3, <4>1 DEF Runs
      <4> QED BY <2>7, <4>1, <4>2
    <3> QED BY <3>1, <3>2
  <2>11. Runs(h, m + 1, d, step)
    <3>1. 0..((m + 1) - 1) = 0..m
      OBVIOUS
    <3> QED BY <2>9, <2>10, <3>1 DEF Runs
  <2> QED BY <2>6, <2>11
<1> HIDE DEF S
<1>3. n \in S
  BY <1>1, <1>2, Induction
<1> QED BY <1>3 DEF S

\* The loop as a recursive function.
Loops(g, n, d, step) ==
  g = [i \in 0..n |-> IF i = 0 THEN d ELSE step[<<i - 1, g[i - 1]>>]]

LEMMA LoopExists ==
  ASSUME NEW n \in Nat, NEW D, NEW d \in D, NEW step \in [(0..(n - 1)) \X D -> D]
  PROVE  \E g \in [0..n -> D] : Loops(g, n, d, step)
<1>1. PICK g \in [0..n -> D] : Runs(g, n, d, step)
  BY RunExists
<1>2. ASSUME NEW i \in 0..n
      PROVE  g[i] = IF i = 0 THEN d ELSE step[<<i - 1, g[i - 1]>>]
  <2>1. CASE i = 0
    BY <1>1, <2>1 DEF Runs
  <2>2. CASE i # 0
    <3>1. i - 1 \in 0..(n - 1) /\ (i - 1) + 1 = i
      BY <2>2
    <3> QED BY <1>1, <2>2, <3>1 DEF Runs
  <2> QED BY <2>1, <2>2
<1>3. g = [i \in 0..n |-> g[i]]
  OBVIOUS
<1>4. Loops(g, n, d, step)
  BY <1>2, <1>3 DEF Loops
<1> QED BY <1>4

-----------------------------------------------------------------------------
(* Dates.                                                                  *)

\* The number of a day with every division rounded down, as the calendar repeats
\* over the years in both directions.
FlooredDays(y, m, d) ==
  LET year == IF m <= 2 THEN y - 1 ELSE y
      era == year \div 400
      yoe == year - era * 400
      doy == (153 * (IF m > 2 THEN m - 3 ELSE m + 9) + 2) \div 5 + d - 1
      doe == yoe * 365 + yoe \div 4 - yoe \div 100 + doy
  IN  era * 146097 + doe - 719468

\* The code's divisions cut towards zero, which is the same from the year 1 on.
LEMMA DaysFloored ==
  ASSUME NEW y \in Int, y >= 1, NEW m \in Int, NEW d \in Int
  PROVE  days_from_civil(y, m, d) = FlooredDays(y, m, d)
<1> DEFINE year == IF m <= 2 THEN y - 1 ELSE y
           yoe == year - (year \div 400) * 400
<1>1. year \in Nat /\ Cut(year, 400) = year \div 400 BY DEF Cut
<1>2. yoe \in Nat BY <1>1
<1>3. Cut(yoe, 4) = yoe \div 4 /\ Cut(yoe, 100) = yoe \div 100 BY <1>2 DEF Cut
<1> HIDE DEF yoe
<1>4. yoe = year - Cut(year, 400) * 400 BY <1>1 DEF yoe
<1> QED BY <1>1, <1>3, <1>4 DEF days_from_civil, FlooredDays, yoe

\* Within a month the number grows with the day.
LEMMA WithinMonth ==
  ASSUME NEW y \in Int, NEW m \in 1..12, NEW d \in Int
  PROVE  FlooredDays(y, m, d + 1) = FlooredDays(y, m, d) + 1
BY DEF FlooredDays

\* The first of a month follows the last of the month before, except where
\* the year of the algorithm begins.
LEMMA MonthAfter ==
  ASSUME NEW y \in Int, NEW m \in (1..11) \ {2}
  PROVE  FlooredDays(y, m + 1, 1) = FlooredDays(y, m, DaysIn(y, m)) + 1
<1>1. CASE m = 1 BY <1>1 DEF FlooredDays, DaysIn
<1>2. CASE m \in {3, 4, 5} BY <1>2 DEF FlooredDays, DaysIn
<1>3. CASE m \in {6, 7, 8} BY <1>3 DEF FlooredDays, DaysIn
<1>4. CASE m \in {9, 10, 11} BY <1>4 DEF FlooredDays, DaysIn
<1> QED BY <1>1, <1>2, <1>3, <1>4

LEMMA YearAfter ==
  ASSUME NEW y \in Int
  PROVE  FlooredDays(y + 1, 1, 1) = FlooredDays(y, 12, 31) + 1
BY DEF FlooredDays

\* One more year of an era of 400 years: a day is added by every fourth year
\* and taken away by every hundredth.
LEMMA NextYearOfEra ==
  ASSUME NEW yoe \in 0..398
  PROVE  LET next == yoe + 1
         IN  next * 365 + next \div 4 - next \div 100
               = yoe * 365 + yoe \div 4 - yoe \div 100
                   + (IF next % 4 = 0 /\ next % 100 # 0 THEN 366 ELSE 365)
OBVIOUS

\* The remainders that make a leap year are those of the year of the era.
LEMMA LeapInEra ==
  ASSUME NEW era \in Int, NEW yoe \in 0..398
  PROVE  IsLeap(400 * era + (yoe + 1)) <=> (yoe + 1) % 4 = 0 /\ (yoe + 1) % 100 # 0
<1> DEFINE next == yoe + 1
<1>1. (400 * era + next) % 4 = next % 4 OBVIOUS
<1>2. (400 * era + next) % 100 = next % 100 OBVIOUS
<1>3. (400 * era + next) % 400 = next OBVIOUS
<1>4. next # 0 OBVIOUS
<1> HIDE DEF next
<1>5. IsLeap(400 * era + next) <=> next % 4 = 0 /\ next % 100 # 0
  BY <1>1, <1>2, <1>3, <1>4 DEF IsLeap
<1> QED BY <1>5 DEF next

\* The first of March follows the last day of February, in the middle of an
\* era and where one ends.
LEMMA FirstOfMarch ==
  ASSUME NEW y \in Int
  PROVE  FlooredDays(y, 3, 1) = FlooredDays(y, 2, DaysIn(y, 2)) + 1
<1> DEFINE era == (y - 1) \div 400
           yoe == (y - 1) - era * 400
<1>1. era \in Int /\ yoe \in 0..399 /\ y = 400 * era + (yoe + 1) OBVIOUS
<1>2. FlooredDays(y, 2, DaysIn(y, 2))
        = era * 146097 + yoe * 365 + yoe \div 4 - yoe \div 100 + 336 + DaysIn(y, 2) - 719468
  BY DEF FlooredDays, DaysIn
<1>3. CASE yoe # 399
  <2>1. y \div 400 = era /\ y - (y \div 400) * 400 = yoe + 1 BY <1>1, <1>3
  <2>2. FlooredDays(y, 3, 1)
          = era * 146097 + (yoe + 1) * 365 + (yoe + 1) \div 4 - (yoe + 1) \div 100 - 719468
    BY <2>1 DEF FlooredDays
  <2>3. yoe \in 0..398 /\ yoe + 1 \in 1..399 BY <1>1, <1>3
  <2>4. IsLeap(y) <=> (yoe + 1) % 4 = 0 /\ (yoe + 1) % 100 # 0
    <3> HIDE DEF era, yoe
    <3>1. era \in Int BY <1>1
    <3>2. yoe \in 0..398 BY <2>3
    <3>3. IsLeap(400 * era + (yoe + 1)) <=> (yoe + 1) % 4 = 0 /\ (yoe + 1) % 100 # 0
      BY <3>1, <3>2, LeapInEra, Zenon
    <3>4. y = 400 * era + (yoe + 1) BY <1>1
    <3> QED BY <3>3, <3>4, Zenon
  <2> HIDE DEF era, yoe
  <2> QED BY <1>1, <1>2, <2>2, <2>3, <2>4, NextYearOfEra DEF DaysIn
<1>4. CASE yoe = 399
  <2>1. y = 400 * (era + 1) BY <1>1, <1>4
  <2>2. y \div 400 = era + 1 /\ y - (y \div 400) * 400 = 0 BY <1>1, <2>1
  <2>3. IsLeap(y) BY <1>1, <2>1 DEF IsLeap
  <2>4. FlooredDays(y, 3, 1) = (era + 1) * 146097 - 719468
    BY <2>2 DEF FlooredDays
  <2> HIDE DEF era, yoe
  <2> QED BY <1>1, <1>2, <1>4, <2>3, <2>4 DEF DaysIn
<1> QED BY <1>3, <1>4

\* The number parse_http_date computes with grows by one from every day of the
\* calendar to the next, over the ends of months, years and centuries, in every
\* year from 1970 on (HttpDate.cpp:16-24).
THEOREM DaysAreConsecutive ==
  ASSUME NEW y \in Int, NEW m \in Int, NEW d \in Int, IsDate(y, m, d)
  PROVE  OneDayLater(y, m, d)
<1> DEFINE next == NextDay(y, m, d)
<1>1. m \in 1..12 /\ d \in 1..DaysIn(y, m) /\ DaysIn(y, m) \in Int BY DEF IsDate, DaysIn
<1>2. FlooredDays(next[1], next[2], next[3]) = FlooredDays(y, m, d) + 1
  <2>1. CASE d < DaysIn(y, m)
    BY <1>1, <2>1, WithinMonth DEF NextDay
  <2>2. CASE d = DaysIn(y, m) /\ m = 12
    <3>1. d = 31 BY <2>2 DEF DaysIn
    <3> QED BY <1>1, <2>2, <3>1, YearAfter DEF NextDay
  <2>3. CASE d = DaysIn(y, m) /\ m = 2
    BY <1>1, <2>3, FirstOfMarch DEF NextDay
  <2>4. CASE d = DaysIn(y, m) /\ m \in (1..11) \ {2}
    BY <1>1, <2>4, MonthAfter DEF NextDay
  <2> QED BY <1>1, <2>1, <2>2, <2>3, <2>4
<1>3. /\ y \in Int /\ y >= 1 /\ next[1] \in Int /\ next[1] >= 1
      /\ next[2] \in Int /\ next[3] \in Int
  BY <1>1 DEF IsDate, NextDay
<1>4. days_from_civil(y, m, d) = FlooredDays(y, m, d) BY <1>3, DaysFloored
<1>5. days_from_civil(next[1], next[2], next[3]) = FlooredDays(next[1], next[2], next[3])
  <2> HIDE DEF next
  <2> QED BY <1>3, DaysFloored
<1> QED BY <1>2, <1>4, <1>5 DEF OneDayLater

\* From a second of the calendar to the next.
LEMMA SecondsAreConsecutive ==
  ASSUME NEW date \in [fields : 0..7, year : Int, month : 0..12, day : Int,
                       hour : Int, min : Int, sec : Int],
         IsTime(date)
  PROVE  parse_http_date(OneSecondAfter(date)) = Tick(parse_http_date(date))
<1> DEFINE y == date.year
           m == date.month
           d == date.day
           next == NextDay(y, m, d)
           after == OneSecondAfter(date)
           seconds == date.hour * 3600 + date.min * 60 + date.sec
<1>1. /\ y \in Int /\ m \in 1..12 /\ d \in 1..31 /\ IsDate(y, m, d)
      /\ date.hour \in 0..23 /\ date.min \in 0..59 /\ date.sec \in 0..59 /\ date.fields = 7
  BY DEF IsTime, IsDate, DaysIn
<1>2. parse_http_date(date) = <<days_from_civil(y, m, d), seconds>>
  <2>1. FieldsAccepted(date)
    BY <1>1 DEF FieldsAccepted
  <2> QED BY <2>1 DEF parse_http_date
<1>3. seconds = 86399 <=> date.hour = 23 /\ date.min = 59 /\ date.sec = 59
  BY <1>1
<1>4. CASE ~(date.hour = 23 /\ date.min = 59 /\ date.sec = 59)
  <2>1. /\ after.fields = 7 /\ after.year = y /\ after.month = m /\ after.day = d
        /\ after.hour \in 0..23 /\ after.min \in 0..59 /\ after.sec \in 0..59
        /\ after.hour * 3600 + after.min * 60 + after.sec = seconds + 1
    <3>1. CASE date.sec < 59
      <4>1. after = [date EXCEPT !.sec = @ + 1]
        BY <1>1, <3>1 DEF OneSecondAfter
      <4> HIDE DEF after
      <4> QED BY <1>1, <3>1, <4>1
    <3>2. CASE date.sec = 59 /\ date.min < 59
      <4>1. after = [date EXCEPT !.min = @ + 1, !.sec = 0]
        BY <1>1, <3>2 DEF OneSecondAfter
      <4> HIDE DEF after
      <4> QED BY <1>1, <3>2, <4>1
    <3>3. CASE date.sec = 59 /\ date.min = 59 /\ date.hour < 23
      <4>1. after = [date EXCEPT !.hour = @ + 1, !.min = 0, !.sec = 0]
        BY <1>1, <3>3 DEF OneSecondAfter
      <4> HIDE DEF after
      <4> QED BY <1>1, <3>3, <4>1
    <3> QED BY <1>1, <1>4, <3>1, <3>2, <3>3
  <2> HIDE DEF after, seconds
  <2>2. FieldsAccepted(after)
    BY <1>1, <2>1 DEF FieldsAccepted
  <2>3. parse_http_date(after) = <<days_from_civil(y, m, d), seconds + 1>>
    BY <2>1, <2>2 DEF parse_http_date
  <2>4. seconds # 86399
    BY <1>3, <1>4
  <2> QED BY <1>2, <2>3, <2>4 DEF Tick, after
<1>5. CASE date.hour = 23 /\ date.min = 59 /\ date.sec = 59
  <2>1. after = [date EXCEPT !.year = next[1], !.month = next[2], !.day = next[3],
                             !.hour = 0, !.min = 0, !.sec = 0]
    BY <1>5 DEF OneSecondAfter
  <2>2. next[1] \in Int /\ next[2] \in 1..12 /\ next[3] \in 1..31
    BY <1>1 DEF NextDay, DaysIn, IsDate
  <2>3. days_from_civil(next[1], next[2], next[3]) = days_from_civil(y, m, d) + 1
    BY <1>1, DaysAreConsecutive DEF OneDayLater
  <2> HIDE DEF next, after
  <2>4. /\ after.fields = 7 /\ after.year = next[1] /\ after.month = next[2]
        /\ after.day = next[3] /\ after.hour = 0 /\ after.min = 0 /\ after.sec = 0
    BY <1>1, <2>1
  <2>5. FieldsAccepted(after)
    BY <2>2, <2>4 DEF FieldsAccepted
  <2>6. parse_http_date(after) = <<days_from_civil(y, m, d) + 1, 0>>
    BY <2>3, <2>4, <2>5 DEF parse_http_date
  <2> HIDE DEF seconds
  <2>7. seconds = 86399
    BY <1>3, <1>5
  <2> QED BY <1>2, <2>6, <2>7 DEF Tick, after
<1> QED BY <1>4, <1>5

-----------------------------------------------------------------------------
(* What is answered, to an input of the right kind.                        *)

Answered ==
  /\ of = "frame" =>
       /\ input \in BinaryFrames \cup TextFrames
       /\ done => outcome = parse_incoming(input)
  /\ of = "subtitles" => input \in Boundaries /\ (done => outcome = to_srt(input))
  /\ of = "text" => input \in Texts /\ (done => outcome = SsmlContent(input))
  /\ of = "voice" => input \in VoiceNames /\ (done => outcome = normalize_voice_name(input))
  /\ of = "request" => input \in Requests /\ (done => outcome = serialize(input))
  /\ of = "wire" => input \in Wires /\ (done => outcome = parse(input))
  /\ of = "date" => input \in Dates /\ (done => outcome = parse_http_date(input))

LEMMA AnsweredAlways == Spec => []Answered
<1>1. Init => Answered
  <2>1. Init => /\ of = "frame" => input \in BinaryFrames \cup TextFrames
                /\ of = "subtitles" => input \in Boundaries
                /\ of = "text" => input \in Texts
                /\ of = "voice" => input \in VoiceNames
                /\ of = "request" => input \in Requests
                /\ of = "wire" => input \in Wires
                /\ of = "date" => input \in Dates
    BY DEF Init, Subject
  <2>2. Init => ~done
    BY DEF Init
  <2> QED BY <2>1, <2>2 DEF Answered
<1>2. Answered /\ [Next]_vars => Answered'
  <2> SUFFICES ASSUME Answered, [Next]_vars PROVE Answered'
    OBVIOUS
  <2>1. CASE Parse \/ Escape \/ ReadDate
    BY <2>1 DEF Parse, Escape, ReadDate, Answer, Answered
  <2>2. CASE Normalise \/ Serialize \/ ReadBack
    BY <2>2 DEF Normalise, Serialize, ReadBack, Answer, Answered
  <2>3. CASE Compose
    BY <2>3 DEF Compose, Answer, Answered
  <2>4. CASE UNCHANGED vars
    BY <2>4 DEF vars, Answered
  <2> QED BY <2>1, <2>2, <2>3, <2>4 DEF Next
<1> QED BY <1>1, <1>2, PTL DEF Spec

\* From every second of the calendar to the next the time grows by one, in every
\* year, and the count starts in 1970 (HttpDate.cpp:16-82).
THEOREM DatesAreCounted == Spec => []DatesFollowCalendar
<1>1. Answered => DatesFollowCalendar
  <2> SUFFICES ASSUME Answered, of = "date", done PROVE DatesFollowCalendar
    BY DEF DatesFollowCalendar
  <2>1. /\ input \in Dates /\ outcome = parse_http_date(input)
        /\ input \in [fields : 0..7, year : Int, month : 0..12, day : Int,
                      hour : Int, min : Int, sec : Int]
    BY DatesAssumption DEF Answered
  <2>2. IsTime(input) => parse_http_date(OneSecondAfter(input)) = Tick(outcome)
    BY <2>1, SecondsAreConsecutive
  <2>3. input = Epoch => outcome = <<0, 0>>
    <3>1. SUFFICES parse_http_date(Epoch) = <<0, 0>>
      BY <2>1
    <3>2. FieldsAccepted(Epoch)
      BY DEF FieldsAccepted, Epoch
    <3>3. days_from_civil(1970, 1, 1) = 0
      BY DEF days_from_civil, Cut
    <3> QED BY <3>2, <3>3 DEF parse_http_date, Epoch
  <2>4. input.hour \notin 0..23 => outcome = NoTime
    BY <2>1 DEF parse_http_date, FieldsAccepted
  <2> QED BY <2>2, <2>3, <2>4 DEF DatesFollowCalendar
<1> QED BY <1>1, AnsweredAlways, PTL

-----------------------------------------------------------------------------
(* Frames of the service.                                                  *)

Audio(n) == Parsed(<<[kind |-> "audio", bytes |-> n]>>)

LEMMA AudioOrNot ==
  ASSUME NEW frame \in BinaryFrame, NEW n \in Nat, n >= 1
  PROVE  parse_binary_frame(frame) = Audio(n) <=>
           /\ LengthsAccepted(frame) /\ SeparatorAccepted(frame) /\ frame.framed
           /\ frame.path = "audio" /\ frame.content_type = "audio/mpeg" /\ body_len(frame) = n
<1> DEFINE accepted == /\ LengthsAccepted(frame) /\ SeparatorAccepted(frame) /\ frame.framed
                       /\ frame.path = "audio" /\ frame.content_type \in {Absent, "audio/mpeg"}
<1>1. body_len(frame) \in Int /\ Absent # "audio/mpeg"
  BY DEF BinaryFrame, body_len, Absent
<1>2. ProtocolError # Audio(n) /\ Just("ignored") # Audio(n)
  <2>1. ProtocolError.code # Audio(n).code
    BY DEF ProtocolError, Audio, Parsed
  <2>2. Just("ignored").msgs[1].kind # Audio(n).msgs[1].kind
    BY DEF Just, Audio, Parsed
  <2> QED BY <2>1, <2>2
<1>3. \A k : Audio(k) = Audio(n) <=> k = n
  <2>1. \A k : Audio(k).msgs[1].bytes = k
    BY DEF Audio, Parsed
  <2> QED BY <2>1
<1>4. CASE ~accepted
  <2>1. parse_binary_frame(frame) = ProtocolError
    BY <1>4 DEF parse_binary_frame
  <2> QED BY <1>2, <1>4, <2>1
<1>5. CASE accepted /\ frame.content_type = Absent
  <2>1. parse_binary_frame(frame) \in {Just("ignored"), ProtocolError}
    BY <1>1, <1>5 DEF parse_binary_frame
  <2> QED BY <1>1, <1>2, <1>5, <2>1
<1>6. CASE accepted /\ frame.content_type = "audio/mpeg"
  <2>1. CASE body_len(frame) = 0
    <3>1. parse_binary_frame(frame) = ProtocolError
      BY <1>1, <1>6, <2>1 DEF parse_binary_frame
    <3> QED BY <1>2, <2>1, <3>1
  <2>2. CASE body_len(frame) # 0
    <3>1. parse_binary_frame(frame) = Audio(body_len(frame))
      BY <1>1, <1>6, <2>2 DEF parse_binary_frame, Audio
    <3> QED BY <1>3, <1>6, <3>1
  <2> QED BY <2>1, <2>2
<1> QED BY <1>4, <1>5, <1>6

LEMMA LayoutIs ==
  ASSUME NEW frame \in BinaryFrame, NEW n \in 1..frame.size
  PROVE  (\E header_bytes \in 0..frame.size : Layout(frame, header_bytes, n))
           <=> LengthsAccepted(frame) /\ SeparatorAccepted(frame) /\ body_len(frame) = n
<1>1. frame.size \in Nat /\ frame.header_length \in Nat /\ n \in Nat /\ n >= 1
  BY DEF BinaryFrame
<1>2. ASSUME LengthsAccepted(frame), SeparatorAccepted(frame), body_len(frame) = n
      PROVE  \E header_bytes \in 0..frame.size : Layout(frame, header_bytes, n)
  <2>1. frame.header_length - 2 \in 0..frame.size
    BY <1>1, <1>2 DEF LengthsAccepted
  <2>2. Layout(frame, frame.header_length - 2, n)
    BY <1>1, <1>2 DEF Layout, SeparatorAccepted, body_len
  <2> QED BY <2>1, <2>2
<1>3. ASSUME NEW header_bytes \in 0..frame.size, Layout(frame, header_bytes, n)
      PROVE  LengthsAccepted(frame) /\ SeparatorAccepted(frame) /\ body_len(frame) = n
  BY <1>1, <1>3 DEF Layout, LengthsAccepted, SeparatorAccepted, body_len
<1> QED BY <1>2, <1>3

-----------------------------------------------------------------------------
(* The boundaries of a metadata frame, for arrays of any length.           *)

\* The boundaries among the first n items, and the number of one of them.
SpokenIn(items, n) == {i \in 1..n : IsBoundary(items[i])}
Rank(W, i) == Cardinality({j \in W : j <= i})

\* What the loop holds after n items.
FoundSoFar(items, n, msgs) ==
  /\ Len(msgs) = Cardinality(SpokenIn(items, n))
  /\ \A k \in DOMAIN msgs : \E i \in SpokenIn(items, n) :
       Rank(SpokenIn(items, n), i) = k /\ msgs[k] = BoundaryMessage(items[i])

LEMMA SpokenInIsFinite ==
  ASSUME NEW items, NEW n \in Nat
  PROVE  IsFiniteSet(SpokenIn(items, n)) /\ Cardinality(SpokenIn(items, n)) \in Nat
<1>1. IsFiniteSet(1..n)
  BY FS_Interval
<1>2. SpokenIn(items, n) \in SUBSET (1..n)
  BY DEF SpokenIn
<1> QED BY <1>1, <1>2, FS_Subset, FS_CardinalityType

LEMMA SpokenKept ==
  ASSUME NEW items, NEW n \in Nat, ~IsBoundary(items[n + 1])
  PROVE  SpokenIn(items, n + 1) = SpokenIn(items, n)
<1>1. 1..(n + 1) = (1..n) \cup {n + 1}
  OBVIOUS
<1> QED BY <1>1 DEF SpokenIn

LEMMA SpokenGrows ==
  ASSUME NEW items, NEW n \in Nat, IsBoundary(items[n + 1])
  PROVE  /\ SpokenIn(items, n + 1) = SpokenIn(items, n) \cup {n + 1}
         /\ Cardinality(SpokenIn(items, n + 1)) = Cardinality(SpokenIn(items, n)) + 1
<1>1. 1..(n + 1) = (1..n) \cup {n + 1} /\ n + 1 \notin 1..n
  OBVIOUS
<1>2. SpokenIn(items, n + 1) = SpokenIn(items, n) \cup {n + 1}
  BY <1>1 DEF SpokenIn
<1>3. n + 1 \notin SpokenIn(items, n)
  BY <1>1 DEF SpokenIn
<1>4. Cardinality(SpokenIn(items, n) \cup {n + 1}) = Cardinality(SpokenIn(items, n)) + 1
  BY <1>3, SpokenInIsFinite, FS_AddElement
<1> QED BY <1>2, <1>4

\* What is added later does not change a number.
LEMMA RankIsKept ==
  ASSUME NEW items, NEW n \in Nat, NEW i \in 1..n
  PROVE  Rank(SpokenIn(items, n + 1), i) = Rank(SpokenIn(items, n), i)
<1>1. {j \in SpokenIn(items, n + 1) : j <= i} = {j \in SpokenIn(items, n) : j <= i}
  <2>1. \A j \in 1..(n + 1) : j <= i => j \in 1..n
    OBVIOUS
  <2>2. \A j \in 1..n : j \in 1..(n + 1)
    OBVIOUS
  <2> QED BY <2>1, <2>2 DEF SpokenIn
<1> QED BY <1>1 DEF Rank

\* The last place has the highest number.
LEMMA RankOfLast ==
  ASSUME NEW items, NEW n \in Nat
  PROVE  Rank(SpokenIn(items, n), n) = Cardinality(SpokenIn(items, n))
<1>1. {j \in SpokenIn(items, n) : j <= n} = SpokenIn(items, n)
  BY DEF SpokenIn
<1> QED BY <1>1 DEF Rank

\* No two places have the same number.
LEMMA RanksDiffer ==
  ASSUME NEW W, NEW n \in Nat, W \subseteq 1..n, NEW a \in W, NEW b \in W, Rank(W, a) = Rank(W, b)
  PROVE  a = b
<1>1. ASSUME NEW x \in W, NEW y \in W, x < y, Rank(W, x) = Rank(W, y) PROVE FALSE
  <2> DEFINE X == {j \in W : j <= x}
             Y == {j \in W : j <= y}
  <2>1. IsFiniteSet(Y)
    <3>1. IsFiniteSet(1..n)
      BY FS_Interval
    <3>2. Y \in SUBSET (1..n)
      OBVIOUS
    <3> HIDE DEF Y
    <3> QED BY <3>1, <3>2, FS_Subset
  <2>2. x \in Nat /\ y \in Nat /\ \A j \in W : j \in Nat
    OBVIOUS
  <2>3. X \subseteq Y /\ y \in Y /\ y \notin X
    <3>1. \A j \in W : j <= x => j <= y
      BY <1>1, <2>2
    <3>2. y <= y /\ ~(y <= x)
      BY <1>1, <2>2
    <3> QED BY <3>1, <3>2
  <2>4. Cardinality(X) = Cardinality(Y)
    BY <1>1 DEF Rank
  <2> HIDE DEF X, Y
  <2>5. X = Y
    BY <2>1, <2>3, <2>4, FS_Subset
  <2> QED BY <2>3, <2>5
<1>2. a \in Nat /\ b \in Nat
  OBVIOUS
<1> QED BY <1>1, <1>2

BoundaryMessageSet(items) == {BoundaryMessage(items[i]) : i \in DOMAIN items}

LEMMA FoundStep ==
  ASSUME NEW items \in Seq(MetadataItem), NEW V, V = BoundaryMessageSet(items),
         NEW n \in Nat, n < Len(items), NEW msgs \in Seq(V), FoundSoFar(items, n, msgs),
         NEW new, new = IF IsBoundary(items[n + 1])
                        THEN Append(msgs, BoundaryMessage(items[n + 1])) ELSE msgs
  PROVE  FoundSoFar(items, n + 1, new)
<1> DEFINE W == SpokenIn(items, n)
           U == SpokenIn(items, n + 1)
           v == BoundaryMessage(items[n + 1])
<1>1. v \in V
  <2>1. n + 1 \in DOMAIN items
    OBVIOUS
  <2> QED BY <2>1 DEF BoundaryMessageSet
<1>2. CASE ~IsBoundary(items[n + 1])
  <2>1. new = msgs /\ U = W
    BY <1>2, SpokenKept
  <2> QED BY <2>1 DEF FoundSoFar
<1>3. CASE IsBoundary(items[n + 1])
  <2>1. /\ new = Append(msgs, v) /\ U = W \cup {n + 1}
        /\ Cardinality(U) = Cardinality(W) + 1
    <3>1. new = Append(msgs, v)
      BY <1>3
    <3>2. U = W \cup {n + 1} /\ Cardinality(U) = Cardinality(W) + 1
      BY <1>3, SpokenGrows
    <3> QED BY <3>1, <3>2
  <2> HIDE DEF v
  <2>2. /\ Len(new) = Len(msgs) + 1 /\ new[Len(msgs) + 1] = v
        /\ \A k \in DOMAIN msgs : new[k] = msgs[k]
        /\ \A k \in DOMAIN new : k \in DOMAIN msgs \/ k = Len(msgs) + 1
    BY <1>1, <2>1
  <2>3. Len(msgs) = Cardinality(W) /\ \A k \in DOMAIN msgs : \E i \in W :
          Rank(W, i) = k /\ msgs[k] = BoundaryMessage(items[i])
    BY DEF FoundSoFar
  <2>4. \A i \in W : i \in U /\ Rank(U, i) = Rank(W, i)
    <3>1. \A i \in W : i \in 1..n
      BY DEF SpokenIn
    <3> QED BY <2>1, <3>1, RankIsKept
  <2>5. n + 1 \in U /\ Rank(U, n + 1) = Cardinality(U)
    BY <2>1, RankOfLast
  <2> HIDE DEF W, U
  <2>6. Len(new) = Cardinality(U)
    BY <2>1, <2>2, <2>3
  <2>7. ASSUME NEW k \in DOMAIN new
        PROVE  \E i \in U : Rank(U, i) = k /\ new[k] = BoundaryMessage(items[i])
    <3>1. CASE k \in DOMAIN msgs
      BY <2>2, <2>3, <2>4, <3>1
    <3>2. CASE k = Len(msgs) + 1
      <4>1. Rank(U, n + 1) = k /\ new[k] = BoundaryMessage(items[n + 1])
        BY <2>1, <2>2, <2>3, <2>5, <3>2 DEF v
      <4> QED BY <2>5, <4>1
    <3> QED BY <2>2, <3>1, <3>2
  <2> QED BY <2>6, <2>7 DEF FoundSoFar, U
<1> QED BY <1>2, <1>3

LEMMA FoundRounds ==
  ASSUME NEW items \in Seq(MetadataItem), NEW V, V = BoundaryMessageSet(items)
  PROVE  \E found :
           /\ \A k \in 0..Len(items) : found[k] \in Seq(V)
           /\ found[0] = <<>>
           /\ \A k \in 0..(Len(items) - 1) : found[k + 1] =
                IF IsBoundary(items[k + 1])
                THEN Append(found[k], BoundaryMessage(items[k + 1])) ELSE found[k]
           /\ BoundaryMessages(items) = found[Len(items)]
<1> DEFINE D == Seq(V)
           N == Len(items)
           After(k, msgs) == IF IsBoundary(items[k + 1])
                             THEN Append(msgs, BoundaryMessage(items[k + 1])) ELSE msgs
           step == [p \in (0..(N - 1)) \X D |-> After(p[1], p[2])]
<1>0. \A k \in 0..(N - 1) : BoundaryMessage(items[k + 1]) \in V
  <2>1. \A k \in 0..(N - 1) : k + 1 \in DOMAIN items
    OBVIOUS
  <2> QED BY <2>1 DEF BoundaryMessageSet
<1>1. step \in [(0..(N - 1)) \X D -> D]
  <2>1. ASSUME NEW k \in 0..(N - 1), NEW msgs \in D PROVE After(k, msgs) \in D
    BY <1>0
  <2> HIDE DEF D, After
  <2> QED BY <2>1
<1>2. <<>> \in D /\ N \in Nat
  OBVIOUS
<1>3. PICK g \in [0..N -> D] : Runs(g, N, <<>>, step)
  <2> HIDE DEF step, D, N
  <2> QED BY <1>1, <1>2, RunExists
<1>4. ASSUME NEW k \in 0..(N - 1) PROVE g[k + 1] = After(k, g[k])
  <2>1. k \in 0..N /\ g[k] \in D
    BY <1>2
  <2>2. g[k + 1] = step[<<k, g[k]>>]
    BY <1>3 DEF Runs
  <2>3. step[<<k, g[k]>>] = After(k, g[k])
    <3> HIDE DEF D, After
    <3> QED BY <2>1
  <2> QED BY <2>2, <2>3
<1>5. g[0] = <<>>
  BY <1>3 DEF Runs
<1> DEFINE Body(h) ==
      [i \in 0..Len(items) |->
         IF i = 0 THEN <<>>
         ELSE IF IsBoundary(items[i])
              THEN Append(h[i - 1], BoundaryMessage(items[i])) ELSE h[i - 1]]
<1>6. \E h : h = Body(h)
  <2>1. ASSUME NEW i \in 0..N
        PROVE  g[i] = IF i = 0 THEN <<>>
                      ELSE IF IsBoundary(items[i])
                           THEN Append(g[i - 1], BoundaryMessage(items[i])) ELSE g[i - 1]
    <3>1. CASE i = 0
      BY <1>5, <3>1
    <3>2. CASE i # 0
      <4>1. i - 1 \in 0..(N - 1) /\ (i - 1) + 1 = i
        BY <1>2, <3>2
      <4>2. g[i] = After(i - 1, g[i - 1])
        BY <1>4, <4>1
      <4> QED BY <3>2, <4>1, <4>2
    <3> QED BY <3>1, <3>2
  <2>2. g = [i \in 0..N |-> g[i]]
    OBVIOUS
  <2>3. g = Body(g)
    BY <2>1, <2>2
  <2> QED BY <2>3
<1> DEFINE a == CHOOSE h : h = Body(h)
<1>7. a = Body(a)
  <2> HIDE DEF Body
  <2> QED BY <1>6
<1>8. BoundaryMessages(items) = a[Len(items)]
  BY DEF BoundaryMessages
<1> HIDE DEF a
<1>9. a[0] = <<>>
  BY <1>2, <1>7
<1>10. \A k \in 0..(N - 1) : a[k + 1] =
         IF IsBoundary(items[k + 1])
         THEN Append(a[k], BoundaryMessage(items[k + 1])) ELSE a[k]
  <2>1. SUFFICES ASSUME NEW k \in 0..(N - 1)
                 PROVE  a[k + 1] = IF IsBoundary(items[k + 1])
                          THEN Append(a[k], BoundaryMessage(items[k + 1])) ELSE a[k]
    OBVIOUS
  <2>2. k + 1 \in 0..N /\ k + 1 # 0 /\ (k + 1) - 1 = k
    BY <1>2
  <2> QED BY <1>7, <2>2
<1>11. \A k \in 0..N : a[k] \in D
  <2> DEFINE S == {i \in Nat : i <= N => a[i] \in D}
  <2>1. 0 \in S
    BY <1>9, <1>2
  <2>2. ASSUME NEW k \in Nat, k \in S PROVE k + 1 \in S
    <3>1. SUFFICES ASSUME k + 1 <= N PROVE a[k + 1] \in D
      OBVIOUS
    <3>2. k \in 0..(N - 1) /\ a[k] \in D
      BY <1>2, <2>2, <3>1
    <3>3. a[k + 1] = IF IsBoundary(items[k + 1])
                     THEN Append(a[k], BoundaryMessage(items[k + 1])) ELSE a[k]
      BY <1>10, <3>2
    <3>4. Append(a[k], BoundaryMessage(items[k + 1])) \in D
      BY <1>0, <3>2
    <3> QED BY <3>2, <3>3, <3>4
  <2> HIDE DEF S
  <2>3. \A k \in Nat : k \in S
    BY <2>1, <2>2, Induction
  <2> QED BY <1>2, <2>3 DEF S
<1> QED BY <1>8, <1>9, <1>10, <1>11

LEMMA MessagesAreSpoken ==
  ASSUME NEW items \in Seq(MetadataItem)
  PROVE  FoundSoFar(items, Len(items), BoundaryMessages(items))
<1> DEFINE V == BoundaryMessageSet(items)
<1>1. PICK found :
           /\ \A k \in 0..Len(items) : found[k] \in Seq(V)
           /\ found[0] = <<>>
           /\ \A k \in 0..(Len(items) - 1) : found[k + 1] =
                IF IsBoundary(items[k + 1])
                THEN Append(found[k], BoundaryMessage(items[k + 1])) ELSE found[k]
           /\ BoundaryMessages(items) = found[Len(items)]
  BY FoundRounds
<1>2. Len(items) \in Nat
  OBVIOUS
<1> DEFINE S == {n \in Nat : n <= Len(items) => FoundSoFar(items, n, found[n])}
<1>3. 0 \in S
  <2>1. SpokenIn(items, 0) = {}
    BY DEF SpokenIn
  <2>2. Len(<<>>) = 0 /\ DOMAIN <<>> = {}
    OBVIOUS
  <2> QED BY <1>1, <2>1, <2>2, FS_EmptySet DEF FoundSoFar
<1>4. ASSUME NEW n \in Nat, n \in S PROVE n + 1 \in S
  <2>1. SUFFICES ASSUME n + 1 <= Len(items) PROVE FoundSoFar(items, n + 1, found[n + 1])
    OBVIOUS
  <2>2. n \in 0..(Len(items) - 1) /\ n \in 0..Len(items) /\ n < Len(items)
    BY <1>2, <2>1
  <2>3. FoundSoFar(items, n, found[n]) /\ found[n] \in Seq(V)
    BY <1>1, <1>4, <2>2
  <2>4. found[n + 1] = IF IsBoundary(items[n + 1])
                       THEN Append(found[n], BoundaryMessage(items[n + 1])) ELSE found[n]
    BY <1>1, <2>2
  <2> HIDE DEF V
  <2> QED BY <2>2, <2>3, <2>4, FoundStep DEF V
<1> HIDE DEF S
<1>5. \A n \in Nat : n \in S
  BY <1>3, <1>4, Induction
<1> QED BY <1>1, <1>2, <1>5 DEF S

\* A frame is taken for what the service put into it, whatever its length, its
\* claimed length and its items: an audio frame yields its body, a metadata frame
\* its boundaries in order, and no byte outside of a frame is read
\* (EdgeProtocolIncoming.cpp:27-183).
THEOREM FramesAreReadAsSent == Spec => []FramesAsSent
<1>1. Answered => AudioIsTheBody
  <2> SUFFICES ASSUME Answered, of = "frame", done, input.type = "binary",
                      NEW n \in 1..input.size
               PROVE  outcome = Parsed(<<[kind |-> "audio", bytes |-> n]>>) <=>
                        /\ \E header_bytes \in 0..input.size : Layout(input, header_bytes, n)
                        /\ input.framed /\ input.path = "audio"
                        /\ input.content_type = "audio/mpeg"
    BY DEF AudioIsTheBody
  <2>1. input \in BinaryFrame /\ outcome = parse_binary_frame(input)
    <3>1. input \in BinaryFrames \cup TextFrames /\ outcome = parse_incoming(input)
      BY DEF Answered
    <3>2. input \notin TextFrames
      BY FramesAssumption DEF TextFrame
    <3>3. input \in BinaryFrame
      BY <3>1, <3>2, FramesAssumption
    <3> QED BY <3>1, <3>3 DEF parse_incoming
  <2>2. n \in Nat /\ n >= 1
    BY <2>1 DEF BinaryFrame
  <2>3. outcome = Audio(n) <=>
           /\ LengthsAccepted(input) /\ SeparatorAccepted(input) /\ input.framed
           /\ input.path = "audio" /\ input.content_type = "audio/mpeg" /\ body_len(input) = n
    BY <2>1, <2>2, AudioOrNot
  <2>4. (\E header_bytes \in 0..input.size : Layout(input, header_bytes, n))
           <=> LengthsAccepted(input) /\ SeparatorAccepted(input) /\ body_len(input) = n
    BY <2>1, LayoutIs
  <2> QED BY <2>3, <2>4 DEF Audio
<1>2. Answered => ReadsInsideFrame
  <2> SUFFICES ASSUME Answered, of = "frame", input.type = "binary"
               PROVE  SeparatorReads(input) \subseteq 0..(input.size - 1)
    BY DEF ReadsInsideFrame
  <2>1. input \in BinaryFrame
    BY FramesAssumption DEF Answered, BinaryFrame, TextFrame
  <2>2. input.size \in Nat /\ input.header_length \in Nat
    BY <2>1 DEF BinaryFrame
  <2> QED BY <2>2 DEF SeparatorReads, LengthsAccepted
<1>3. Answered => BoundariesKeptInOrder
  <2> SUFFICES ASSUME Answered, of = "frame", done, input.type = "text",
                      outcome.code = "none", input.path = "audio.metadata"
               PROVE  /\ Len(outcome.msgs) = Cardinality(Spoken(input.items))
                      /\ \A k \in DOMAIN outcome.msgs :
                           outcome.msgs[k] = BoundaryMessage(input.items[Place(input.items, k)])
    BY DEF BoundariesKeptInOrder, BoundaryMessage
  <2> DEFINE items == input.items
             n == Len(items)
             msgs == outcome.msgs
  <2>1. input \in TextFrames /\ outcome = parse_text_frame(input)
    <3>1. input \in BinaryFrames \cup TextFrames /\ outcome = parse_incoming(input)
      BY DEF Answered
    <3>2. input \notin BinaryFrames
      BY FramesAssumption DEF BinaryFrame
    <3> QED BY <3>1, <3>2 DEF parse_incoming
  <2>2. items \in Seq(MetadataItem) /\ n \in Nat /\ DOMAIN items = 1..n
    <3>1. items \in Seq(MetadataItem)
      BY <2>1, FramesAssumption DEF TextFrame
    <3> QED BY <3>1
  <2>3. msgs = BoundaryMessages(items)
    <3>1. outcome = ProtocolError \/ outcome = Parsed(BoundaryMessages(items))
      BY <2>1 DEF parse_text_frame
    <3>2. ProtocolError.code # "none"
      BY DEF ProtocolError
    <3> QED BY <3>1, <3>2 DEF Parsed
  <2>4. SpokenIn(items, n) = Spoken(items)
    BY <2>2 DEF SpokenIn, Spoken, IsBoundary, BoundaryType
  <2>5. FoundSoFar(items, n, msgs)
    BY <2>2, <2>3, MessagesAreSpoken
  <2> HIDE DEF items, n, msgs
  <2>6. Len(msgs) = Cardinality(Spoken(items))
    BY <2>4, <2>5 DEF FoundSoFar
  <2>7. ASSUME NEW k \in DOMAIN msgs
        PROVE  msgs[k] = BoundaryMessage(items[Place(items, k)])
    <3> DEFINE p == Place(items, k)
    <3>1. PICK i \in Spoken(items) :
            Rank(Spoken(items), i) = k /\ msgs[k] = BoundaryMessage(items[i])
      BY <2>4, <2>5 DEF FoundSoFar
    <3>2. p \in Spoken(items) /\ Rank(Spoken(items), p) = k
      BY <3>1 DEF Rank, Place
    <3>3. Spoken(items) \subseteq 1..n
      BY <2>2 DEF Spoken
    <3> HIDE DEF p
    <3>4. p = i
      BY <2>2, <3>1, <3>2, <3>3, RanksDiffer
    <3> QED BY <3>1, <3>4 DEF p
  <2> QED BY <2>6, <2>7 DEF items, msgs
<1>4. Answered => FramesAsSent
  BY <1>1, <1>2, <1>3 DEF FramesAsSent
<1> QED BY <1>4, AnsweredAlways, PTL

-----------------------------------------------------------------------------
(* Functions on 1..n that are defined from their later values.             *)

\* body says what the value at i is, and looks only at what comes after it.
LooksAhead(n, D, body) ==
  \A i \in 1..n : \A f \in D : \A g \in D :
    (\A j \in (i + 1)..n : f[j] = g[j]) => body[<<i, f>>] = body[<<i, g>>]

\* f holds the values.
Solves(f, n, body) == \A i \in 1..n : f[i] = body[<<i, f>>]

LEMMA AheadExists ==
  ASSUME NEW n \in Nat, NEW S, NEW s \in S, NEW D, D = [1..n -> S],
         NEW body \in [(1..n) \X D -> S], LooksAhead(n, D, body)
  PROVE  \E f \in D : Solves(f, n, body)
<1> DEFINE Later(k, f) == [f EXCEPT ![n - k] = body[<<n - k, f>>]]
           step == [p \in (0..(n - 1)) \X D |-> Later(p[1], p[2])]
           d == [i \in 1..n |-> s]
<1>1. \A k \in 0..(n - 1) : n - k \in 1..n
  OBVIOUS
<1>2. step \in [(0..(n - 1)) \X D -> D]
  <2>1. ASSUME NEW k \in 0..(n - 1), NEW f \in D PROVE Later(k, f) \in D
    <3>1. body[<<n - k, f>>] \in S
      BY <1>1
    <3> QED BY <3>1
  <2> HIDE DEF Later
  <2> QED BY <2>1
<1>3. d \in D
  OBVIOUS
<1>4. PICK g \in [0..n -> D] : Runs(g, n, d, step)
  <2> HIDE DEF step, d
  <2> QED BY <1>2, <1>3, RunExists
<1>5. ASSUME NEW k \in 0..(n - 1)
      PROVE  /\ k \in 0..n /\ k + 1 \in 0..n /\ g[k] \in D /\ g[k + 1] \in D
             /\ g[k + 1] = Later(k, g[k])
  <2>1. k \in 0..n /\ k + 1 \in 0..n
    OBVIOUS
  <2>2. g[k] \in D /\ g[k + 1] \in D
    BY <2>1
  <2>3. g[k + 1] = step[<<k, g[k]>>]
    BY <1>4 DEF Runs
  <2> HIDE DEF Later
  <2> QED BY <2>1, <2>2, <2>3
<1>6. ASSUME NEW i \in 1..n, NEW k \in 0..(n - 1), k # n - i
      PROVE  g[k + 1][i] = g[k][i]
  <2> DEFINE h == g[k]
  <2>1. h \in D /\ g[k + 1] = [h EXCEPT ![n - k] = body[<<n - k, h>>]]
    BY <1>5
  <2>2. n - k # i
    BY <1>6
  <2> HIDE DEF h
  <2>3. g[k + 1][i] = h[i]
    BY <2>1, <2>2
  <2> QED BY <2>3 DEF h
<1>7. ASSUME NEW i \in 1..n
      PROVE  \A k \in Nat : k >= n - i + 1 /\ k <= n => g[k][i] = g[n - i + 1][i]
  <2> DEFINE T == {k \in Nat : k >= n - i + 1 /\ k <= n => g[k][i] = g[n - i + 1][i]}
  <2>1. 0 \in T
    OBVIOUS
  <2>2. ASSUME NEW k \in Nat, k \in T PROVE k + 1 \in T
    <3>1. SUFFICES ASSUME k + 1 >= n - i + 1, k + 1 <= n PROVE g[k + 1][i] = g[n - i + 1][i]
      OBVIOUS
    <3>2. CASE k = n - i
      BY <3>2
    <3>3. CASE k # n - i
      <4>1. k \in 0..(n - 1) /\ k >= n - i + 1 /\ k <= n
        BY <3>1, <3>3
      <4> QED BY <1>6, <2>2, <3>3, <4>1
    <3> QED BY <3>2, <3>3
  <2> HIDE DEF T
  <2>3. \A k \in Nat : k \in T
    BY <2>1, <2>2, Induction
  <2> QED BY <2>3 DEF T
<1> DEFINE f == g[n]
<1>8. f \in D
  OBVIOUS
<1>9. ASSUME NEW i \in 1..n PROVE f[i] = body[<<i, f>>]
  <2>1. n - i \in 0..(n - 1) /\ n - (n - i) = i /\ n >= n - i + 1
    OBVIOUS
  <2> DEFINE h == g[n - i]
  <2>2. h \in D /\ g[n - i + 1] = [h EXCEPT ![i] = body[<<i, h>>]]
    BY <1>5, <2>1
  <2>3. f[i] = body[<<i, h>>]
    <3>1. f[i] = g[n - i + 1][i]
      BY <1>7, <2>1
    <3> HIDE DEF f, h
    <3> QED BY <2>2, <3>1
  <2>4. ASSUME NEW j \in (i + 1)..n PROVE f[j] = h[j]
    <3>1. j \in 1..n /\ n - i >= n - j + 1 /\ n - i \in Nat /\ n - i <= n /\ n >= n - j + 1
      OBVIOUS
    <3>2. g[n - i][j] = g[n - j + 1][j] /\ g[n][j] = g[n - j + 1][j]
      BY <1>7, <3>1
    <3> QED BY <3>2
  <2> HIDE DEF f, h
  <2>5. body[<<i, f>>] = body[<<i, h>>]
    <3>1. h \in D /\ \A j \in (i + 1)..n : f[j] = h[j]
      BY <2>2, <2>4
    <3> QED BY <1>8, <3>1, Zenon DEF LooksAhead
  <2> QED BY <2>3, <2>5
<1> HIDE DEF f
<1> QED BY <1>8, <1>9 DEF Solves

\* Induction from the end.
LEMMA DownInduction ==
  ASSUME NEW n \in Nat, NEW T,
         \A i \in 1..n : (\A j \in (i + 1)..n : j \in T) => i \in T
  PROVE  \A i \in 1..n : i \in T
<1> DEFINE S == {k \in Nat : \A i \in 1..n : i > n - k => i \in T}
<1>1. 0 \in S
  OBVIOUS
<1>2. ASSUME NEW k \in Nat, k \in S PROVE k + 1 \in S
  <2>1. SUFFICES ASSUME NEW i \in 1..n, i > n - (k + 1) PROVE i \in T
    OBVIOUS
  <2>2. \A j \in (i + 1)..n : j \in 1..n /\ j > n - k
    BY <2>1
  <2> QED BY <1>2, <2>2
<1> HIDE DEF S
<1>3. n \in S
  BY <1>1, <1>2, Induction
<1> QED BY <1>3 DEF S

-----------------------------------------------------------------------------
(* UTF-8, for texts of any length.                                         *)

Byte == 0..255

\* A continuation byte.
IsTail(b) == b >= 128 /\ b <= 191

LEMMA ExtraIs ==
  ASSUME NEW lead \in Int, lead >= 0
  PROVE  /\ Extra(lead) = 0 <=> lead <= 127
         /\ Extra(lead) = 1 <=> lead >= 194 /\ lead <= 223
         /\ Extra(lead) = 2 <=> lead >= 224 /\ lead <= 239
         /\ Extra(lead) = 3 <=> lead >= 240 /\ lead <= 244
         /\ Extra(lead) \in {-1, 0, 1, 2, 3}
<1>1. CASE lead <= 127
  BY <1>1 DEF Extra
<1>2. CASE lead >= 128 /\ lead <= 193
  BY <1>2 DEF Extra
<1>3. CASE lead >= 194 /\ lead <= 223
  BY <1>3 DEF Extra
<1>4. CASE lead >= 224 /\ lead <= 239
  BY <1>4 DEF Extra
<1>5. CASE lead >= 240 /\ lead <= 244
  BY <1>5 DEF Extra
<1>6. CASE lead >= 245
  BY <1>6 DEF Extra
<1> QED BY <1>1, <1>2, <1>3, <1>4, <1>5, <1>6

\* The bits that the bytes of a character leave.
LEMMA Bits ==
  ASSUME NEW b \in Int
  PROVE  /\ b >= 128 /\ b <= 191 => b % 64 = b - 128
         /\ b >= 194 /\ b <= 223 => b % 32 = b - 192
         /\ b >= 224 /\ b <= 239 => b % 16 = b - 224
         /\ b >= 240 /\ b <= 244 => b % 8 = b - 240
  OBVIOUS

\* What CodePoint computes, written out.
Put(text, i, k) ==
  CASE k = 0 -> LeadBits(text[i])
    [] k = 1 -> LeadBits(text[i]) * 64 + (text[i + 1] % 64)
    [] k = 2 -> (LeadBits(text[i]) * 64 + (text[i + 1] % 64)) * 64 + (text[i + 2] % 64)
    [] k = 3 -> ((LeadBits(text[i]) * 64 + (text[i + 1] % 64)) * 64 + (text[i + 2] % 64)) * 64
                  + (text[i + 3] % 64)

LEMMA CodePointIs ==
  ASSUME NEW text, NEW i, Extra(text[i]) \in 0..3
  PROVE  CodePoint(text, i) = Put(text, i, Extra(text[i]))
<1> DEFINE e == Extra(text[i])
           Body(f) == [j \in 0..Extra(text[i]) |->
                         IF j = 0 THEN LeadBits(text[i])
                         ELSE (f[j - 1] * 64) + (text[i + j] % 64)]
           h == [j \in 0..e |-> Put(text, i, j)]
           a == CHOOSE f : f = Body(f)
<1>1. h = Body(h)
  <2>1. ASSUME NEW j \in 0..e
        PROVE  Put(text, i, j) = IF j = 0 THEN LeadBits(text[i])
                                 ELSE (h[j - 1] * 64) + (text[i + j] % 64)
    <3>1. j \in {0, 1, 2, 3}
      OBVIOUS
    <3>2. j # 0 => h[j - 1] = Put(text, i, j - 1)
      <4>1. j # 0 => j - 1 \in 0..e
        OBVIOUS
      <4> HIDE DEF e
      <4> QED BY <4>1
    <3> HIDE DEF h, e
    <3> QED BY <3>1, <3>2 DEF Put
  <2> HIDE DEF e
  <2>2. h = [j \in 0..e |-> IF j = 0 THEN LeadBits(text[i])
                            ELSE (h[j - 1] * 64) + (text[i + j] % 64)]
    BY <2>1
  <2> QED BY <2>2 DEF e
<1>2. a = Body(a)
  <2> HIDE DEF Body, h
  <2> QED BY <1>1
<1>3. CodePoint(text, i) = a[e]
  BY DEF CodePoint
<1> HIDE DEF a
<1>4. \A j \in 0..e : a[j] = Put(text, i, j)
  <2>1. \A j \in 0..e : a[j] = IF j = 0 THEN LeadBits(text[i])
                               ELSE (a[j - 1] * 64) + (text[i + j] % 64)
    BY <1>2
  <2> HIDE DEF e
  <2>2. e \in {0, 1, 2, 3}
    BY DEF e
  <2>3. a[0] = Put(text, i, 0)
    BY <2>1, <2>2 DEF Put
  <2>4. e >= 1 => a[1] = Put(text, i, 1)
    BY <2>1, <2>2, <2>3 DEF Put
  <2>5. e >= 2 => a[2] = Put(text, i, 2)
    BY <2>1, <2>2, <2>4 DEF Put
  <2>6. e >= 3 => a[3] = Put(text, i, 3)
    BY <2>1, <2>2, <2>5 DEF Put
  <2> QED BY <2>2, <2>3, <2>4, <2>5, <2>6
<1> QED BY <1>3, <1>4

\* The number that a character of three or of four bytes stands for.
OfThree(a, b, c) == ((a - 224) * 64 + (b - 128)) * 64 + (c - 128)
OfFour(a, b, c, d) == (((a - 240) * 64 + (b - 128)) * 64 + (c - 128)) * 64 + (d - 128)

LEMMA TwoBytes ==
  ASSUME NEW a \in Int, NEW b \in Int, a >= 194, a <= 223, IsTail(b),
         NEW cp, cp = (a - 192) * 64 + (b - 128)
  PROVE  InRange(cp, 1)
  BY DEF InRange, min_cp, IsTail

LEMMA ThreeBytes ==
  ASSUME NEW a \in Int, NEW b \in Int, NEW c \in Int, a >= 224, a <= 239, IsTail(b), IsTail(c)
  PROVE  InRange(OfThree(a, b, c), 2) <=> (a = 224 => b >= 160) /\ (a = 237 => b <= 159)
  BY DEF InRange, min_cp, IsTail, OfThree

LEMMA FourBytes ==
  ASSUME NEW a \in Int, NEW b \in Int, NEW c \in Int, NEW d \in Int,
         a >= 240, a <= 244, IsTail(b), IsTail(c), IsTail(d)
  PROVE  InRange(OfFour(a, b, c, d), 3) <=> (a = 240 => b >= 144) /\ (a = 244 => b <= 143)
  BY DEF InRange, min_cp, IsTail, OfFour

\* A row of the table that a and b begin.
BeginsRow(a, b, rest) ==
  \E row \in WellFormed : a \in row.lead /\ b \in row.second /\ row.rest = rest

LEMMA RowsAre ==
  ASSUME NEW a \in Int, NEW b \in Int
  PROVE  /\ BeginsRow(a, b, 0) <=> a >= 194 /\ a <= 223 /\ IsTail(b)
         /\ BeginsRow(a, b, 1) <=> /\ a >= 224 /\ a <= 239 /\ IsTail(b)
                                   /\ a = 224 => b >= 160
                                   /\ a = 237 => b <= 159
         /\ BeginsRow(a, b, 2) <=> /\ a >= 240 /\ a <= 244 /\ IsTail(b)
                                   /\ a = 240 => b >= 144
                                   /\ a = 244 => b <= 143
<1> DEFINE T == 128..191
           L1 == 194..223
           S2 == 160..191
           L3 == (225..236) \cup {238, 239}
           S4 == 128..159
           S5 == 144..191
           L6 == 241..243
           S7 == 128..143
           Row(lead, second, rest) == [lead |-> lead, second |-> second, rest |-> rest]
           In(row, rest) == a \in row.lead /\ b \in row.second /\ row.rest = rest
           r1 == Row(L1, T, 0)
           r2 == Row({224}, S2, 1)
           r3 == Row(L3, T, 1)
           r4 == Row({237}, S4, 1)
           r5 == Row({240}, S5, 2)
           r6 == Row(L6, T, 2)
           r7 == Row({244}, S7, 2)
<1>1. WellFormed = {r1, r2, r3, r4, r5, r6, r7}
  BY DEF WellFormed
<1>2. \A rest : BeginsRow(a, b, rest) <=> \E row \in WellFormed : In(row, rest)
  BY Zenon DEF BeginsRow
<1>3. /\ b \in T <=> IsTail(b)
      /\ b \in S2 <=> b >= 160 /\ b <= 191
      /\ b \in S4 <=> b >= 128 /\ b <= 159
      /\ b \in S5 <=> b >= 144 /\ b <= 191
      /\ b \in S7 <=> b >= 128 /\ b <= 143
  BY DEF IsTail
<1>4. /\ a \in L1 <=> a >= 194 /\ a <= 223
      /\ a \in L3 <=> a >= 225 /\ a <= 239 /\ a # 237
      /\ a \in L6 <=> a >= 241 /\ a <= 243
  <2>1. a \in 225..236 <=> a >= 225 /\ a <= 236
    OBVIOUS
  <2>2. a \in {238, 239} <=> a >= 238 /\ a <= 239
    OBVIOUS
  <2>3. a \in L3 <=> a \in 225..236 \/ a \in {238, 239}
    BY Zenon
  <2>4. a \in L1 <=> a >= 194 /\ a <= 223
    OBVIOUS
  <2>5. a \in L6 <=> a >= 241 /\ a <= 243
    OBVIOUS
  <2> HIDE DEF L1, L3, L6
  <2>6. a \in L3 <=> a >= 225 /\ a <= 239 /\ a # 237
    BY <2>1, <2>2, <2>3
  <2> QED BY <2>4, <2>5, <2>6
<1> HIDE DEF T, L1, S2, L3, S4, S5, L6, S7
<1>5. /\ \A rest : In(r1, rest) <=> a \in L1 /\ b \in T /\ 0 = rest
      /\ \A rest : In(r2, rest) <=> a = 224 /\ b \in S2 /\ 1 = rest
      /\ \A rest : In(r3, rest) <=> a \in L3 /\ b \in T /\ 1 = rest
      /\ \A rest : In(r4, rest) <=> a = 237 /\ b \in S4 /\ 1 = rest
      /\ \A rest : In(r5, rest) <=> a = 240 /\ b \in S5 /\ 2 = rest
      /\ \A rest : In(r6, rest) <=> a \in L6 /\ b \in T /\ 2 = rest
      /\ \A rest : In(r7, rest) <=> a = 244 /\ b \in S7 /\ 2 = rest
  OBVIOUS
<1> HIDE DEF In, r1, r2, r3, r4, r5, r6, r7
<1>6. \A rest : BeginsRow(a, b, rest) <=>
        \/ In(r1, rest) \/ In(r2, rest) \/ In(r3, rest) \/ In(r4, rest)
        \/ In(r5, rest) \/ In(r6, rest) \/ In(r7, rest)
  BY <1>1, <1>2
<1>7. BeginsRow(a, b, 0) <=> a \in L1 /\ b \in T
  BY <1>5, <1>6
<1>8. BeginsRow(a, b, 1) <=> \/ a = 224 /\ b \in S2
                             \/ a \in L3 /\ b \in T
                             \/ a = 237 /\ b \in S4
  BY <1>5, <1>6
<1>9. BeginsRow(a, b, 2) <=> \/ a = 240 /\ b \in S5
                             \/ a \in L6 /\ b \in T
                             \/ a = 244 /\ b \in S7
  BY <1>5, <1>6
<1>10. BeginsRow(a, b, 0) <=> a >= 194 /\ a <= 223 /\ IsTail(b)
  BY <1>3, <1>4, <1>7
<1>11. BeginsRow(a, b, 1) <=> /\ a >= 224 /\ a <= 239 /\ IsTail(b)
                              /\ a = 224 => b >= 160
                              /\ a = 237 => b <= 159
  BY <1>3, <1>4, <1>8 DEF IsTail
<1>12. BeginsRow(a, b, 2) <=> /\ a >= 240 /\ a <= 244 /\ IsTail(b)
                              /\ a = 240 => b >= 144
                              /\ a = 244 => b <= 143
  BY <1>3, <1>4, <1>9 DEF IsTail
<1> QED BY <1>10, <1>11, <1>12, Zenon

LEMMA RowRests == \A row \in WellFormed : row.rest \in {0, 1, 2}
<1> DEFINE T == 128..191
           L1 == 194..223
           S2 == 160..191
           L3 == (225..236) \cup {238, 239}
           S4 == 128..159
           S5 == 144..191
           L6 == 241..243
           S7 == 128..143
           Row(lead, second, rest) == [lead |-> lead, second |-> second, rest |-> rest]
<1>1. WellFormed = {Row(L1, T, 0), Row({224}, S2, 1), Row(L3, T, 1), Row({237}, S4, 1),
                    Row({240}, S5, 2), Row(L6, T, 2), Row({244}, S7, 2)}
  BY DEF WellFormed
<1> HIDE DEF T, L1, S2, L3, S4, S5, L6, S7
<1> QED BY <1>1

LEMMA ByteBounds ==
  ASSUME NEW b \in 0..255
  PROVE  b \in Int /\ b >= 0 /\ b <= 255
  OBVIOUS

LEMMA ByteIs ==
  ASSUME NEW text \in Seq(Byte), NEW i \in 1..Len(text)
  PROVE  text[i] \in Int /\ text[i] >= 0 /\ text[i] <= 255
<1>1. text[i] \in Byte
  OBVIOUS
<1> QED BY <1>1, ByteBounds, Zenon DEF Byte

\* The program finds a character of k + 1 bytes at i.
Accepts(text, i, k) ==
  /\ Extra(text[i]) = k
  /\ i + k <= Len(text)
  /\ \A j \in (i + 1)..(i + k) : text[j] \in Continuation
  /\ InRange(CodePoint(text, i), k)

\* The table has one.
Fits(text, i, k) ==
  IF k = 0 THEN text[i] < 128
  ELSE /\ BeginsRow(text[i], text[i + 1], k - 1)
       /\ i + k <= Len(text)
       /\ \A j \in (i + 2)..(i + k) : text[j] \in 128..191

LEMMA TailIs ==
  ASSUME NEW b \in Int
  PROVE  (b \in Continuation <=> IsTail(b)) /\ (b \in 128..191 <=> IsTail(b))
  BY DEF Continuation, IsTail

LEMMA FitsInside ==
  ASSUME NEW text \in Seq(Byte), NEW i \in 1..Len(text), NEW k \in 1..3, i + k <= Len(text)
  PROVE  /\ \A j \in i..(i + k) : text[j] \in Int /\ text[j] >= 0 /\ text[j] <= 255
         /\ (\A j \in (i + 1)..(i + k) : text[j] \in Continuation)
              <=> \A j \in (i + 1)..(i + k) : IsTail(text[j])
         /\ (\A j \in (i + 2)..(i + k) : text[j] \in 128..191)
              <=> \A j \in (i + 2)..(i + k) : IsTail(text[j])
<1>1. \A j \in i..(i + k) : j \in 1..Len(text)
  OBVIOUS
<1>2. \A j \in i..(i + k) : text[j] \in Int /\ text[j] >= 0 /\ text[j] <= 255
  BY <1>1, ByteIs
<1>3. \A j \in i..(i + k) : /\ text[j] \in Continuation <=> IsTail(text[j])
                            /\ text[j] \in 128..191 <=> IsTail(text[j])
  BY <1>2, TailIs
<1>4. /\ \A j \in (i + 1)..(i + k) : j \in i..(i + k)
      /\ \A j \in (i + 2)..(i + k) : j \in i..(i + k)
  OBVIOUS
<1> QED BY <1>2, <1>3, <1>4, Zenon

LEMMA OneByteAgrees ==
  ASSUME NEW text \in Seq(Byte), NEW i \in 1..Len(text)
  PROVE  Accepts(text, i, 0) <=> Fits(text, i, 0)
<1>1. text[i] \in Int /\ text[i] >= 0 /\ text[i] <= 255
  BY ByteIs
<1>2. Extra(text[i]) = 0 <=> text[i] < 128
  BY <1>1, ExtraIs
<1>3. ASSUME Extra(text[i]) = 0 PROVE InRange(CodePoint(text, i), 0)
  <2>1. CodePoint(text, i) = text[i]
    BY <1>3, CodePointIs DEF Put, LeadBits
  <2> QED BY <1>1, <1>2, <1>3, <2>1 DEF InRange, min_cp
<1>4. i + 0 <= Len(text) /\ \A j \in (i + 1)..(i + 0) : FALSE
  OBVIOUS
<1> QED BY <1>2, <1>3, <1>4 DEF Accepts, Fits

LEMMA TwoBytesAgree ==
  ASSUME NEW text \in Seq(Byte), NEW i \in 1..Len(text), i + 1 <= Len(text)
  PROVE  Accepts(text, i, 1) <=> Fits(text, i, 1)
<1> DEFINE a == text[i]
           b == text[i + 1]
<1>1. a \in Int /\ a >= 0 /\ b \in Int
  BY ByteIs
<1>2. Accepts(text, i, 1) <=> Extra(a) = 1 /\ IsTail(b) /\ InRange(CodePoint(text, i), 1)
  <2>1. (\A j \in (i + 1)..(i + 1) : text[j] \in Continuation) <=> IsTail(b)
    BY <1>1, TailIs
  <2> QED BY <2>1 DEF Accepts
<1>3. Fits(text, i, 1) <=> a >= 194 /\ a <= 223 /\ IsTail(b)
  <2>1. Fits(text, i, 1) <=> BeginsRow(a, b, 0)
    <3>1. \A j \in (i + 2)..(i + 1) : FALSE
      OBVIOUS
    <3> QED BY <3>1 DEF Fits
  <2> HIDE DEF a, b
  <2> QED BY <1>1, <2>1, RowsAre
<1>4. Extra(a) = 1 <=> a >= 194 /\ a <= 223
  BY <1>1, ExtraIs
<1>5. ASSUME Extra(a) = 1, IsTail(b) PROVE InRange(CodePoint(text, i), 1)
  <2>1. CodePoint(text, i) = LeadBits(a) * 64 + (b % 64)
    BY <1>5, CodePointIs DEF Put
  <2>2. LeadBits(a) = a % 32
    BY <1>5 DEF LeadBits
  <2> HIDE DEF a, b
  <2>3. LeadBits(a) = a - 192 /\ b % 64 = b - 128
    BY <1>1, <1>4, <1>5, <2>2, Bits DEF IsTail
  <2>4. CodePoint(text, i) = (a - 192) * 64 + (b - 128)
    BY <2>1, <2>3
  <2> QED BY <1>1, <1>4, <1>5, <2>4, TwoBytes
<1> QED BY <1>2, <1>3, <1>4, <1>5

LEMMA ThreeBytesAgree ==
  ASSUME NEW text \in Seq(Byte), NEW i \in 1..Len(text), i + 2 <= Len(text)
  PROVE  Accepts(text, i, 2) <=> Fits(text, i, 2)
<1> DEFINE a == text[i]
           b == text[i + 1]
           c == text[i + 2]
<1>1. a \in Int /\ a >= 0 /\ b \in Int /\ c \in Int
  BY ByteIs
<1>2. Accepts(text, i, 2)
        <=> Extra(a) = 2 /\ IsTail(b) /\ IsTail(c) /\ InRange(CodePoint(text, i), 2)
  <2>1. (\A j \in (i + 1)..(i + 2) : text[j] \in Continuation)
          <=> b \in Continuation /\ c \in Continuation
    <3>1. (i + 1)..(i + 2) = {i + 1, i + 2}
      OBVIOUS
    <3> QED BY <3>1, Zenon
  <2>2. (b \in Continuation <=> IsTail(b)) /\ (c \in Continuation <=> IsTail(c))
    BY <1>1, TailIs
  <2> QED BY <2>1, <2>2 DEF Accepts
<1>3. Fits(text, i, 2) <=> BeginsRow(a, b, 1) /\ IsTail(c)
  <2>1. (\A j \in (i + 2)..(i + 2) : text[j] \in 128..191) <=> IsTail(c)
    <3>1. (i + 2)..(i + 2) = {i + 2}
      OBVIOUS
    <3>2. c \in 128..191 <=> IsTail(c)
      BY <1>1, TailIs
    <3> QED BY <3>1, <3>2, Zenon
  <2> QED BY <2>1 DEF Fits
<1>4. Extra(a) = 2 <=> a >= 224 /\ a <= 239
  BY <1>1, ExtraIs
<1>5. ASSUME Extra(a) = 2, IsTail(b), IsTail(c)
      PROVE  InRange(CodePoint(text, i), 2) <=> (a = 224 => b >= 160) /\ (a = 237 => b <= 159)
  <2>1. CodePoint(text, i) = (LeadBits(a) * 64 + (b % 64)) * 64 + (c % 64)
    BY <1>5, CodePointIs DEF Put
  <2>2. LeadBits(a) = a % 16
    BY <1>5 DEF LeadBits
  <2> HIDE DEF a, b, c
  <2>3. LeadBits(a) = a - 224 /\ b % 64 = b - 128 /\ c % 64 = c - 128
    BY <1>1, <1>4, <1>5, <2>2, Bits DEF IsTail
  <2>4. CodePoint(text, i) = OfThree(a, b, c)
    BY <2>1, <2>3 DEF OfThree
  <2>5. a >= 224 /\ a <= 239
    BY <1>4, <1>5
  <2> QED BY <1>1, <1>5, <2>4, <2>5, ThreeBytes
<1> HIDE DEF a, b, c
<1>6. BeginsRow(a, b, 1) <=> /\ a >= 224 /\ a <= 239 /\ IsTail(b)
                             /\ a = 224 => b >= 160
                             /\ a = 237 => b <= 159
  BY <1>1, RowsAre
<1> QED BY <1>2, <1>3, <1>4, <1>5, <1>6

LEMMA FourBytesAgree ==
  ASSUME NEW text \in Seq(Byte), NEW i \in 1..Len(text), i + 3 <= Len(text)
  PROVE  Accepts(text, i, 3) <=> Fits(text, i, 3)
<1> DEFINE a == text[i]
           b == text[i + 1]
           c == text[i + 2]
           d == text[i + 3]
<1>1. a \in Int /\ a >= 0 /\ b \in Int /\ c \in Int /\ d \in Int
  BY ByteIs
<1>2. Accepts(text, i, 3)
        <=> /\ Extra(a) = 3 /\ IsTail(b) /\ IsTail(c) /\ IsTail(d)
            /\ InRange(CodePoint(text, i), 3)
  <2>1. (\A j \in (i + 1)..(i + 3) : text[j] \in Continuation)
          <=> b \in Continuation /\ c \in Continuation /\ d \in Continuation
    <3>1. (i + 1)..(i + 3) = {i + 1, i + 2, i + 3}
      OBVIOUS
    <3> QED BY <3>1, Zenon
  <2>2. /\ b \in Continuation <=> IsTail(b)
        /\ c \in Continuation <=> IsTail(c)
        /\ d \in Continuation <=> IsTail(d)
    BY <1>1, TailIs
  <2> QED BY <2>1, <2>2 DEF Accepts
<1>3. Fits(text, i, 3) <=> BeginsRow(a, b, 2) /\ IsTail(c) /\ IsTail(d)
  <2>1. (\A j \in (i + 2)..(i + 3) : text[j] \in 128..191) <=> IsTail(c) /\ IsTail(d)
    <3>1. (i + 2)..(i + 3) = {i + 2, i + 3}
      OBVIOUS
    <3>2. (c \in 128..191 <=> IsTail(c)) /\ (d \in 128..191 <=> IsTail(d))
      BY <1>1, TailIs
    <3> QED BY <3>1, <3>2, Zenon
  <2>2. 3 - 1 = 2 /\ 3 # 0
    OBVIOUS
  <2> HIDE DEF a, b, c, d
  <2>3. Fits(text, i, 3)
          <=> BeginsRow(a, b, 2) /\ \A j \in (i + 2)..(i + 3) : text[j] \in 128..191
    BY <2>2 DEF Fits, a, b
  <2> QED BY <2>1, <2>3, Zenon
<1>4. Extra(a) = 3 <=> a >= 240 /\ a <= 244
  BY <1>1, ExtraIs
<1>5. ASSUME Extra(a) = 3, IsTail(b), IsTail(c), IsTail(d)
      PROVE  InRange(CodePoint(text, i), 3) <=> (a = 240 => b >= 144) /\ (a = 244 => b <= 143)
  <2>1. CodePoint(text, i)
          = ((LeadBits(a) * 64 + (b % 64)) * 64 + (c % 64)) * 64 + (d % 64)
    BY <1>5, CodePointIs DEF Put
  <2>2. LeadBits(a) = a % 8
    BY <1>5 DEF LeadBits
  <2> HIDE DEF a, b, c, d
  <2>3. LeadBits(a) = a - 240 /\ b % 64 = b - 128 /\ c % 64 = c - 128 /\ d % 64 = d - 128
    BY <1>1, <1>4, <1>5, <2>2, Bits DEF IsTail
  <2>4. CodePoint(text, i) = OfFour(a, b, c, d)
    BY <2>1, <2>3 DEF OfFour
  <2>5. a >= 240 /\ a <= 244
    BY <1>4, <1>5
  <2> QED BY <1>1, <1>5, <2>4, <2>5, FourBytes
<1> HIDE DEF a, b, c, d
<1>6. BeginsRow(a, b, 2) <=> /\ a >= 240 /\ a <= 244 /\ IsTail(b)
                             /\ a = 240 => b >= 144
                             /\ a = 244 => b <= 143
  BY <1>1, RowsAre
<1> QED BY <1>2, <1>3, <1>4, <1>5, <1>6

\* The program and the table find the same characters.
LEMMA CharactersAgree ==
  ASSUME NEW text \in Seq(Byte), NEW i \in 1..Len(text), NEW k \in 0..3
  PROVE  Accepts(text, i, k) <=> Fits(text, i, k)
<1>1. CASE ~(i + k <= Len(text))
  <2>1. k # 0
    BY <1>1
  <2> QED BY <1>1, <2>1 DEF Accepts, Fits
<1>2. CASE i + k <= Len(text)
  <2>1. k \in {0, 1, 2, 3}
    OBVIOUS
  <2> QED BY <1>2, <2>1, OneByteAgrees, TwoBytesAgree, ThreeBytesAgree, FourBytesAgree
<1> QED BY <1>1, <1>2

\* f says from where on a text of n bytes is made of characters; one of k + 1
\* bytes begins at i when <<i, k>> is in Good.
Goes(i, f, n, Good) == i > n \/ \E k \in 0..3 : <<i, k>> \in Good /\ f[i + k + 1]
Scans(f, n, Good) == \A i \in 1..(n + 1) : f[i] <=> Goes(i, f, n, Good)

LEMMA ScanExists ==
  ASSUME NEW n \in Nat, NEW m \in Nat, NEW Good,
         \A i \in 1..m : \A k \in 0..3 : <<i, k>> \in Good => i + k + 1 \in 1..m
  PROVE  \E f \in [1..m -> BOOLEAN] : \A i \in 1..m : f[i] = Goes(i, f, n, Good)
<1> DEFINE B == BOOLEAN
           D == [1..m -> B]
           Now(i, f) == Goes(i, f, n, Good)
           body == [p \in (1..m) \X D |-> Now(p[1], p[2])]
<1>1. body \in [(1..m) \X D -> B]
  <2>1. \A i : \A f : Now(i, f) \in BOOLEAN
    BY DEF Goes
  <2> HIDE DEF Now, D
  <2> QED BY <2>1
<1>2. \A i \in 1..m : \A f \in D : body[<<i, f>>] = Now(i, f)
  <2> HIDE DEF Now, D
  <2> QED OBVIOUS
<1>3. LooksAhead(m, D, body)
  <2>1. SUFFICES ASSUME NEW i \in 1..m, NEW f \in D, NEW g \in D,
                        \A j \in (i + 1)..m : f[j] = g[j]
                 PROVE  Now(i, f) = Now(i, g)
    <3> HIDE DEF Now, body
    <3> QED BY <1>2 DEF LooksAhead
  <2>2. \A k \in 0..3 : <<i, k>> \in Good => i + k + 1 \in (i + 1)..m
    <3>1. ASSUME NEW k \in 0..3, <<i, k>> \in Good PROVE i + k + 1 \in (i + 1)..m
      <4>1. i + k + 1 \in 1..m
        BY <3>1
      <4> QED BY <4>1
    <3> QED BY <3>1
  <2>3. \A k \in 0..3 : <<i, k>> \in Good => f[i + k + 1] = g[i + k + 1]
    BY <2>1, <2>2
  <2> QED BY <2>3 DEF Goes
<1>4. PICK s : s \in B
  BY TRUE \in B
<1>5. \E f \in D : Solves(f, m, body)
  <2>1. D = [1..m -> B]
    OBVIOUS
  <2> HIDE DEF body, B, D
  <2> QED BY <1>1, <1>3, <1>4, <2>1, AheadExists
<1> HIDE DEF body, Now
<1>6. \E f \in D : \A i \in 1..m : f[i] = Now(i, f)
  BY <1>2, <1>5 DEF Solves
<1> QED BY <1>6 DEF Now

\* Two scans that find the same characters agree.
LEMMA ScansAgree ==
  ASSUME NEW n \in Nat, NEW Good, \A i \in 1..n : \A k \in 0..3 : <<i, k>> \in Good => i + k <= n,
         NEW f, Scans(f, n, Good), NEW g, Scans(g, n, Good)
  PROVE  f[1] <=> g[1]
<1> DEFINE T == {i \in 1..(n + 1) : f[i] <=> g[i]}
<1>1. ASSUME NEW i \in 1..(n + 1), \A j \in (i + 1)..(n + 1) : j \in T PROVE i \in T
  <2>1. CASE i > n
    BY <2>1 DEF Scans, Goes
  <2>2. CASE i <= n
    <3>1. \A k \in 0..3 : <<i, k>> \in Good => i + k + 1 \in (i + 1)..(n + 1)
      <4>1. i \in 1..n
        BY <2>2
      <4>2. \A k \in 0..3 : <<i, k>> \in Good => i + k <= n
        BY <4>1
      <4> QED BY <4>2
    <3>2. \A k \in 0..3 : <<i, k>> \in Good => (f[i + k + 1] <=> g[i + k + 1])
      BY <1>1, <3>1
    <3>3. (f[i] <=> \E k \in 0..3 : <<i, k>> \in Good /\ f[i + k + 1])
      BY <2>2 DEF Scans, Goes
    <3>4. (g[i] <=> \E k \in 0..3 : <<i, k>> \in Good /\ g[i + k + 1])
      BY <2>2 DEF Scans, Goes
    <3> QED BY <3>2, <3>3, <3>4
  <2> QED BY <2>1, <2>2
<1> HIDE DEF T
<1>2. \A i \in 1..(n + 1) : i \in T
  BY <1>1, DownInduction
<1>3. 1 \in 1..(n + 1)
  OBVIOUS
<1> QED BY <1>2, <1>3 DEF T

\* The characters of a text, as the table has them.
Characters(text) ==
  {p \in (1..Len(text)) \X (0..3) : p[1] + p[2] <= Len(text) /\ Fits(text, p[1], p[2])}

LEMMA CharactersAre ==
  ASSUME NEW text \in Seq(Byte), NEW i \in 1..Len(text), NEW k \in 0..3
  PROVE  /\ <<i, k>> \in Characters(text) <=> Fits(text, i, k)
         /\ <<i, k>> \in Characters(text) <=> Accepts(text, i, k)
         /\ <<i, k>> \in Characters(text) => i + k <= Len(text)
<1>1. <<i, k>> \in Characters(text) <=> i + k <= Len(text) /\ Fits(text, i, k)
  BY DEF Characters
<1>2. Fits(text, i, k) => i + k <= Len(text)
  BY DEF Fits
<1> QED BY <1>1, <1>2, CharactersAgree

LEMMA ProgramScans ==
  ASSUME NEW text \in Seq(Byte)
  PROVE  \E f : Scans(f, Len(text), Characters(text)) /\ (is_valid_utf8(text) <=> f[1])
<1> DEFINE n == Len(text)
           C == Characters(text)
           Found(i, h) == LET extra == Extra(text[i])
                          IN  /\ extra >= 0
                              /\ i + extra <= Len(text)
                              /\ \A j \in (i + 1)..(i + extra) : text[j] \in Continuation
                              /\ InRange(CodePoint(text, i), extra)
                              /\ h[i + extra + 1]
           Body(h) == [i \in 1..(Len(text) + 4) |->
                        \/ i > Len(text)
                        \/ LET extra == Extra(text[i])
                           IN  /\ extra >= 0
                               /\ i + extra <= Len(text)
                               /\ \A j \in (i + 1)..(i + extra) : text[j] \in Continuation
                               /\ InRange(CodePoint(text, i), extra)
                               /\ h[i + extra + 1]]
           Now(i, h) == Goes(i, h, n, C)
           a == CHOOSE h : h = Body(h)
<1>1. n \in Nat
  OBVIOUS
<1>2. ASSUME NEW i \in 1..n, NEW h
      PROVE  Found(i, h) <=> \E k \in 0..3 : <<i, k>> \in C /\ h[i + k + 1]
  <2>1. Extra(text[i]) \in {-1, 0, 1, 2, 3}
    BY ByteIs, ExtraIs
  <2>2. Found(i, h) <=> \E k \in 0..3 : Accepts(text, i, k) /\ h[i + k + 1]
    <3>1. Extra(text[i]) >= 0 <=> Extra(text[i]) \in 0..3
      BY <2>1
    <3>2. Found(i, h) <=> /\ Extra(text[i]) >= 0 /\ Accepts(text, i, Extra(text[i]))
                          /\ h[i + Extra(text[i]) + 1]
      BY Zenon DEF Accepts
    <3>3. \A k : Accepts(text, i, k) => k = Extra(text[i])
      BY DEF Accepts
    <3> HIDE DEF Found
    <3> QED BY <3>1, <3>2, <3>3, Zenon
  <2> HIDE DEF Found, C
  <2>3. \A k \in 0..3 : Accepts(text, i, k) <=> <<i, k>> \in C
    BY CharactersAre DEF C
  <2> QED BY <2>2, <2>3, Zenon
<1>3. ASSUME NEW i \in 1..(n + 4), NEW h
      PROVE  (i > n \/ Found(i, h)) = Now(i, h)
  <2>1. i <= n => i \in 1..n
    BY <1>1
  <2>2. i > n \/ i <= n
    BY <1>1
  <2> HIDE DEF Found, C
  <2>3. (i > n \/ Found(i, h)) <=> Now(i, h)
    BY <1>2, <2>1, <2>2, Zenon DEF Goes
  <2>4. Now(i, h) \in BOOLEAN
    BY DEF Goes
  <2> HIDE DEF Now
  <2> QED BY <2>3, <2>4
<1>4. \A h : Body(h) = [i \in 1..(n + 4) |-> Now(i, h)]
  <2>1. \A h : Body(h) = [i \in 1..(n + 4) |-> i > n \/ Found(i, h)]
    BY Zenon
  <2> HIDE DEF Body, Found, Now, n
  <2> QED BY <1>3, <2>1
<1>5. \E h : h = Body(h)
  <2> HIDE DEF Body, n
  <2>1. /\ n + 4 \in Nat
        /\ \A i \in 1..(n + 4) : \A k \in 0..3 : <<i, k>> \in C => i + k + 1 \in 1..(n + 4)
    <3>1. \A i : \A k : <<i, k>> \in C => i \in 1..n /\ k \in 0..3
      BY DEF Characters, n
    <3> HIDE DEF C
    <3> QED BY <1>1, <3>1
  <2> HIDE DEF C
  <2>2. \E h \in [1..(n + 4) -> BOOLEAN] : \A i \in 1..(n + 4) : h[i] = Now(i, h)
    <3> DEFINE m == n + 4
    <3>1. m \in Nat /\ \A i \in 1..m : \A k \in 0..3 : <<i, k>> \in C => i + k + 1 \in 1..m
      BY <2>1
    <3> HIDE DEF m
    <3>2. \E h \in [1..m -> BOOLEAN] : \A i \in 1..m : h[i] = Now(i, h)
      BY <1>1, <3>1, ScanExists
    <3> QED BY <3>2 DEF m
  <2> HIDE DEF Now
  <2>3. PICK h \in [1..(n + 4) -> BOOLEAN] : \A i \in 1..(n + 4) : h[i] = Now(i, h)
    BY <2>2
  <2>4. h = [i \in 1..(n + 4) |-> Now(i, h)]
    BY <2>3
  <2> QED BY <1>4, <2>4
<1>6. a = Body(a)
  <2> HIDE DEF Body
  <2> QED BY <1>5
<1>7. is_valid_utf8(text) = a[1]
  BY DEF is_valid_utf8
<1> HIDE DEF a, Body, n, C
<1>8. \A i \in 1..(n + 1) : a[i] = Now(i, a)
  <2>1. \A i \in 1..(n + 1) : i \in 1..(n + 4)
    BY <1>1
  <2>2. a = [i \in 1..(n + 4) |-> Now(i, a)]
    BY <1>4, <1>6
  <2> HIDE DEF Now
  <2> QED BY <2>1, <2>2
<1>9. Scans(a, n, C)
  BY <1>8 DEF Scans
<1> QED BY <1>7, <1>9 DEF n, C

LEMMA TableScans ==
  ASSUME NEW text \in Seq(Byte)
  PROVE  \E f : Scans(f, Len(text), Characters(text)) /\ (IsUnicode(text) <=> f[1])
<1> DEFINE n == Len(text)
           C == Characters(text)
           Found(i, h) == \/ text[i] < 128 /\ h[i + 1]
                          \/ \E row \in WellFormed :
                               /\ text[i] \in row.lead /\ i + row.rest + 1 <= Len(text)
                               /\ text[i + 1] \in row.second
                               /\ \A j \in (i + 2)..(i + row.rest + 1) : text[j] \in 128..191
                               /\ h[i + row.rest + 2]
           Body(h) == [i \in 1..(Len(text) + 1) |->
                        \/ i > Len(text)
                        \/ text[i] < 128 /\ h[i + 1]
                        \/ \E row \in WellFormed :
                             /\ text[i] \in row.lead /\ i + row.rest + 1 <= Len(text)
                             /\ text[i + 1] \in row.second
                             /\ \A j \in (i + 2)..(i + row.rest + 1) : text[j] \in 128..191
                             /\ h[i + row.rest + 2]]
           Now(i, h) == Goes(i, h, n, C)
           a == CHOOSE h : h = Body(h)
<1>1. n \in Nat
  OBVIOUS
<1>2. ASSUME NEW i \in 1..n, NEW h
      PROVE  Found(i, h) <=> \E k \in 0..3 : <<i, k>> \in C /\ h[i + k + 1]
  <2>1. \A row \in WellFormed : row.rest \in {0, 1, 2}
    BY RowRests
  <2>2. ASSUME NEW row \in WellFormed
        PROVE  /\ row.rest + 1 \in 1..3 /\ (row.rest + 1) - 1 = row.rest
               /\ i + (row.rest + 1) = i + row.rest + 1
               /\ i + (row.rest + 1) + 1 = i + row.rest + 2
    BY <2>1
  <2>3. \A k \in 1..3 : k \in 0..3 /\ k # 0
    OBVIOUS
  <2>4. Found(i, h) => \E k \in 0..3 : Fits(text, i, k) /\ h[i + k + 1]
    <3>1. CASE text[i] < 128 /\ h[i + 1]
      <4>1. i + 0 + 1 = i + 1 /\ 0 \in 0..3
        OBVIOUS
      <4>2. Fits(text, i, 0)
        BY <3>1 DEF Fits
      <4> QED BY <3>1, <4>1, <4>2
    <3>2. ASSUME NEW row \in WellFormed,
                 text[i] \in row.lead /\ i + row.rest + 1 <= Len(text),
                 text[i + 1] \in row.second,
                 \A j \in (i + 2)..(i + row.rest + 1) : text[j] \in 128..191,
                 h[i + row.rest + 2]
          PROVE  \E k \in 0..3 : Fits(text, i, k) /\ h[i + k + 1]
      <4> DEFINE k == row.rest + 1
      <4>1. k \in 0..3 /\ k # 0
        BY <2>2, <2>3
      <4>2. BeginsRow(text[i], text[i + 1], k - 1)
        BY <2>2, <3>2, Zenon DEF BeginsRow
      <4>3. Fits(text, i, k)
        <5>1. i + k <= Len(text) /\ \A j \in (i + 2)..(i + k) : text[j] \in 128..191
          BY <2>2, <3>2, Zenon
        <5> HIDE DEF k
        <5> QED BY <4>1, <4>2, <5>1, Zenon DEF Fits
      <4>4. h[i + k + 1]
        BY <2>2, <3>2, Zenon
      <4> HIDE DEF k
      <4> QED BY <4>1, <4>3, <4>4, Zenon
    <3> QED BY <3>1, <3>2, Zenon
  <2>5. ASSUME NEW k \in 0..3, Fits(text, i, k), h[i + k + 1] PROVE Found(i, h)
    <3>1. CASE k = 0
      <4>1. text[i] < 128 /\ h[i + 1]
        <5>1. i + 0 + 1 = i + 1
          OBVIOUS
        <5> QED BY <2>5, <3>1, <5>1 DEF Fits
      <4> QED BY <4>1, Zenon
    <3>2. CASE k # 0
      <4>1. /\ BeginsRow(text[i], text[i + 1], k - 1) /\ i + k <= Len(text)
            /\ \A j \in (i + 2)..(i + k) : text[j] \in 128..191
        BY <2>5, <3>2, Zenon DEF Fits
      <4>2. PICK row \in WellFormed :
              text[i] \in row.lead /\ text[i + 1] \in row.second /\ row.rest = k - 1
        BY <4>1, Zenon DEF BeginsRow
      <4>3. i + row.rest + 1 = i + k /\ i + row.rest + 2 = i + k + 1
        BY <4>2
      <4> QED BY <2>5, <4>1, <4>2, <4>3, Zenon
    <3> QED BY <3>1, <3>2
  <2> HIDE DEF Found, C
  <2>6. \A k \in 0..3 : Fits(text, i, k) <=> <<i, k>> \in C
    BY CharactersAre DEF C
  <2> QED BY <2>4, <2>5, <2>6, Zenon
<1>3. ASSUME NEW i \in 1..(n + 1), NEW h
      PROVE  (i > n \/ Found(i, h)) = Now(i, h)
  <2>1. i <= n => i \in 1..n
    BY <1>1
  <2>2. i > n \/ i <= n
    BY <1>1
  <2> HIDE DEF Found, C
  <2>3. (i > n \/ Found(i, h)) <=> Now(i, h)
    BY <1>2, <2>1, <2>2, Zenon DEF Goes
  <2>4. Now(i, h) \in BOOLEAN
    BY DEF Goes
  <2> HIDE DEF Now
  <2> QED BY <2>3, <2>4
<1>4. \A h : Body(h) = [i \in 1..(n + 1) |-> Now(i, h)]
  <2>1. \A h : Body(h) = [i \in 1..(n + 1) |-> i > n \/ Found(i, h)]
    BY Zenon
  <2> HIDE DEF Body, Found, Now, n
  <2> QED BY <1>3, <2>1
<1>5. \E h : h = Body(h)
  <2> HIDE DEF Body, n
  <2>1. /\ n + 1 \in Nat
        /\ \A i \in 1..(n + 1) : \A k \in 0..3 : <<i, k>> \in C => i + k + 1 \in 1..(n + 1)
    <3>1. \A i : \A k : <<i, k>> \in C => i \in 1..n /\ k \in 0..3 /\ i + k <= n
      BY DEF Characters, n
    <3> HIDE DEF C
    <3> QED BY <1>1, <3>1
  <2> HIDE DEF C
  <2>2. \E h \in [1..(n + 1) -> BOOLEAN] : \A i \in 1..(n + 1) : h[i] = Now(i, h)
    <3> DEFINE m == n + 1
    <3>1. m \in Nat /\ \A i \in 1..m : \A k \in 0..3 : <<i, k>> \in C => i + k + 1 \in 1..m
      BY <2>1
    <3> HIDE DEF m
    <3>2. \E h \in [1..m -> BOOLEAN] : \A i \in 1..m : h[i] = Now(i, h)
      BY <1>1, <3>1, ScanExists
    <3> QED BY <3>2 DEF m
  <2> HIDE DEF Now
  <2>3. PICK h \in [1..(n + 1) -> BOOLEAN] : \A i \in 1..(n + 1) : h[i] = Now(i, h)
    BY <2>2
  <2>4. h = [i \in 1..(n + 1) |-> Now(i, h)]
    BY <2>3
  <2> QED BY <1>4, <2>4
<1>6. a = Body(a)
  <2> HIDE DEF Body
  <2> QED BY <1>5
<1>7. IsUnicode(text) = a[1]
  BY DEF IsUnicode
<1> HIDE DEF a, Body, n, C
<1>8. \A i \in 1..(n + 1) : a[i] = Now(i, a)
  <2>1. a = [i \in 1..(n + 1) |-> Now(i, a)]
    BY <1>4, <1>6
  <2> HIDE DEF Now
  <2> QED BY <2>1
<1>9. Scans(a, n, C)
  BY <1>8 DEF Scans
<1> QED BY <1>7, <1>9 DEF n, C

\* Exactly the texts of the table are accepted.
LEMMA UnicodeIsAccepted ==
  ASSUME NEW text \in Seq(Byte)
  PROVE  is_valid_utf8(text) <=> IsUnicode(text)
<1>1. Len(text) \in Nat
  OBVIOUS
<1>2. \A i \in 1..Len(text) : \A k \in 0..3 : <<i, k>> \in Characters(text) => i + k <= Len(text)
  BY CharactersAre
<1>3. PICK f : Scans(f, Len(text), Characters(text)) /\ (is_valid_utf8(text) <=> f[1])
  BY ProgramScans
<1>4. PICK g : Scans(g, Len(text), Characters(text)) /\ (IsUnicode(text) <=> g[1])
  BY TableScans
<1>5. f[1] <=> g[1]
  BY <1>1, <1>2, <1>3, <1>4, ScansAgree
<1> QED BY <1>3, <1>4, <1>5

-----------------------------------------------------------------------------
(* Escaping and reading back, for texts of any length.                     *)

\* What may stand in SSML content.
Safe == Int \ {Less, Greater}

LEMMA EntitiesAre ==
  /\ Entity.amp = <<38, 97, 109, 112, 59>> /\ Entity.lt = <<38, 108, 116, 59>>
  /\ Entity.gt = <<38, 103, 116, 59>> /\ Entity.quot = <<38, 113, 117, 111, 116, 59>>
  /\ Entity.apos = <<38, 97, 112, 111, 115, 59>>
  BY DEF Entity

\* What is written for a byte is the byte or an entity that stands for it.
LEMMA PlainByte ==
  ASSUME NEW b \in Int, b \notin {Ampersand, Less, Greater}
  PROVE  EscapedByte(b) = <<b>> /\ EscapedByte(b) \in Seq(Safe) /\ Len(EscapedByte(b)) = 1
<1>1. EscapedByte(b) = <<b>>
  BY DEF EscapedByte
<1>2. b \in Safe
  BY DEF Safe
<1> QED BY <1>1, <1>2

\* e is an entity for b.
StandsFor(e, b) ==
  /\ e \in Seq(Safe) /\ Len(e) \in 4..5
  /\ e[1] = Ampersand /\ e[Len(e)] = Semicolon
  /\ \A j \in 2..(Len(e) - 1) : e[j] # Semicolon
  /\ Decoded(e) = <<b>>

LEMMA DecodedIs ==
  /\ Decoded(Entity.amp) = <<Ampersand>>
  /\ Decoded(Entity.lt) = <<Less>>
  /\ Decoded(Entity.gt) = <<Greater>>
<1> DEFINE A == Entity.amp
           L == Entity.lt
           G == Entity.gt
           Q == Entity.quot
           P == Entity.apos
<1>1. A[2] = 97 /\ L[2] = 108 /\ G[2] = 103 /\ Q[2] = 113 /\ P[2] = 97 /\ A[3] = 109 /\ P[3] = 112
  BY EntitiesAre
<1>2. A # L /\ A # G /\ A # Q /\ A # P /\ L # G /\ L # Q /\ L # P /\ G # Q /\ G # P
  <2> HIDE DEF A, L, G, Q, P
  <2> QED BY <1>1
<1>3. \A e : Decoded(e) = CASE e = A -> <<Ampersand>> [] e = L -> <<Less>> [] e = G -> <<Greater>>
                            [] e = Q -> <<34>> [] e = P -> <<39>> [] OTHER -> e
  BY DEF Decoded
<1> HIDE DEF A, L, G, Q, P
<1>4. Decoded(A) = <<Ampersand>>
  BY <1>2, <1>3
<1>5. Decoded(L) = <<Less>>
  BY <1>2, <1>3
<1>6. Decoded(G) = <<Greater>>
  BY <1>2, <1>3
<1> QED BY <1>4, <1>5, <1>6 DEF A, L, G

LEMMA MarkupByte ==
  ASSUME NEW b \in {Ampersand, Less, Greater}
  PROVE  StandsFor(EscapedByte(b), b)
<1>1. 38 \in Safe /\ 97 \in Safe /\ 109 \in Safe /\ 112 \in Safe /\ 59 \in Safe
      /\ 108 \in Safe /\ 116 \in Safe /\ 103 \in Safe
  BY DEF Safe, Less, Greater
<1>2. CASE b = Ampersand
  <2> DEFINE e == <<38, 97, 109, 112, 59>>
  <2>1. EscapedByte(b) = Entity.amp
    BY <1>2 DEF EscapedByte, Ampersand, Less, Greater
  <2>2. /\ e \in Seq(Safe) /\ Len(e) = 5 /\ e[1] = 38 /\ e[5] = 59
        /\ e[2] # 59 /\ e[3] # 59 /\ e[4] # 59
    BY <1>1
  <2>3. EscapedByte(b) = e /\ Decoded(e) = <<b>>
    BY <1>2, <2>1, EntitiesAre, DecodedIs
  <2> HIDE DEF e
  <2>4. \A j \in 2..(Len(e) - 1) : e[j] # Semicolon
    <3>1. 2..(Len(e) - 1) = {2, 3, 4}
      BY <2>2
    <3> QED BY <2>2, <3>1 DEF Semicolon
  <2>5. Len(e) \in 4..5 /\ e[1] = Ampersand /\ e[Len(e)] = Semicolon
    BY <2>2 DEF Ampersand, Semicolon
  <2> QED BY <2>2, <2>3, <2>4, <2>5 DEF StandsFor
<1>3. CASE b = Less
  <2> DEFINE e == <<38, 108, 116, 59>>
  <2>1. EscapedByte(b) = Entity.lt
    BY <1>3 DEF EscapedByte, Ampersand, Less, Greater
  <2>2. e \in Seq(Safe) /\ Len(e) = 4 /\ e[1] = 38 /\ e[4] = 59 /\ e[2] # 59 /\ e[3] # 59
    BY <1>1
  <2>3. EscapedByte(b) = e /\ Decoded(e) = <<b>>
    BY <1>3, <2>1, EntitiesAre, DecodedIs
  <2> HIDE DEF e
  <2>4. \A j \in 2..(Len(e) - 1) : e[j] # Semicolon
    <3>1. 2..(Len(e) - 1) = {2, 3}
      BY <2>2
    <3> QED BY <2>2, <3>1 DEF Semicolon
  <2>5. Len(e) \in 4..5 /\ e[1] = Ampersand /\ e[Len(e)] = Semicolon
    BY <2>2 DEF Ampersand, Semicolon
  <2> QED BY <2>2, <2>3, <2>4, <2>5 DEF StandsFor
<1>4. CASE b = Greater
  <2> DEFINE e == <<38, 103, 116, 59>>
  <2>1. EscapedByte(b) = Entity.gt
    BY <1>4 DEF EscapedByte, Ampersand, Less, Greater
  <2>2. e \in Seq(Safe) /\ Len(e) = 4 /\ e[1] = 38 /\ e[4] = 59 /\ e[2] # 59 /\ e[3] # 59
    BY <1>1
  <2>3. EscapedByte(b) = e /\ Decoded(e) = <<b>>
    BY <1>4, <2>1, EntitiesAre, DecodedIs
  <2> HIDE DEF e
  <2>4. \A j \in 2..(Len(e) - 1) : e[j] # Semicolon
    <3>1. 2..(Len(e) - 1) = {2, 3}
      BY <2>2
    <3> QED BY <2>2, <3>1 DEF Semicolon
  <2>5. Len(e) \in 4..5 /\ e[1] = Ampersand /\ e[Len(e)] = Semicolon
    BY <2>2 DEF Ampersand, Semicolon
  <2> QED BY <2>2, <2>3, <2>4, <2>5 DEF StandsFor
<1> QED BY <1>2, <1>3, <1>4

LEMMA PieceIsSafe ==
  ASSUME NEW b \in Int
  PROVE  EscapedByte(b) \in Seq(Safe)
  BY PlainByte, MarkupByte DEF StandsFor

\* out holds what has been written after every byte.
Escapes(out, text) ==
  /\ \A k \in 0..Len(text) : out[k] \in Seq(Safe)
  /\ out[0] = <<>>
  /\ \A k \in 0..(Len(text) - 1) : out[k + 1] = out[k] \o EscapedByte(text[k + 1])

LEMMA EscapeRounds ==
  ASSUME NEW text \in Seq(Int)
  PROVE  \E out : Escapes(out, text) /\ xml_escape(text) = out[Len(text)]
<1> DEFINE D == Seq(Safe)
           N == Len(text)
           After(k, s) == s \o EscapedByte(text[k + 1])
           step == [p \in (0..(N - 1)) \X D |-> After(p[1], p[2])]
<1>0. \A k \in 0..(N - 1) : EscapedByte(text[k + 1]) \in D
  <2>1. \A k \in 0..(N - 1) : text[k + 1] \in Int
    OBVIOUS
  <2> QED BY <2>1, PieceIsSafe
<1>1. step \in [(0..(N - 1)) \X D -> D]
  <2>1. ASSUME NEW k \in 0..(N - 1), NEW s \in D PROVE After(k, s) \in D
    BY <1>0
  <2> HIDE DEF D, After
  <2> QED BY <2>1
<1>2. <<>> \in D /\ N \in Nat
  OBVIOUS
<1>3. PICK g \in [0..N -> D] : Runs(g, N, <<>>, step)
  <2> HIDE DEF step, D, N
  <2> QED BY <1>1, <1>2, RunExists
<1>4. ASSUME NEW k \in 0..(N - 1) PROVE g[k + 1] = After(k, g[k])
  <2>1. k \in 0..N /\ g[k] \in D
    BY <1>2
  <2>2. g[k + 1] = step[<<k, g[k]>>]
    BY <1>3 DEF Runs
  <2>3. step[<<k, g[k]>>] = After(k, g[k])
    <3> HIDE DEF D, After
    <3> QED BY <2>1
  <2> QED BY <2>2, <2>3
<1>5. g[0] = <<>>
  BY <1>3 DEF Runs
<1> DEFINE Body(h) == [i \in 0..Len(text) |->
                         IF i = 0 THEN <<>> ELSE h[i - 1] \o EscapedByte(text[i])]
<1>6. \E h : h = Body(h)
  <2>1. ASSUME NEW i \in 0..N
        PROVE  g[i] = IF i = 0 THEN <<>> ELSE g[i - 1] \o EscapedByte(text[i])
    <3>1. CASE i = 0
      BY <1>5, <3>1
    <3>2. CASE i # 0
      <4>1. i - 1 \in 0..(N - 1) /\ (i - 1) + 1 = i
        BY <1>2, <3>2
      <4>2. g[i] = After(i - 1, g[i - 1])
        BY <1>4, <4>1
      <4> QED BY <3>2, <4>1, <4>2
    <3> QED BY <3>1, <3>2
  <2>2. g = [i \in 0..N |-> g[i]]
    OBVIOUS
  <2>3. g = Body(g)
    BY <2>1, <2>2
  <2> QED BY <2>3
<1> DEFINE a == CHOOSE h : h = Body(h)
<1>7. a = Body(a)
  <2> HIDE DEF Body
  <2> QED BY <1>6
<1>8. xml_escape(text) = a[Len(text)]
  BY DEF xml_escape
<1> HIDE DEF a
<1>9. a[0] = <<>>
  BY <1>2, <1>7
<1>10. \A k \in 0..(N - 1) : a[k + 1] = After(k, a[k])
  <2>1. SUFFICES ASSUME NEW k \in 0..(N - 1) PROVE a[k + 1] = After(k, a[k])
    OBVIOUS
  <2>2. k + 1 \in 0..N /\ k + 1 # 0 /\ (k + 1) - 1 = k
    BY <1>2
  <2> QED BY <1>7, <2>2
<1>11. \A k \in 0..N : a[k] \in D
  <2> DEFINE S == {i \in Nat : i <= N => a[i] \in D}
  <2>1. 0 \in S
    BY <1>9, <1>2
  <2>2. ASSUME NEW k \in Nat, k \in S PROVE k + 1 \in S
    <3>1. SUFFICES ASSUME k + 1 <= N PROVE a[k + 1] \in D
      OBVIOUS
    <3>2. k \in 0..(N - 1) /\ a[k] \in D
      BY <1>2, <2>2, <3>1
    <3>3. a[k + 1] = After(k, a[k])
      BY <1>10, <3>2
    <3>4. After(k, a[k]) \in D
      BY <1>0, <3>2
    <3> QED BY <3>3, <3>4
  <2> HIDE DEF S
  <2>3. \A k \in Nat : k \in S
    BY <2>1, <2>2, Induction
  <2> QED BY <1>2, <2>3 DEF S
<1> QED BY <1>8, <1>9, <1>10, <1>11 DEF Escapes

\* What has been written stays.
LEMMA WrittenStays ==
  ASSUME NEW text \in Seq(Int), NEW out, Escapes(out, text), NEW k \in 0..Len(text)
  PROVE  \A m \in k..Len(text) : /\ Len(out[k]) <= Len(out[m])
                                 /\ \A j \in 1..Len(out[k]) : out[m][j] = out[k][j]
<1> DEFINE N == Len(text)
           Held(m) == /\ Len(out[k]) <= Len(out[m])
                      /\ \A j \in 1..Len(out[k]) : out[m][j] = out[k][j]
           S == {m \in Nat : m >= k /\ m <= N => Held(m)}
<1>1. N \in Nat /\ k \in Nat /\ out[k] \in Seq(Safe) /\ Len(out[k]) \in Nat
  BY DEF Escapes
<1>2. 0 \in S
  <2>1. k = 0 => Held(0)
    BY <1>1
  <2> HIDE DEF Held
  <2> QED BY <1>1, <2>1
<1>3. ASSUME NEW m \in Nat, m \in S PROVE m + 1 \in S
  <2>1. SUFFICES ASSUME m + 1 >= k, m + 1 <= N PROVE Held(m + 1)
    OBVIOUS
  <2>2. CASE m + 1 = k
    BY <1>1, <2>2
  <2>3. CASE m + 1 # k
    <3>1. m >= k /\ m <= N /\ m \in 0..(N - 1) /\ m \in 0..N
      BY <1>1, <2>1, <2>3
    <3>2. Held(m)
      BY <1>3, <3>1
    <3>3. out[m] \in Seq(Safe) /\ out[m + 1] = out[m] \o EscapedByte(text[m + 1])
      BY <3>1 DEF Escapes
    <3>4. EscapedByte(text[m + 1]) \in Seq(Safe)
      <4>1. text[m + 1] \in Int
        BY <3>1
      <4> QED BY <4>1, PieceIsSafe
    <3> DEFINE x == out[m]
               y == EscapedByte(text[m + 1])
    <3> HIDE DEF x, y
    <3>5. x \in Seq(Safe) /\ y \in Seq(Safe)
      BY <3>3, <3>4 DEF x, y
    <3>6. Len(x) <= Len(x \o y) /\ \A j \in 1..Len(x) : (x \o y)[j] = x[j]
      BY <3>5
    <3>7. Len(x) \in Nat /\ Len(x \o y) \in Nat
      BY <3>5
    <3>8. out[m + 1] = x \o y /\ out[m] = x
      BY <3>3 DEF x, y
    <3>9. Len(out[k]) <= Len(x) /\ \A j \in 1..Len(out[k]) : x[j] = out[k][j]
      BY <3>2, <3>8
    <3>10. \A j \in 1..Len(out[k]) : j \in 1..Len(x)
      BY <1>1, <3>7, <3>9
    <3> QED BY <1>1, <3>6, <3>7, <3>8, <3>9, <3>10
  <2> QED BY <2>2, <2>3
<1> HIDE DEF S
<1>4. \A m \in Nat : m \in S
  BY <1>2, <1>3, Induction
<1> QED BY <1>1, <1>4 DEF S

\* Where what is written for every byte ends.
Lies(pos, content, text) ==
  /\ pos[0] = 0 /\ \A k \in 0..Len(text) : pos[k] \in Nat
  /\ Len(content) = pos[Len(text)]
  /\ \A k \in 0..(Len(text) - 1) :
       LET e == EscapedByte(text[k + 1])
       IN  /\ pos[k + 1] = pos[k] + Len(e) /\ pos[k + 1] <= Len(content)
           /\ \A j \in 1..Len(e) : content[pos[k] + j] = e[j]

LEMMA EscapeLays ==
  ASSUME NEW text \in Seq(Int)
  PROVE  xml_escape(text) \in Seq(Safe) /\ \E pos : Lies(pos, xml_escape(text), text)
<1>1. PICK out : Escapes(out, text) /\ xml_escape(text) = out[Len(text)]
  BY EscapeRounds
<1> DEFINE N == Len(text)
           content == out[Len(text)]
           pos == [k \in 0..N |-> Len(out[k])]
<1>2. N \in Nat /\ \A k \in 0..N : out[k] \in Seq(Safe) /\ pos[k] = Len(out[k]) /\ pos[k] \in Nat
  <2>1. N \in Nat /\ \A k \in 0..N : out[k] \in Seq(Safe) /\ pos[k] = Len(out[k])
    BY <1>1 DEF Escapes
  <2> HIDE DEF pos
  <2> QED BY <2>1
<1>3. content \in Seq(Safe) /\ Len(content) = pos[N] /\ pos[0] = 0
  <2>1. 0 \in 0..N /\ N \in 0..N
    BY <1>2
  <2>2. out[0] = <<>>
    BY <1>1 DEF Escapes
  <2> HIDE DEF pos
  <2> QED BY <1>2, <2>1, <2>2
<1> HIDE DEF pos
<1>4. ASSUME NEW k \in 0..(N - 1), NEW e, e = EscapedByte(text[k + 1])
      PROVE  /\ pos[k + 1] = pos[k] + Len(e) /\ pos[k + 1] <= Len(content)
             /\ \A j \in 1..Len(e) : content[pos[k] + j] = e[j]
  <2>1. k \in 0..N /\ k + 1 \in 0..N /\ N \in (k + 1)..N
    BY <1>2
  <2>2. out[k + 1] = out[k] \o e
    BY <1>1, <1>4 DEF Escapes
  <2>3. e \in Seq(Safe)
    <3>1. text[k + 1] \in Int
      OBVIOUS
    <3> QED BY <1>4, <3>1, PieceIsSafe
  <2>4. out[k] \in Seq(Safe) /\ pos[k] = Len(out[k]) /\ pos[k + 1] = Len(out[k + 1])
    BY <1>2, <2>1
  <2>5. /\ Len(out[k + 1]) <= Len(content)
        /\ \A j \in 1..Len(out[k + 1]) : content[j] = out[k + 1][j]
    BY <1>1, <2>1, WrittenStays
  <2> DEFINE x == out[k]
  <2> HIDE DEF x
  <2>6. x \in Seq(Safe) /\ out[k + 1] = x \o e /\ pos[k] = Len(x)
    BY <2>2, <2>4 DEF x
  <2>7. Len(x \o e) = Len(x) + Len(e) /\ \A j \in 1..Len(e) : (x \o e)[Len(x) + j] = e[j]
    BY <2>3, <2>6
  <2>8. \A j \in 1..Len(e) : Len(x) + j \in 1..Len(x \o e)
    BY <2>3, <2>6, <2>7
  <2> HIDE DEF content
  <2> QED BY <2>4, <2>5, <2>6, <2>7, <2>8
<1>5. Lies(pos, content, text)
  BY <1>2, <1>3, <1>4 DEF Lies
<1> QED BY <1>1, <1>3, <1>5

\* A set of numbers that is not empty has a smallest one.
LEMMA SmallestExists ==
  ASSUME NEW X, X \subseteq Nat, NEW x \in X
  PROVE  \E j \in X : \A k \in X : j <= k
<1>1. PICK j \in X : \A i \in X : <<i, j>> \notin OpToRel(<, Nat)
  BY NatLessThanWellFounded, WFMin, Zenon
<1>2. ASSUME NEW k \in X PROVE j <= k
  <2>1. j \in Nat /\ k \in Nat
    OBVIOUS
  <2>2. ~(k < j)
    BY <1>1, <2>1 DEF OpToRel
  <2> QED BY <2>1, <2>2
<1> QED BY <1>2

LEMMA EndIsInside ==
  ASSUME NEW text \in Seq(Int), NEW i \in 1..Len(text)
  PROVE  EndOfEntity(text, i) = 0 \/ EndOfEntity(text, i) \in (i + 1)..Len(text)
<1> DEFINE found == {j \in (i + 1)..Len(text) : text[j] = Semicolon}
           end == CHOOSE j \in found : \A k \in found : j <= k
<1>1. CASE ~(text[i] = Ampersand /\ \E j \in found : j - i <= 8)
  BY <1>1 DEF EndOfEntity
<1>2. CASE text[i] = Ampersand /\ \E j \in found : j - i <= 8
  <2>1. EndOfEntity(text, i) = end
    BY <1>2 DEF EndOfEntity
  <2>2. found \subseteq Nat /\ \E x \in found : TRUE
    BY <1>2
  <2>3. \E j \in found : \A k \in found : j <= k
    <3> HIDE DEF found
    <3> QED BY <2>2, SmallestExists
  <2>4. end \in found
    <3> HIDE DEF found
    <3> QED BY <2>3
  <2> HIDE DEF end
  <2> QED BY <2>1, <2>4
<1> QED BY <1>1, <1>2

LEMMA NoEntity ==
  ASSUME NEW text, NEW i, text[i] # Ampersand
  PROVE  EndOfEntity(text, i) = 0
  BY DEF EndOfEntity

LEMMA EndIsFirst ==
  ASSUME NEW text \in Seq(Int), NEW i \in 1..Len(text), NEW m \in (i + 1)..Len(text),
         text[i] = Ampersand, text[m] = Semicolon, m - i <= 8,
         \A j \in (i + 1)..(m - 1) : text[j] # Semicolon
  PROVE  EndOfEntity(text, i) = m
<1> DEFINE found == {j \in (i + 1)..Len(text) : text[j] = Semicolon}
           end == CHOOSE j \in found : \A k \in found : j <= k
<1>1. m \in found
  OBVIOUS
<1>2. EndOfEntity(text, i) = end
  <2>1. \E j \in found : j - i <= 8
    BY <1>1
  <2> QED BY <2>1 DEF EndOfEntity
<1>3. \A k \in found : m <= k /\ k \in Nat
  <2>1. SUFFICES ASSUME NEW k \in found, ~(m <= k) PROVE FALSE
    OBVIOUS
  <2>2. k \in (i + 1)..(m - 1) /\ text[k] = Semicolon
    BY <2>1
  <2> QED BY <2>2
<1>4. end \in found /\ \A k \in found : end <= k
  <2> HIDE DEF found
  <2> QED BY <1>1, <1>3
<1> HIDE DEF end, found
<1>5. end <= m /\ m <= end /\ end \in Nat /\ m \in Nat
  BY <1>1, <1>3, <1>4
<1> QED BY <1>2, <1>5

LEMMA DecodedType ==
  ASSUME NEW e \in Seq(Int)
  PROVE  Decoded(e) \in Seq(Int)
<1> DEFINE one(c) == <<c>>
<1>1. one(Ampersand) \in Seq(Int) /\ one(Less) \in Seq(Int) /\ one(Greater) \in Seq(Int)
      /\ one(34) \in Seq(Int) /\ one(39) \in Seq(Int)
  BY DEF Ampersand, Less, Greater
<1>2. Decoded(e) \in {one(Ampersand), one(Less), one(Greater), one(34), one(39), e}
  <2>1. CASE e \notin {Entity.amp, Entity.lt, Entity.gt, Entity.quot, Entity.apos}
    BY <2>1 DEF Decoded
  <2>2. CASE e \in {Entity.amp, Entity.lt, Entity.gt, Entity.quot, Entity.apos}
    BY <2>2 DEF Decoded
  <2> QED BY <2>1, <2>2
<1> QED BY <1>1, <1>2

LEMMA SubSeqIs ==
  ASSUME NEW s \in Seq(Int), NEW e \in Seq(Int), NEW i \in 1..Len(s), Len(e) >= 1,
         i + Len(e) - 1 <= Len(s), \A j \in 1..Len(e) : s[i + j - 1] = e[j]
  PROVE  SubSeq(s, i, i + Len(e) - 1) = e
<1> DEFINE u == SubSeq(s, i, i + Len(e) - 1)
<1>1. u \in Seq(Int) /\ Len(u) = Len(e) /\ \A j \in 1..Len(e) : u[j] = s[i + j - 1]
  OBVIOUS
<1> HIDE DEF u
<1>2. u = [j \in 1..Len(e) |-> u[j]]
  BY <1>1
<1>3. e = [j \in 1..Len(e) |-> e[j]]
  OBVIOUS
<1>4. \A j \in 1..Len(e) : u[j] = e[j]
  BY <1>1
<1> QED BY <1>2, <1>3, <1>4 DEF u

\* f holds what is read from every place on.
Reads(f, text) ==
  \A i \in 1..(Len(text) + 1) :
    f[i] = IF i > Len(text) THEN <<>>
           ELSE LET end == EndOfEntity(text, i)
                IN  IF end = 0 THEN <<text[i]>> \o f[i + 1]
                    ELSE Decoded(SubSeq(text, i, end)) \o f[end + 1]

\* One step of it.
Reading(text, i, f) ==
  IF i > Len(text) THEN <<>>
  ELSE LET end == EndOfEntity(text, i)
       IN  IF end = 0 THEN <<text[i]>> \o f[i + 1]
           ELSE Decoded(SubSeq(text, i, end)) \o f[end + 1]

LEMMA ReadingType ==
  ASSUME NEW text \in Seq(Int), NEW i \in 1..(Len(text) + 1),
         NEW f \in [1..(Len(text) + 1) -> Seq(Int)]
  PROVE  Reading(text, i, f) \in Seq(Int)
<1>1. CASE i > Len(text)
  BY <1>1 DEF Reading
<1>2. CASE i <= Len(text)
  <2>1. i \in 1..Len(text) /\ Len(text) \in Nat
    BY <1>2
  <2>2. CASE EndOfEntity(text, i) = 0
    <3>1. Reading(text, i, f) = <<text[i]>> \o f[i + 1]
      BY <1>2, <2>1, <2>2 DEF Reading
    <3>2. text[i] \in Int
      BY <2>1
    <3>3. f[i + 1] \in Seq(Int)
      <4>1. i + 1 \in 1..(Len(text) + 1)
        BY <2>1
      <4> DEFINE S == Seq(Int)
      <4>2. f \in [1..(Len(text) + 1) -> S]
        OBVIOUS
      <4> HIDE DEF S
      <4>3. f[i + 1] \in S
        BY <4>1, <4>2
      <4> QED BY <4>3 DEF S
    <3> QED BY <3>1, <3>2, <3>3
  <2>3. CASE EndOfEntity(text, i) # 0
    <3> DEFINE end == EndOfEntity(text, i)
    <3>1. end \in (i + 1)..Len(text)
      BY <2>1, <2>3, EndIsInside
    <3>2. Reading(text, i, f) = Decoded(SubSeq(text, i, end)) \o f[end + 1]
      <4>1. ~(i > Len(text))
        BY <1>2, <2>1
      <4> QED BY <2>3, <4>1, Zenon DEF Reading
    <3> HIDE DEF end
    <3>3. f[end + 1] \in Seq(Int)
      <4>1. end + 1 \in 1..(Len(text) + 1)
        BY <2>1, <3>1
      <4> DEFINE S == Seq(Int)
      <4>2. f \in [1..(Len(text) + 1) -> S]
        OBVIOUS
      <4> HIDE DEF S
      <4>3. f[end + 1] \in S
        BY <4>1, <4>2
      <4> QED BY <4>3 DEF S
    <3>4. SubSeq(text, i, end) \in Seq(Int)
      <4>1. \A j \in i..end : text[j] \in Int
        BY <2>1, <3>1
      <4> QED BY <2>1, <3>1, <4>1
    <3>5. Decoded(SubSeq(text, i, end)) \in Seq(Int)
      BY <3>4, DecodedType
    <3> DEFINE x == Decoded(SubSeq(text, i, end))
               y == f[end + 1]
    <3> HIDE DEF x, y
    <3>6. x \o y \in Seq(Int)
      BY <3>3, <3>5 DEF x, y
    <3> QED BY <3>2, <3>6 DEF x, y
  <2> QED BY <2>2, <2>3
<1> QED BY <1>1, <1>2

LEMMA ReadingAhead ==
  ASSUME NEW text \in Seq(Int), NEW i \in 1..(Len(text) + 1), NEW f, NEW g,
         \A j \in (i + 1)..(Len(text) + 1) : f[j] = g[j]
  PROVE  Reading(text, i, f) = Reading(text, i, g)
<1>1. CASE i > Len(text)
  BY <1>1 DEF Reading
<1>2. CASE i <= Len(text)
  <2>1. i \in 1..Len(text) /\ Len(text) \in Nat
    BY <1>2
  <2>2. CASE EndOfEntity(text, i) = 0
    <3>1. f[i + 1] = g[i + 1]
      BY <2>1
    <3> QED BY <1>2, <2>1, <2>2, <3>1 DEF Reading
  <2>3. CASE EndOfEntity(text, i) # 0
    <3>1. EndOfEntity(text, i) \in (i + 1)..Len(text)
      BY <2>1, <2>3, EndIsInside
    <3>2. f[EndOfEntity(text, i) + 1] = g[EndOfEntity(text, i) + 1]
      BY <2>1, <3>1
    <3> QED BY <1>2, <2>1, <2>3, <3>2 DEF Reading
  <2> QED BY <2>2, <2>3
<1> QED BY <1>1, <1>2

LEMMA UnescapeReads ==
  ASSUME NEW text \in Seq(Int)
  PROVE  \E f : /\ \A i \in 1..(Len(text) + 1) : f[i] = Reading(text, i, f)
                /\ xml_unescape(text) = f[1]
<1> DEFINE m == Len(text) + 1
           S == Seq(Int)
           D == [1..m -> S]
           body == [p \in (1..m) \X D |-> Reading(text, p[1], p[2])]
           Body(h) == [i \in 1..(Len(text) + 1) |->
                         IF i > Len(text) THEN <<>>
                         ELSE LET end == EndOfEntity(text, i)
                              IN  IF end = 0 THEN <<text[i]>> \o h[i + 1]
                                  ELSE Decoded(SubSeq(text, i, end)) \o h[end + 1]]
           a == CHOOSE h : h = Body(h)
<1>1. m \in Nat /\ <<>> \in S /\ D = [1..m -> S] /\ 1 \in 1..m
  OBVIOUS
<1>2. body \in [(1..m) \X D -> S]
  <2>1. \A i \in 1..m : \A f \in D : Reading(text, i, f) \in S
    BY ReadingType
  <2> HIDE DEF D, S, m
  <2> QED BY <2>1
<1>3. \A i \in 1..m : \A f \in D : body[<<i, f>>] = Reading(text, i, f)
  <2> HIDE DEF D, m
  <2> QED OBVIOUS
<1>4. LooksAhead(m, D, body)
  <2>1. \A i \in 1..m : \A f \in D : \A g \in D :
          (\A j \in (i + 1)..m : f[j] = g[j]) => Reading(text, i, f) = Reading(text, i, g)
    BY ReadingAhead
  <2> HIDE DEF D, m, body
  <2> QED BY <1>3, <2>1 DEF LooksAhead
<1>5. \E f \in D : Solves(f, m, body)
  <2> HIDE DEF D, S, m, body
  <2> QED BY <1>1, <1>2, <1>4, AheadExists
<1>6. \A h : Body(h) = [i \in 1..m |-> Reading(text, i, h)]
  BY Zenon DEF Reading
<1>7. \E h : h = Body(h)
  <2>1. PICK f \in D : Solves(f, m, body)
    BY <1>5
  <2> HIDE DEF body, Body
  <2>2. \A i \in 1..m : f[i] = Reading(text, i, f)
    BY <1>3, <2>1 DEF Solves
  <2> HIDE DEF m
  <2>3. f = [i \in 1..m |-> Reading(text, i, f)]
    BY <2>2
  <2> QED BY <1>6, <2>3
<1>8. a = Body(a)
  <2> HIDE DEF Body
  <2> QED BY <1>7
<1>9. xml_unescape(text) = a[1]
  BY DEF xml_unescape
<1> HIDE DEF a, Body
<1>10. \A i \in 1..m : a[i] = Reading(text, i, a)
  <2>1. a = [i \in 1..m |-> Reading(text, i, a)]
    BY <1>6, <1>8
  <2> HIDE DEF m
  <2> QED BY <2>1
<1> QED BY <1>9, <1>10

\* What is left to read after k bytes.
IsRest(s, text, k) ==
  /\ s \in Seq(Int) /\ Len(s) = Len(text) - k
  /\ \A j \in 1..(Len(text) - k) : s[j] = text[k + j]

LEMMA RestGrows ==
  ASSUME NEW text \in Seq(Int), NEW k \in 0..(Len(text) - 1), NEW s, IsRest(s, text, k + 1),
         NEW r, r = <<text[k + 1]>> \o s
  PROVE  IsRest(r, text, k)
<1> DEFINE b == text[k + 1]
           one == <<b>>
<1>1. b \in Int /\ s \in Seq(Int) /\ Len(s) = Len(text) - (k + 1) /\ Len(text) \in Nat
  BY DEF IsRest
<1>2. one \in Seq(Int) /\ Len(one) = 1 /\ one[1] = b
  BY <1>1
<1> HIDE DEF one
<1>3. r \in Seq(Int) /\ Len(r) = Len(s) + 1 /\ r[1] = b /\ \A j \in 1..Len(s) : r[j + 1] = s[j]
  <2>1. r = one \o s
    BY DEF one
  <2> QED BY <1>1, <1>2, <2>1
<1>4. ASSUME NEW j \in 1..(Len(text) - k) PROVE r[j] = text[k + j]
  <2>1. CASE j = 1
    BY <1>3, <2>1
  <2>2. CASE j # 1
    <3>1. j - 1 \in 1..Len(s) /\ (j - 1) + 1 = j /\ (k + 1) + (j - 1) = k + j
      BY <1>1, <2>2
    <3>2. r[j] = s[j - 1]
      BY <1>3, <3>1
    <3>3. s[j - 1] = text[(k + 1) + (j - 1)]
      BY <1>1, <3>1 DEF IsRest
    <3> QED BY <3>1, <3>2, <3>3
  <2> QED BY <2>1, <2>2
<1> QED BY <1>1, <1>3, <1>4 DEF IsRest

\* Where something was written for a byte, that byte is read.
LEMMA ByteReadsBack ==
  ASSUME NEW text \in Seq(Int), NEW content \in Seq(Safe), NEW pos, Lies(pos, content, text),
         NEW f, \A i \in 1..(Len(content) + 1) : f[i] = Reading(content, i, f),
         NEW k \in 0..(Len(text) - 1)
  PROVE  f[pos[k] + 1] = <<text[k + 1]>> \o f[pos[k + 1] + 1]
<1> DEFINE b == text[k + 1]
           e == EscapedByte(b)
           p == pos[k]
           i == p + 1
<1>1. /\ b \in Int /\ p \in Nat /\ pos[k + 1] = p + Len(e) /\ p + Len(e) <= Len(content)
      /\ \A j \in 1..Len(e) : content[p + j] = e[j]
      /\ Len(content) \in Nat
  <2>1. k \in 0..Len(text) /\ k + 1 \in 0..Len(text)
    OBVIOUS
  <2> QED BY <2>1 DEF Lies
<1>2. content \in Seq(Int)
  BY DEF Safe
<1>3. CASE b \notin {Ampersand, Less, Greater}
  <2>1. e = <<b>> /\ Len(e) = 1
    BY <1>1, <1>3, PlainByte
  <2>2. i \in 1..Len(content) /\ content[i] = b
    <3>1. e[1] = b /\ 1 \in 1..Len(e)
      BY <2>1
    <3> HIDE DEF e
    <3>2. content[p + 1] = b
      BY <1>1, <3>1
    <3> QED BY <1>1, <2>1, <3>2
  <2>3. EndOfEntity(content, i) = 0
    BY <1>3, <2>2, NoEntity
  <2> HIDE DEF e, b
  <2>4. f[i] = <<b>> \o f[i + 1]
    <3>1. f[i] = Reading(content, i, f)
      BY <1>1, <2>2
    <3>2. ~(i > Len(content))
      BY <1>1, <2>2
    <3> HIDE DEF i
    <3> QED BY <2>2, <2>3, <3>1, <3>2 DEF Reading
  <2>5. pos[k + 1] + 1 = i + 1
    BY <1>1, <2>1
  <2> QED BY <2>4, <2>5 DEF b
<1>4. CASE b \in {Ampersand, Less, Greater}
  <2>1. StandsFor(e, b)
    BY <1>4, MarkupByte
  <2> HIDE DEF e, b
  <2> DEFINE l == Len(e)
             c == Len(content)
             m == p + l
  <2>2. e \in Seq(Int) /\ l \in 4..5
    <3>1. e \in Seq(Safe) /\ l \in 4..5
      BY <2>1 DEF StandsFor
    <3> QED BY <3>1 DEF Safe
  <2>3. p \in Nat /\ c \in Nat /\ p + l <= c
    BY <1>1
  <2>4. \A j \in 1..l : content[p + j] = e[j]
    BY <1>1
  <2>5. e[1] = Ampersand /\ e[l] = Semicolon /\ \A j \in 2..(l - 1) : e[j] # Semicolon
    BY <2>1 DEF StandsFor
  <2> HIDE DEF l, c, p
  <2>6. i \in 1..c /\ m \in (i + 1)..c /\ m - i <= 8 /\ 1 \in 1..l /\ l \in 1..l
    BY <2>2, <2>3
  <2>7. content[i] = Ampersand /\ content[m] = Semicolon
    BY <2>4, <2>5, <2>6
  <2>8. ASSUME NEW j \in (i + 1)..(m - 1) PROVE content[j] # Semicolon
    <3>1. j - p \in 2..(l - 1) /\ j - p \in 1..l /\ p + (j - p) = j
      BY <2>2, <2>3
    <3>2. content[p + (j - p)] = e[j - p] /\ e[j - p] # Semicolon
      BY <2>4, <2>5, <3>1
    <3> QED BY <3>1, <3>2
  <2>9. SubSeq(content, i, m) = e
    <3>1. m = i + l - 1 /\ i + l - 1 <= c /\ l >= 1
      BY <2>2, <2>3
    <3>2. \A j \in 1..l : content[i + j - 1] = e[j]
      <4>1. \A j \in 1..l : i + j - 1 = p + j
        BY <2>2, <2>3
      <4> QED BY <2>4, <4>1
    <3> HIDE DEF m, i
    <3> QED BY <1>2, <2>2, <2>6, <3>1, <3>2, SubSeqIs DEF l, c
  <2>10. m # 0 /\ ~(i > c)
    BY <2>2, <2>3, <2>6
  <2>11. f[i] = Reading(content, i, f)
    <3>1. i \in 1..(c + 1)
      BY <2>3, <2>6
    <3> QED BY <3>1 DEF c
  <2>12. pos[k + 1] = m
    BY <1>1 DEF l
  <2> HIDE DEF m, i
  <2>13. EndOfEntity(content, i) = m
    BY <1>2, <2>6, <2>7, <2>8, EndIsFirst DEF c
  <2>14. f[i] = <<b>> \o f[m + 1]
    <3>1. Decoded(SubSeq(content, i, m)) = <<b>>
      BY <2>1, <2>9 DEF StandsFor
    <3> QED BY <2>10, <2>11, <2>13, <3>1 DEF Reading, c
  <2> QED BY <2>12, <2>14 DEF i, p, b
<1> QED BY <1>3, <1>4

\* Every text reads back as it was.
LEMMA EscapedReadsBack ==
  ASSUME NEW text \in Seq(Int)
  PROVE  IsRest(xml_unescape(xml_escape(text)), text, 0)
<1> DEFINE content == xml_escape(text)
           N == Len(text)
<1>1. content \in Seq(Safe)
  BY EscapeLays
<1>2. PICK pos : Lies(pos, content, text)
  BY EscapeLays
<1> HIDE DEF content
<1>3. content \in Seq(Int)
  BY <1>1 DEF Safe
<1>4. PICK f : /\ \A i \in 1..(Len(content) + 1) : f[i] = Reading(content, i, f)
               /\ xml_unescape(content) = f[1]
  BY <1>3, UnescapeReads
<1>5. N \in Nat /\ Len(content) \in Nat /\ Len(content) = pos[N] /\ pos[0] = 0
  BY <1>2, <1>3 DEF Lies
<1> DEFINE S == {c \in Nat : c <= N => IsRest(f[pos[N - c] + 1], text, N - c)}
<1>6. 0 \in S
  <2>1. f[Len(content) + 1] = <<>>
    <3>1. f[Len(content) + 1] = Reading(content, Len(content) + 1, f)
      BY <1>4, <1>5
    <3>2. Len(content) + 1 > Len(content)
      BY <1>5
    <3> QED BY <3>1, <3>2 DEF Reading
  <2>2. IsRest(<<>>, text, N)
    <3>1. <<>> \in Seq(Int) /\ Len(<<>>) = N - N /\ \A j \in 1..(N - N) : FALSE
      BY <1>5
    <3> QED BY <3>1 DEF IsRest
  <2>3. N - 0 = N
    BY <1>5
  <2> QED BY <1>5, <2>1, <2>2, <2>3
<1>7. ASSUME NEW c \in Nat, c \in S PROVE c + 1 \in S
  <2>1. SUFFICES ASSUME c + 1 <= N PROVE IsRest(f[pos[N - (c + 1)] + 1], text, N - (c + 1))
    OBVIOUS
  <2> DEFINE k == N - (c + 1)
  <2>2. k \in 0..(Len(text) - 1) /\ k + 1 = N - c
    BY <1>5, <2>1
  <2>3. IsRest(f[pos[k + 1] + 1], text, k + 1)
    BY <1>5, <1>7, <2>1, <2>2
  <2> HIDE DEF k, N
  <2>4. f[pos[k] + 1] = <<text[k + 1]>> \o f[pos[k + 1] + 1]
    BY <1>1, <1>2, <1>4, <2>2, ByteReadsBack
  <2>5. IsRest(f[pos[k] + 1], text, k)
    BY <2>2, <2>3, <2>4, RestGrows
  <2> QED BY <2>5 DEF k
<1> HIDE DEF S
<1>8. N \in S
  BY <1>5, <1>6, <1>7, Induction
<1>9. IsRest(f[1], text, 0)
  <2>1. N - N = 0 /\ pos[0] + 1 = 1 /\ N <= N
    BY <1>5
  <2>2. IsRest(f[pos[N - N] + 1], text, N - N)
    BY <1>8, <2>1 DEF S
  <2> HIDE DEF N
  <2> QED BY <2>1, <2>2
<1> QED BY <1>4, <1>9 DEF content

LEMMA ControlIs ==
  ASSUME NEW b \in Int, b >= 0
  PROVE  b \in Control <=> b < 32 /\ b \notin {9, 10, 13}
  BY DEF Control

\* The text as it is spoken.
AsSpoken(b) == IF b < 32 /\ b \notin {9, 10, 13} THEN 32 ELSE b

LEMMA NormalizeIs ==
  ASSUME NEW text \in Seq(Byte)
  PROVE  /\ normalize(text) \in Seq(Int) /\ Len(normalize(text)) = Len(text)
         /\ \A i \in 1..Len(text) : normalize(text)[i] = AsSpoken(text[i])
<1> DEFINE n == Len(text)
           u == [i \in 1..n |-> AsSpoken(text[i])]
<1>1. n \in Nat /\ DOMAIN text = 1..n
  OBVIOUS
<1>2. \A i \in 1..n : text[i] \in Int /\ text[i] >= 0
  BY ByteIs
<1>3. normalize(text) = u
  <2>1. \A i \in 1..n : (IF text[i] \in Control THEN 32 ELSE text[i]) = AsSpoken(text[i])
    BY <1>2, ControlIs DEF AsSpoken
  <2> HIDE DEF n
  <2> QED BY <1>1, <2>1 DEF normalize
<1>4. \A i \in 1..n : AsSpoken(text[i]) \in Int
  BY <1>2 DEF AsSpoken
<1> HIDE DEF n
<1>5. u \in Seq(Int) /\ Len(u) = n /\ \A i \in 1..n : u[i] = AsSpoken(text[i])
  BY <1>1, <1>4
<1> QED BY <1>3, <1>5 DEF n

\* Whatever bytes a text holds, it is refused when it is not UTF-8, and what is
\* sent for it reads back as it was given and holds no markup (Utf8.cpp:8-53,
\* TextNormalizer.cpp:7-41, XmlEscaper.cpp:5-48, SsmlBuilder.cpp:70-89).
THEOREM TextsAreKept == Spec => []TextKept
<1>1. ASSUME Answered, of = "text", done
      PROVE  input \in Seq(Byte) /\ outcome = SsmlContent(input)
  <2>1. input \in Texts /\ outcome = SsmlContent(input)
    BY <1>1 DEF Answered
  <2>2. Texts \subseteq Seq(Byte)
    BY TextsAssumption, Zenon DEF Byte
  <2> QED BY <2>1, <2>2
<1>2. Answered => Utf8AsUnicode
  <2> SUFFICES ASSUME Answered, of = "text", done PROVE outcome.ok <=> IsUnicode(input)
    BY DEF Utf8AsUnicode
  <2>1. input \in Seq(Byte) /\ outcome = SsmlContent(input)
    BY <1>1
  <2>2. outcome.ok = is_valid_utf8(input)
    BY <2>1 DEF SsmlContent
  <2> QED BY <2>1, <2>2, UnicodeIsAccepted
<1>3. Answered => TextReadsBack
  <2> SUFFICES ASSUME Answered, of = "text", done, outcome.ok
               PROVE  /\ \A i \in DOMAIN outcome.content : outcome.content[i] \notin {Less, Greater}
                      /\ xml_unescape(outcome.content) =
                           [i \in DOMAIN input |-> IF input[i] < 32 /\ input[i] \notin {9, 10, 13}
                                                   THEN 32 ELSE input[i]]
    BY DEF TextReadsBack
  <2> DEFINE text == normalize(input)
             content == xml_escape(text)
             n == Len(input)
  <2>1. input \in Seq(Byte) /\ outcome = SsmlContent(input)
    BY <1>1
  <2>2. outcome.content = content
    BY <2>1 DEF SsmlContent
  <2>3. text \in Seq(Int) /\ Len(text) = n /\ \A i \in 1..n : text[i] = AsSpoken(input[i])
    BY <2>1, NormalizeIs
  <2> HIDE DEF text
  <2>4. content \in Seq(Safe)
    BY <2>3, EscapeLays
  <2>5. \A i \in DOMAIN content : content[i] \notin {Less, Greater}
    <3> HIDE DEF content
    <3>1. \A i \in DOMAIN content : content[i] \in Safe
      BY <2>4
    <3> QED BY <3>1 DEF Safe
  <2> DEFINE s == xml_unescape(content)
  <2>6. IsRest(s, text, 0)
    BY <2>3, EscapedReadsBack
  <2> HIDE DEF s, content
  <2>7. n \in Nat /\ DOMAIN input = 1..n
    BY <2>1
  <2> HIDE DEF n
  <2>8. s \in Seq(Int) /\ Len(s) = n /\ \A j \in 1..n : s[j] = AsSpoken(input[j])
    <3>1. s \in Seq(Int) /\ Len(s) = n - 0 /\ \A j \in 1..(n - 0) : s[j] = text[0 + j]
      BY <2>3, <2>6 DEF IsRest
    <3>2. n - 0 = n /\ \A j \in 1..n : 0 + j = j
      BY <2>7
    <3> QED BY <2>3, <3>1, <3>2
  <2>9. s = [j \in 1..n |-> AsSpoken(input[j])]
    <3>1. s = [j \in 1..n |-> s[j]]
      BY <2>7, <2>8
    <3> QED BY <2>8, <3>1
  <2> QED BY <2>2, <2>5, <2>7, <2>9 DEF AsSpoken, s
<1>4. Answered => TextKept
  BY <1>2, <1>3 DEF TextKept
<1> QED BY <1>4, AnsweredAlways, PTL

-----------------------------------------------------------------------------
(* What is sent, read back.                                                *)

\* The pieces that stand in every frame of the program.
Literals ==
  {"X-Timestamp", "Content-Type", "Path", "X-RequestId", "Mon Jan 05 2026 10", "30",
   "00 GMT+0000", "Z", "application/json; charset=utf-8", "application/ssml+xml",
   "speech.config", "ssml", "request_id", "sentenceBoundaryEnabled", "wordBoundaryEnabled",
   "outputFormat", "true", "false", "<speak><voice name='", "'><prosody pitch rate volume>",
   "</prosody></voice></speak>"}

\* The pieces of names and frames.
Piece == STRING \cup {Prefix, Comma, End, Dash, Colon, CR, LF} \cup Literals

\* Sequences of pieces: laid one after the other, cut out, compared.
\* c is a followed by b.
Joined(c, a, b) ==
  /\ Len(c) = Len(a) + Len(b)
  /\ \A j \in 1..Len(a) : c[j] = a[j]
  /\ \A j \in 1..Len(b) : c[Len(a) + j] = b[j]

LEMMA JoinIs ==
  ASSUME NEW S, NEW a \in Seq(S), NEW b \in Seq(S)
  PROVE  a \o b \in Seq(S) /\ Joined(a \o b, a, b)
  BY DEF Joined

LEMMA OneIs ==
  ASSUME NEW S, NEW x \in S, NEW s, s = <<x>>
  PROVE  s \in Seq(S) /\ Len(s) = 1 /\ s[1] = x
  OBVIOUS

LEMMA CutIs ==
  ASSUME NEW S, NEW s \in Seq(S), NEW i \in Nat, NEW k \in Nat,
         1 <= i, i <= k + 1, k <= Len(s), NEW c, c = SubSeq(s, i, k)
  PROVE  /\ c \in Seq(S) /\ Len(c) = k - i + 1
         /\ \A j \in 1..(k - i + 1) : c[j] = s[i + j - 1]
  OBVIOUS

LEMMA SameSeq ==
  ASSUME NEW S, NEW s \in Seq(S), NEW t \in Seq(S), Len(s) = Len(t),
         \A j \in 1..Len(s) : s[j] = t[j]
  PROVE  s = t
<1>1. s = [j \in 1..Len(s) |-> s[j]] /\ t = [j \in 1..Len(t) |-> t[j]]
  OBVIOUS
<1> QED BY <1>1

LEMMA FirstIs ==
  ASSUME NEW X, X \subseteq Nat, X # {}, NEW c, c = CHOOSE j \in X : \A k \in X : j <= k
  PROVE  c \in X /\ \A k \in X : c <= k
<1>1. \E x \in X : TRUE
  OBVIOUS
<1>2. \E j \in X : \A k \in X : j <= k
  BY <1>1, SmallestExists
<1> QED BY <1>2

LEMMA FindIs ==
  ASSUME NEW S, NEW s \in Seq(S), NEW p, NEW i \in Nat, i >= 1
  PROVE  /\ Find(s, p, i) = 0 => \A j \in i..Len(s) : s[j] # p
         /\ Find(s, p, i) # 0 => /\ Find(s, p, i) \in i..Len(s) /\ s[Find(s, p, i)] = p
                                 /\ \A j \in i..(Find(s, p, i) - 1) : s[j] # p
<1> DEFINE X == {j \in i..Len(s) : s[j] = p}
           c == CHOOSE j \in X : \A k \in X : j <= k
<1>1. Find(s, p, i) = IF X = {} THEN 0 ELSE c
  BY Zenon DEF Find
<1>2. CASE X = {}
  BY <1>1, <1>2
<1>3. CASE X # {}
  <2>1. X \subseteq Nat
    OBVIOUS
  <2>2. c \in X /\ \A k \in X : c <= k
    <3> HIDE DEF X
    <3> QED BY <1>3, <2>1, FirstIs
  <2> HIDE DEF c
  <2>3. c \in i..Len(s) /\ s[c] = p /\ c # 0
    BY <2>2
  <2>4. ASSUME NEW j \in i..(c - 1) PROVE s[j] # p
    <3>1. SUFFICES ASSUME s[j] = p PROVE FALSE
      OBVIOUS
    <3>2. j \in X /\ j < c
      BY <2>3, <3>1
    <3> QED BY <2>2, <2>3, <3>2
  <2> QED BY <1>1, <1>3, <2>3, <2>4
<1> QED BY <1>2, <1>3

LEMMA FoundAt ==
  ASSUME NEW S, NEW s \in Seq(S), NEW p, NEW i \in Nat, i >= 1, NEW c \in i..Len(s), s[c] = p,
         \A j \in i..(c - 1) : s[j] # p
  PROVE  Find(s, p, i) = c
<1> DEFINE f == Find(s, p, i)
<1>1. /\ f = 0 => \A j \in i..Len(s) : s[j] # p
      /\ f # 0 => /\ f \in i..Len(s) /\ s[f] = p
                  /\ \A j \in i..(f - 1) : s[j] # p
  BY FindIs
<1> HIDE DEF f
<1>2. f # 0 /\ f \in i..Len(s)
  BY <1>1
<1>3. ~(f < c)
  BY <1>1, <1>2
<1>4. ~(c < f)
  BY <1>1, <1>2
<1> QED BY <1>2, <1>3, <1>4 DEF f

\* The full name of a short one.
LEMMA LongName ==
  ASSUME NEW v \in Seq(Piece), IsShort(v)
  PROVE  LET e == LocaleEnd(v)
         IN  e \in 4..(Len(v) - 1) /\ v[e] = Dash
<1> DEFINE first == Find(v, Dash, 1)
           second == Find(v, Dash, first + 1)
           third == Find(v, Dash, second + 1)
<1>1. /\ first > 1 /\ second > first + 1 /\ Len(v) >= second + 2 /\ v[Len(v)] = Neural
  BY DEF IsShort
<1>2. Len(v) \in Nat /\ LocaleEnd(v) = IF third = 0 THEN second ELSE third
  BY DEF LocaleEnd
<1>3. first = 0 \/ first \in 1..Len(v)
  BY FindIs
<1>4. first \in 2..Len(v)
  <2> HIDE DEF first
  <2> QED BY <1>1, <1>3
<1>5. second = 0 \/ (second \in (first + 1)..Len(v) /\ v[second] = Dash)
  <2> HIDE DEF first
  <2> QED BY <1>4, FindIs
<1>6. second \in 4..(Len(v) - 2) /\ v[second] = Dash
  <2> HIDE DEF first, second
  <2> QED BY <1>1, <1>2, <1>4, <1>5
<1>7. third = 0 \/ (third \in (second + 1)..Len(v) /\ v[third] = Dash)
  <2> HIDE DEF second
  <2> QED BY <1>6, FindIs
<1> HIDE DEF third, second, first
<1>8. Dash # Neural
  BY DEF Dash, Neural
<1>9. third = 0 \/ (third \in (second + 1)..(Len(v) - 1) /\ v[third] = Dash)
  BY <1>1, <1>2, <1>6, <1>7, <1>8
<1> QED BY <1>2, <1>6, <1>9

LEMMA SpelledBack ==
  ASSUME NEW v \in Seq(Piece), ~IsFull(v), IsShort(v), NEW f, f = normalize_voice_name(v)
  PROVE  f \in Seq(Piece) /\ IsFull(f) /\ (Find(v, Comma, 1) = 0 => Spelled(f) = v)
<1> DEFINE e == LocaleEnd(v)
           n == Len(v)
           A == SubSeq(v, 1, e - 1)
           B == SubSeq(v, e + 1, n)
           p == <<Prefix>>
           c == <<Comma>>
           z == <<End>>
           d == <<Dash>>
<1>1. e \in 4..(n - 1) /\ v[e] = Dash /\ n \in Nat
  BY LongName
<1>2. f = p \o A \o c \o B \o z
  BY DEF normalize_voice_name
<1>3. /\ p \in Seq(Piece) /\ Len(p) = 1 /\ p[1] = Prefix
      /\ c \in Seq(Piece) /\ Len(c) = 1 /\ c[1] = Comma
      /\ z \in Seq(Piece) /\ Len(z) = 1 /\ z[1] = End
      /\ d \in Seq(Piece) /\ Len(d) = 1 /\ d[1] = Dash
  <2>1. Prefix \in Piece /\ Comma \in Piece /\ End \in Piece /\ Dash \in Piece
    BY DEF Piece
  <2> QED BY <2>1, OneIs
<1> HIDE DEF e, p, c, z, d
<1>4. A \in Seq(Piece) /\ Len(A) = e - 1 /\ \A j \in 1..(e - 1) : A[j] = v[j]
  BY <1>1
<1>5. B \in Seq(Piece) /\ Len(B) = n - e /\ \A j \in 1..(n - e) : B[j] = v[e + j]
  BY <1>1
<1> HIDE DEF A, B, n
<1> DEFINE pA == p \o A
           pAc == pA \o c
           pAcB == pAc \o B
<1>6. /\ pA \in Seq(Piece) /\ Len(pA) = e /\ pA[1] = Prefix
      /\ \A j \in 1..(e - 1) : pA[1 + j] = A[j]
  <2>1. pA \in Seq(Piece) /\ Joined(pA, p, A)
    BY <1>3, <1>4, JoinIs, Zenon
  <2> HIDE DEF pA
  <2> QED BY <1>1, <1>3, <1>4, <2>1 DEF Joined
<1> HIDE DEF pA
<1>7. /\ pAc \in Seq(Piece) /\ Len(pAc) = e + 1 /\ pAc[e + 1] = Comma
      /\ \A j \in 1..e : pAc[j] = pA[j]
  <2>1. pAc \in Seq(Piece) /\ Joined(pAc, pA, c)
    BY <1>3, <1>6, JoinIs, Zenon
  <2> HIDE DEF pAc
  <2> QED BY <1>1, <1>3, <1>6, <2>1 DEF Joined
<1> HIDE DEF pAc
<1>8. /\ pAcB \in Seq(Piece) /\ Len(pAcB) = n + 1
      /\ \A j \in 1..(e + 1) : pAcB[j] = pAc[j]
      /\ \A j \in 1..(n - e) : pAcB[e + 1 + j] = B[j]
  <2>1. pAcB \in Seq(Piece) /\ Joined(pAcB, pAc, B)
    BY <1>5, <1>7, JoinIs, Zenon
  <2> HIDE DEF pAcB
  <2> QED BY <1>1, <1>5, <1>7, <2>1 DEF Joined
<1> HIDE DEF pAcB
<1>9. /\ f \in Seq(Piece) /\ Len(f) = n + 2 /\ f[n + 2] = End
      /\ \A j \in 1..(n + 1) : f[j] = pAcB[j]
  <2>1. f = pAcB \o z
    BY <1>2 DEF pAcB, pAc, pA
  <2>2. f \in Seq(Piece) /\ Joined(f, pAcB, z)
    BY <1>3, <1>8, <2>1, JoinIs, Zenon
  <2> QED BY <1>1, <1>3, <1>8, <2>2 DEF Joined
<1>10. f[1] = Prefix /\ f[e + 1] = Comma
  BY <1>1, <1>6, <1>7, <1>8, <1>9
<1>11. ASSUME NEW j \in 1..(e - 1) PROVE f[1 + j] = v[j]
  <2>1. 1 + j \in 1..(n + 1) /\ 1 + j \in 1..(e + 1) /\ 1 + j \in 1..e
    BY <1>1
  <2>2. f[1 + j] = pAcB[1 + j] /\ pAcB[1 + j] = pAc[1 + j] /\ pAc[1 + j] = pA[1 + j]
    BY <1>7, <1>8, <1>9, <2>1
  <2> QED BY <1>4, <1>6, <2>2
<1>12. ASSUME NEW j \in 1..(n - e) PROVE f[e + 1 + j] = v[e + j]
  <2>1. e + 1 + j \in 1..(n + 1)
    BY <1>1
  <2> QED BY <1>5, <1>8, <1>9, <2>1
<1>13. IsFull(f)
  <2>1. e + 1 \in 3..(Len(f) - 2) /\ Len(f) >= 5
    BY <1>1, <1>9
  <2> QED BY <1>9, <1>10, <2>1 DEF IsFull
<1>14. ASSUME Find(v, Comma, 1) = 0 PROVE Spelled(f) = v
  <2>1. \A j \in 1..n : v[j] # Comma
    BY <1>14, FindIs DEF n
  <2>2. \A j \in 1..e : f[j] # Comma
    <3>1. ASSUME NEW j \in 1..e, j # 1 PROVE f[j] # Comma
      <4>1. j - 1 \in 1..(e - 1) /\ 1 + (j - 1) = j /\ j - 1 \in 1..n
        BY <1>1, <3>1
      <4> QED BY <1>11, <2>1, <4>1
    <3>2. Prefix # Comma
      BY DEF Prefix, Comma
    <3> QED BY <1>10, <3>1, <3>2
  <2>3. Find(f, Comma, 1) = e + 1
    <3>1. e + 1 \in 1..Len(f) /\ (e + 1) - 1 = e
      BY <1>1, <1>9
    <3>2. \A j \in 1..((e + 1) - 1) : f[j] # Comma
      BY <2>2, <3>1
    <3> QED BY <1>9, <1>10, <3>1, <3>2, FoundAt
  <2> DEFINE a == SubSeq(f, 2, e)
             b == SubSeq(f, e + 2, n + 1)
             ad == a \o d
             w == ad \o b
  <2>4. Spelled(f) = w
    <3>1. (e + 1) - 1 = e /\ (e + 1) + 1 = e + 2 /\ (n + 2) - 1 = n + 1
      BY <1>1
    <3> QED BY <1>9, <2>3, <3>1 DEF Spelled, d
  <2>5. a \in Seq(Piece) /\ Len(a) = e - 1 /\ \A j \in 1..(e - 1) : a[j] = f[1 + j]
    <3>1. e - 2 + 1 = e - 1 /\ \A j \in 1..(e - 1) : 2 + j - 1 = 1 + j
      BY <1>1
    <3> QED BY <1>1, <1>9, <3>1, CutIs
  <2>6. b \in Seq(Piece) /\ Len(b) = n - e /\ \A j \in 1..(n - e) : b[j] = f[e + 1 + j]
    <3>1. (n + 1) - (e + 2) + 1 = n - e /\ \A j \in 1..(n - e) : e + 2 + j - 1 = e + 1 + j
      BY <1>1
    <3> QED BY <1>1, <1>9, <3>1, CutIs
  <2> HIDE DEF a, b
  <2>7. /\ ad \in Seq(Piece) /\ Len(ad) = e /\ ad[e] = Dash
        /\ \A j \in 1..(e - 1) : ad[j] = a[j]
    <3>1. ad \in Seq(Piece) /\ Joined(ad, a, d)
      BY <1>3, <2>5, JoinIs, Zenon
    <3> HIDE DEF ad
    <3> QED BY <1>1, <1>3, <2>5, <3>1 DEF Joined
  <2> HIDE DEF ad
  <2>8. /\ w \in Seq(Piece) /\ Len(w) = n /\ \A j \in 1..e : w[j] = ad[j]
        /\ \A j \in 1..(n - e) : w[e + j] = b[j]
    <3>1. w \in Seq(Piece) /\ Joined(w, ad, b)
      BY <2>6, <2>7, JoinIs, Zenon
    <3> HIDE DEF w
    <3> QED BY <1>1, <2>6, <2>7, <3>1 DEF Joined
  <2> HIDE DEF w
  <2>9. ASSUME NEW j \in 1..n PROVE w[j] = v[j]
    <3>1. CASE j < e
      <4>1. j \in 1..(e - 1) /\ j \in 1..e
        BY <1>1, <3>1
      <4> QED BY <1>11, <2>5, <2>7, <2>8, <4>1
    <3>2. CASE j = e
      BY <1>1, <2>7, <2>8, <3>2
    <3>3. CASE j > e
      <4>1. j - e \in 1..(n - e) /\ e + (j - e) = j
        BY <1>1, <3>3
      <4> QED BY <1>12, <2>6, <2>8, <4>1
    <3> QED BY <1>1, <3>1, <3>2, <3>3
  <2> QED BY <2>4, <2>8, <2>9, SameSeq DEF n
<1> QED BY <1>9, <1>13, <1>14

LEMMA NameType ==
  ASSUME NEW v \in Seq(Piece)
  PROVE  normalize_voice_name(v) \in Seq(Piece)
<1>1. CASE IsFull(v)
  BY <1>1 DEF normalize_voice_name
<1>2. CASE ~IsFull(v) /\ IsShort(v)
  BY <1>2, SpelledBack
<1>3. CASE ~IsFull(v) /\ ~IsShort(v)
  <2>1. normalize_voice_name(v) = <<>>
    BY <1>3 DEF normalize_voice_name, NoName
  <2> QED BY <2>1
<1> QED BY <1>1, <1>2, <1>3

LEMMA NamesStay ==
  ASSUME NEW v \in Seq(Piece), NEW f, f = normalize_voice_name(v), f # NoName
  PROVE  /\ normalize_voice_name(f) = f
         /\ IsShort(v) /\ Find(v, Comma, 1) = 0 => Spelled(f) = v
<1>1. CASE IsFull(v)
  <2>1. f = v
    BY <1>1 DEF normalize_voice_name
  <2>2. ~IsShort(v)
    <3>1. SUFFICES ASSUME IsShort(v) PROVE FALSE
      OBVIOUS
    <3>2. v[Len(v)] = End /\ v[Len(v)] = Neural /\ End # Neural
      BY <1>1, <3>1 DEF IsFull, IsShort, End, Neural
    <3> QED BY <3>2
  <2> QED BY <1>1, <2>1, <2>2 DEF normalize_voice_name
<1>2. CASE ~IsFull(v) /\ IsShort(v)
  <2>1. IsFull(f) /\ (Find(v, Comma, 1) = 0 => Spelled(f) = v)
    BY <1>2, SpelledBack
  <2> QED BY <2>1 DEF normalize_voice_name
<1>3. CASE ~IsFull(v) /\ ~IsShort(v)
  BY <1>3 DEF normalize_voice_name
<1> QED BY <1>1, <1>2, <1>3

\* Where a line ends.
IsAt(s, j) == s[j] = CR /\ s[j + 1] = LF

LEMMA CrlfIs ==
  ASSUME NEW s \in Seq(Piece), NEW j \in 1..(Len(s) - 1)
  PROVE  IsCrlf(s, j) <=> IsAt(s, j)
<1> DEFINE u == SubSeq(s, j, j + 1)
<1>1. Len(s) \in Nat /\ (j + 1) - j + 1 = 2 /\ j + 2 - 1 = j + 1 /\ j + 1 - 1 = j
  OBVIOUS
<1>2. u \in Seq(Piece) /\ Len(u) = 2 /\ u[1] = s[j] /\ u[2] = s[j + 1]
  <2>1. u \in Seq(Piece) /\ Len(u) = (j + 1) - j + 1
        /\ \A k \in 1..((j + 1) - j + 1) : u[k] = s[j + k - 1]
    <3>1. j \in Nat /\ j + 1 \in Nat /\ 1 <= j /\ j <= (j + 1) + 1 /\ j + 1 <= Len(s)
      BY <1>1
    <3> QED BY <3>1, CutIs
  <2> HIDE DEF u
  <2>2. 1 \in 1..2 /\ 2 \in 1..2
    OBVIOUS
  <2> QED BY <1>1, <2>1, <2>2
<1>3. IsCrlf(s, j) <=> u = <<CR, LF>>
  BY DEF IsCrlf, CRLF
<1> HIDE DEF u
<1>4. u = <<u[1], u[2]>>
  BY <1>2
<1> QED BY <1>2, <1>3, <1>4 DEF IsAt

LEMMA LineEndIs ==
  ASSUME NEW s \in Seq(Piece), NEW i \in 1..Len(s)
  PROVE  /\ \/ LineEnd(s, i) = Len(s) + 1
            \/ LineEnd(s, i) \in i..(Len(s) - 1) /\ IsAt(s, LineEnd(s, i))
         /\ \A j \in i..(Len(s) - 1) : j < LineEnd(s, i) => ~IsAt(s, j)
<1> DEFINE X == {j \in i..(Len(s) - 1) : IsCrlf(s, j)}
           c == CHOOSE j \in X : \A k \in X : j <= k
<1>1. LineEnd(s, i) = IF X = {} THEN Len(s) + 1 ELSE c
  BY Zenon DEF LineEnd
<1>2. \A j \in i..(Len(s) - 1) : j \in 1..(Len(s) - 1) /\ j \in Nat
  OBVIOUS
<1>3. \A j \in i..(Len(s) - 1) : j \in X <=> IsAt(s, j)
  BY <1>2, CrlfIs
<1>4. CASE X = {}
  <2>1. LineEnd(s, i) = Len(s) + 1
    BY <1>1, <1>4
  <2>2. \A j \in i..(Len(s) - 1) : ~IsAt(s, j)
    BY <1>3, <1>4
  <2> QED BY <2>1, <2>2
<1>5. CASE X # {}
  <2>1. X \subseteq Nat /\ X \subseteq i..(Len(s) - 1)
    BY <1>2
  <2>2. LineEnd(s, i) = c
    BY <1>1, <1>5
  <2>3. c \in X /\ \A k \in X : c <= k
    <3> HIDE DEF X
    <3> QED BY <1>5, <2>1, FirstIs
  <2> HIDE DEF c, X
  <2>4. c \in i..(Len(s) - 1) /\ IsAt(s, c)
    BY <1>3, <2>1, <2>3
  <2>5. ASSUME NEW j \in i..(Len(s) - 1), j < c PROVE ~IsAt(s, j)
    <3>1. j \notin X
      <4>1. j \in Nat /\ c \in Nat /\ ~(c <= j)
        BY <2>4, <2>5
      <4> QED BY <2>3, <4>1
    <3> QED BY <1>3, <3>1
  <2> QED BY <2>2, <2>4, <2>5
<1> QED BY <1>4, <1>5

LEMMA LineEndAt ==
  ASSUME NEW s \in Seq(Piece), NEW i \in 1..Len(s), NEW e \in i..(Len(s) + 1),
         e = Len(s) + 1 \/ (e < Len(s) /\ IsAt(s, e)),
         \A j \in i..(Len(s) - 1) : j < e => ~IsAt(s, j)
  PROVE  LineEnd(s, i) = e
<1> DEFINE l == LineEnd(s, i)
<1>1. l = Len(s) + 1 \/ (l \in i..(Len(s) - 1) /\ IsAt(s, l))
  BY LineEndIs
<1>2. \A j \in i..(Len(s) - 1) : j < l => ~IsAt(s, j)
  BY LineEndIs
<1> HIDE DEF l
<1>3. ~(l < e)
  BY <1>1
<1>4. ~(e < l)
  BY <1>1, <1>2
<1>5. l \in Nat /\ e \in Nat
  BY <1>1
<1> QED BY <1>3, <1>4, <1>5 DEF l

\* One step of the loop over the header lines.
Splitting(s, i, f) ==
  IF i > Len(s) THEN <<>>
  ELSE LET end == LineEnd(s, i)
       IN  (IF end = i THEN <<>> ELSE <<SubSeq(s, i, end - 1)>>) \o f[end + 2]

LEMMA SplittingType ==
  ASSUME NEW s \in Seq(Piece), NEW i \in 1..(Len(s) + 3),
         NEW f \in [1..(Len(s) + 3) -> Seq(Seq(Piece))]
  PROVE  Splitting(s, i, f) \in Seq(Seq(Piece))
<1>1. CASE i > Len(s)
  BY <1>1 DEF Splitting
<1>2. CASE i <= Len(s)
  <2> DEFINE e == LineEnd(s, i)
             u == SubSeq(s, i, e - 1)
             h == IF e = i THEN <<>> ELSE <<u>>
  <2>1. i \in 1..Len(s) /\ Len(s) \in Nat
    BY <1>2
  <2>2. e = Len(s) + 1 \/ e \in i..(Len(s) - 1)
    BY <2>1, LineEndIs
  <2>3. Splitting(s, i, f) = h \o f[e + 2]
    <3>1. ~(i > Len(s))
      BY <1>2, <2>1
    <3> QED BY <3>1, Zenon DEF Splitting
  <2> HIDE DEF e
  <2>4. e + 2 \in 1..(Len(s) + 3) /\ e \in Nat
    BY <2>1, <2>2
  <2>5. f[e + 2] \in Seq(Seq(Piece))
    BY <2>4
  <2>6. u \in Seq(Piece)
    <3>1. e - 1 \in Nat /\ i \in Nat /\ 1 <= i /\ i <= (e - 1) + 1 /\ e - 1 <= Len(s)
      BY <2>1, <2>2
    <3> QED BY <3>1, CutIs
  <2> HIDE DEF u
  <2>7. h \in Seq(Seq(Piece))
    BY <2>6
  <2> HIDE DEF h
  <2> QED BY <2>3, <2>5, <2>7
<1> QED BY <1>1, <1>2

LEMMA SplittingAhead ==
  ASSUME NEW s \in Seq(Piece), NEW i \in 1..(Len(s) + 3), NEW f, NEW g,
         \A j \in (i + 1)..(Len(s) + 3) : f[j] = g[j]
  PROVE  Splitting(s, i, f) = Splitting(s, i, g)
<1>1. CASE i > Len(s)
  BY <1>1 DEF Splitting
<1>2. CASE i <= Len(s)
  <2> DEFINE e == LineEnd(s, i)
  <2>1. i \in 1..Len(s) /\ Len(s) \in Nat
    BY <1>2
  <2>2. e = Len(s) + 1 \/ e \in i..(Len(s) - 1)
    BY <2>1, LineEndIs
  <2>3. \A h : Splitting(s, i, h) =
                 (IF e = i THEN <<>> ELSE <<SubSeq(s, i, e - 1)>>) \o h[e + 2]
    <3>1. ~(i > Len(s))
      BY <1>2, <2>1
    <3> QED BY <3>1, Zenon DEF Splitting
  <2> HIDE DEF e
  <2>4. e + 2 \in (i + 1)..(Len(s) + 3)
    BY <2>1, <2>2
  <2>5. f[e + 2] = g[e + 2]
    BY <2>4
  <2> QED BY <2>3, <2>5
<1> QED BY <1>1, <1>2

LEMMA LinesSplit ==
  ASSUME NEW s \in Seq(Piece)
  PROVE  \E f \in [1..(Len(s) + 3) -> Seq(Seq(Piece))] :
            /\ \A i \in 1..(Len(s) + 3) : f[i] = Splitting(s, i, f)
            /\ HeaderLines(s) = f[1]
<1> DEFINE m == Len(s) + 3
           S == Seq(Seq(Piece))
           D == [1..m -> S]
           body == [p \in (1..m) \X D |-> Splitting(s, p[1], p[2])]
           Body(h) == [i \in 1..(Len(s) + 3) |->
                         IF i > Len(s) THEN <<>>
                         ELSE LET end == LineEnd(s, i)
                              IN  (IF end = i THEN <<>> ELSE <<SubSeq(s, i, end - 1)>>)
                                    \o h[end + 2]]
           a == CHOOSE h : h = Body(h)
<1>1. m \in Nat /\ <<>> \in S /\ D = [1..m -> S] /\ 1 \in 1..m
  OBVIOUS
<1>2. body \in [(1..m) \X D -> S]
  <2>1. \A i \in 1..m : \A f \in D : Splitting(s, i, f) \in S
    BY SplittingType
  <2> HIDE DEF D, S, m
  <2> QED BY <2>1
<1>3. \A i \in 1..m : \A f \in D : body[<<i, f>>] = Splitting(s, i, f)
  <2> HIDE DEF D, m
  <2> QED OBVIOUS
<1>4. LooksAhead(m, D, body)
  <2>1. \A i \in 1..m : \A f \in D : \A g \in D :
          (\A j \in (i + 1)..m : f[j] = g[j]) => Splitting(s, i, f) = Splitting(s, i, g)
    BY SplittingAhead
  <2> HIDE DEF D, m, body
  <2> QED BY <1>3, <2>1 DEF LooksAhead
<1>5. \E f \in D : Solves(f, m, body)
  <2> HIDE DEF D, S, m, body
  <2> QED BY <1>1, <1>2, <1>4, AheadExists
<1>6. \A h : Body(h) = [i \in 1..m |-> Splitting(s, i, h)]
  BY Zenon DEF Splitting
<1>7. \E h : h = Body(h)
  <2>1. PICK f \in D : Solves(f, m, body)
    BY <1>5
  <2> HIDE DEF body, Body
  <2>2. \A i \in 1..m : f[i] = Splitting(s, i, f)
    BY <1>3, <2>1 DEF Solves
  <2> HIDE DEF m
  <2>3. f = [i \in 1..m |-> Splitting(s, i, f)]
    BY <2>2
  <2> QED BY <1>6, <2>3
<1>8. a = Body(a)
  <2> HIDE DEF Body
  <2> QED BY <1>7
<1>9. HeaderLines(s) = a[1]
  BY DEF HeaderLines
<1> HIDE DEF a, Body
<1>10. a = [i \in 1..m |-> Splitting(s, i, a)]
  BY <1>6, <1>8
<1>11. \A i \in 1..m : a[i] = Splitting(s, i, a)
  <2> HIDE DEF m
  <2> QED BY <1>10
<1>12. \A i \in 1..m : a[i] \in S
  <2> DEFINE T == {i \in 1..m : a[i] \in S}
  <2>1. ASSUME NEW i \in 1..m, \A j \in (i + 1)..m : j \in T PROVE i \in T
    <3> DEFINE g == [j \in 1..m |-> IF j \in T THEN a[j] ELSE <<>>]
    <3>1. g \in [1..m -> S] /\ \A j \in (i + 1)..m : a[j] = g[j]
      <4>1. \A j \in 1..m : g[j] \in S
        BY <1>1
      <4>2. \A j \in (i + 1)..m : j \in 1..m
        BY <1>1
      <4> HIDE DEF S, m
      <4> QED BY <2>1, <4>1, <4>2
    <3> HIDE DEF g
    <3>2. Splitting(s, i, a) = Splitting(s, i, g)
      BY <3>1, SplittingAhead
    <3>3. Splitting(s, i, g) \in S
      BY <3>1, SplittingType
    <3> QED BY <1>11, <3>2, <3>3
  <2> HIDE DEF T, m
  <2>2. \A i \in 1..m : i \in T
    BY <1>1, <2>1, DownInduction
  <2> QED BY <2>2 DEF T
<1>13. a \in [1..m -> S]
  <2> HIDE DEF m, S
  <2> QED BY <1>10, <1>12
<1> QED BY <1>9, <1>11, <1>13

LEMMA JoinThree ==
  ASSUME NEW S, NEW a \in Seq(S), NEW b \in Seq(S), NEW c \in Seq(S)
  PROVE  (a \o b) \o c = a \o (b \o c)
<1> DEFINE x == a \o b
           y == b \o c
           u == x \o c
           v == a \o y
           l == Len(a)
           m == Len(b)
           n == Len(c)
<1>1. l \in Nat /\ m \in Nat /\ n \in Nat
  OBVIOUS
<1>2. x \in Seq(S) /\ Joined(x, a, b) /\ y \in Seq(S) /\ Joined(y, b, c)
  BY JoinIs
<1> HIDE DEF x, y
<1>3. u \in Seq(S) /\ Joined(u, x, c) /\ v \in Seq(S) /\ Joined(v, a, y)
  BY <1>2, JoinIs
<1> HIDE DEF u, v, l, m, n
<1>4. Len(x) = l + m /\ Len(y) = m + n
  BY <1>2 DEF Joined, l, m, n
<1>5. Len(u) = l + m + n /\ Len(v) = l + m + n
  BY <1>1, <1>3, <1>4 DEF Joined, l, n
<1>6. /\ \A j \in 1..l : x[j] = a[j]
      /\ \A j \in 1..m : x[l + j] = b[j]
      /\ \A j \in 1..m : y[j] = b[j]
      /\ \A j \in 1..n : y[m + j] = c[j]
  BY <1>2 DEF Joined, l, m, n
<1>7. /\ \A j \in 1..(l + m) : u[j] = x[j]
      /\ \A j \in 1..n : u[l + m + j] = c[j]
      /\ \A j \in 1..l : v[j] = a[j]
      /\ \A j \in 1..(m + n) : v[l + j] = y[j]
  BY <1>3, <1>4 DEF Joined, l, n
<1>8. ASSUME NEW j \in 1..(l + m + n) PROVE u[j] = v[j]
  <2>1. CASE j <= l
    <3>1. j \in 1..l /\ j \in 1..(l + m)
      BY <1>1, <2>1
    <3> QED BY <1>6, <1>7, <3>1
  <2>2. CASE j > l /\ j <= l + m
    <3>1. j - l \in 1..m /\ j - l \in 1..(m + n) /\ j \in 1..(l + m) /\ l + (j - l) = j
      BY <1>1, <2>2
    <3>2. u[j] = x[j] /\ x[l + (j - l)] = b[j - l]
      BY <1>6, <1>7, <3>1
    <3>3. v[l + (j - l)] = y[j - l] /\ y[j - l] = b[j - l]
      BY <1>6, <1>7, <3>1
    <3> QED BY <3>1, <3>2, <3>3
  <2>3. CASE j > l + m
    <3>1. /\ j - l - m \in 1..n /\ j - l \in 1..(m + n)
          /\ l + (j - l) = j /\ l + m + (j - l - m) = j /\ m + (j - l - m) = j - l
      BY <1>1, <2>3
    <3>2. u[l + m + (j - l - m)] = c[j - l - m]
      BY <1>7, <3>1
    <3>3. v[l + (j - l)] = y[j - l] /\ y[m + (j - l - m)] = c[j - l - m]
      BY <1>6, <1>7, <3>1
    <3> QED BY <3>1, <3>2, <3>3
  <2> QED BY <1>1, <2>1, <2>2, <2>3
<1>9. u = v
  BY <1>3, <1>5, <1>8, SameSeq
<1> QED BY <1>9 DEF u, v, x, y

LEMMA JoinNone ==
  ASSUME NEW S, NEW a \in Seq(S)
  PROVE  a \o <<>> = a /\ <<>> \o a = a
  OBVIOUS

\* g holds what is written after each of the sequences.
Laid(g, seqs) ==
  g[0] = <<>> /\ \A k \in 0..(Len(seqs) - 1) : g[k + 1] = g[k] \o seqs[k + 1]

LEMMA FlattenLays ==
  ASSUME NEW S, NEW seqs \in Seq(Seq(S))
  PROVE  \E g \in [0..Len(seqs) -> Seq(S)] :
            Laid(g, seqs) /\ FlattenSeq(seqs) = g[Len(seqs)]
<1> DEFINE n == Len(seqs)
           D == Seq(S)
           step == [p \in (0..(n - 1)) \X D |-> p[2] \o seqs[p[1] + 1]]
<1>1. n \in Nat /\ <<>> \in D /\ \A k \in 0..(n - 1) : seqs[k + 1] \in D
  OBVIOUS
<1>2. step \in [(0..(n - 1)) \X D -> D]
  <2>1. \A k \in 0..(n - 1) : \A d \in D : d \o seqs[k + 1] \in D
    BY <1>1
  <2> HIDE DEF D, n
  <2> QED BY <2>1
<1>3. \A k \in 0..(n - 1) : \A d \in D : step[<<k, d>>] = d \o seqs[k + 1]
  <2> HIDE DEF D, n
  <2> QED OBVIOUS
<1>4. PICK g \in [0..n -> D] : Runs(g, n, <<>>, step)
  <2> HIDE DEF D, n, step
  <2> QED BY <1>1, <1>2, RunExists
<1>5. Laid(g, seqs)
  <2>1. ASSUME NEW k \in 0..(n - 1) PROVE g[k + 1] = g[k] \o seqs[k + 1]
    <3>1. g[k] \in D
      <4> HIDE DEF D
      <4>1. k \in 0..n
        BY <1>1
      <4> QED BY <1>4, <4>1
    <3> HIDE DEF D, step
    <3> QED BY <1>3, <1>4, <3>1 DEF Runs
  <2>2. g[0] = <<>>
    BY <1>4 DEF Runs
  <2> QED BY <2>1, <2>2 DEF Laid
<1>6. CASE n = 0
  <2>1. seqs = <<>>
    BY <1>6
  <2>2. FlattenSeq(seqs) = <<>>
    BY <1>6, <2>1 DEF FlattenSeq
  <2> QED BY <1>4, <1>5, <1>6, <2>2 DEF Laid
<1>7. CASE n # 0
  <2> DEFINE Body(h) == [i \in 1..Len(seqs) |-> IF i = 1 THEN seqs[i] ELSE h[i - 1] \o seqs[i]]
             a == CHOOSE h : h = Body(h)
             f == [i \in 1..n |-> g[i]]
  <2>1. FlattenSeq(seqs) = a[n]
    BY <1>7 DEF FlattenSeq
  <2>2. g[0] = <<>> /\ \A k \in 0..(n - 1) : g[k + 1] = g[k] \o seqs[k + 1]
    BY <1>5 DEF Laid
  <2>3. ASSUME NEW i \in 1..n PROVE g[i] = IF i = 1 THEN seqs[i] ELSE g[i - 1] \o seqs[i]
    <3>1. i - 1 \in 0..(n - 1) /\ (i - 1) + 1 = i
      BY <1>1
    <3>2. g[i] = g[i - 1] \o seqs[i]
      BY <2>2, <3>1
    <3>3. seqs[i] \in Seq(S)
      BY <1>1, <3>1
    <3>4. CASE i = 1
      <4>1. <<>> \o seqs[i] = seqs[i]
        BY <3>3, JoinNone
      <4>2. g[i - 1] = <<>>
        BY <2>2, <3>4
      <4> QED BY <3>2, <3>4, <4>1, <4>2
    <3>5. CASE i # 1
      BY <3>2, <3>5
    <3> QED BY <3>4, <3>5
  <2>4. f = Body(f)
    <3>1. ASSUME NEW i \in 1..n
          PROVE  f[i] = IF i = 1 THEN seqs[i] ELSE f[i - 1] \o seqs[i]
      <4>1. i = 1 \/ i - 1 \in 1..n
        BY <1>1
      <4> QED BY <2>3, <4>1
    <3>2. Body(f) = [i \in 1..n |-> IF i = 1 THEN seqs[i] ELSE f[i - 1] \o seqs[i]]
      OBVIOUS
    <3>3. f = [i \in 1..n |-> f[i]]
      OBVIOUS
    <3> HIDE DEF f, Body, n
    <3> QED BY <3>1, <3>2, <3>3
  <2>5. a = Body(a)
    <3> HIDE DEF Body, f
    <3> QED BY <2>4
  <2> HIDE DEF a
  <2>6. \A i \in 1..n : a[i] = IF i = 1 THEN seqs[i] ELSE a[i - 1] \o seqs[i]
    <3>1. a = [i \in 1..n |-> IF i = 1 THEN seqs[i] ELSE a[i - 1] \o seqs[i]]
      BY <2>5
    <3> HIDE DEF n
    <3> QED BY <3>1
  <2>7. \A k \in Nat : k \in {i \in Nat : i >= 1 /\ i <= n => a[i] = g[i]}
    <3> DEFINE T == {i \in Nat : i >= 1 /\ i <= n => a[i] = g[i]}
    <3>1. 0 \in T
      OBVIOUS
    <3>2. ASSUME NEW k \in Nat, k \in T PROVE k + 1 \in T
      <4>1. SUFFICES ASSUME k + 1 <= n PROVE a[k + 1] = g[k + 1]
        OBVIOUS
      <4>2. k + 1 \in 1..n /\ (k + 1) - 1 = k
        BY <1>1, <4>1
      <4>3. CASE k = 0
        BY <2>3, <2>6, <4>2, <4>3
      <4>4. CASE k # 0
        <5>1. a[k] = g[k]
          BY <1>1, <3>2, <4>1, <4>4
        <5> QED BY <2>3, <2>6, <4>2, <4>4, <5>1
      <4> QED BY <4>3, <4>4
    <3> HIDE DEF T
    <3>3. \A k \in Nat : k \in T
      BY <3>1, <3>2, Induction
    <3> QED BY <3>3 DEF T
  <2>8. a[n] = g[n]
    BY <1>1, <1>7, <2>7
  <2> QED BY <1>4, <1>5, <2>1, <2>8
<1> QED BY <1>6, <1>7

LEMMA FlattenType ==
  ASSUME NEW S, NEW seqs \in Seq(Seq(S))
  PROVE  FlattenSeq(seqs) \in Seq(S)
<1>1. PICK g \in [0..Len(seqs) -> Seq(S)] : FlattenSeq(seqs) = g[Len(seqs)]
  BY FlattenLays
<1>2. Len(seqs) \in 0..Len(seqs)
  OBVIOUS
<1> QED BY <1>1, <1>2

LEMMA FlattenNone == FlattenSeq(<<>>) = <<>>
  BY DEF FlattenSeq

\* The first sequence stands before what comes of the others.
LEMMA FlattenCons ==
  ASSUME NEW S, NEW a \in Seq(S), NEW rest \in Seq(Seq(S))
  PROVE  FlattenSeq(<<a>> \o rest) = a \o FlattenSeq(rest)
<1> DEFINE all == <<a>> \o rest
           n == Len(rest)
<1>1. n \in Nat /\ all \in Seq(Seq(S)) /\ Len(all) = n + 1 /\ all[1] = a
      /\ \A k \in 1..n : all[k + 1] = rest[k]
  <2> DEFINE one == <<a>>
  <2>1. one \in Seq(Seq(S)) /\ Len(one) = 1 /\ one[1] = a
    BY OneIs
  <2> HIDE DEF one
  <2>2. one \o rest \in Seq(Seq(S)) /\ Joined(one \o rest, one, rest)
    BY <2>1, JoinIs
  <2>3. all = one \o rest
    BY DEF one
  <2> HIDE DEF all
  <2>4. Len(all) = 1 + n /\ all[1] = a /\ \A k \in 1..n : all[1 + k] = rest[k]
    BY <2>1, <2>2, <2>3 DEF Joined
  <2>5. n \in Nat
    OBVIOUS
  <2> HIDE DEF n
  <2>6. \A k \in 1..n : 1 + k = k + 1
    BY <2>5
  <2> QED BY <2>2, <2>3, <2>4, <2>5, <2>6
<1> HIDE DEF all
<1>2. PICK g \in [0..Len(all) -> Seq(S)] : Laid(g, all) /\ FlattenSeq(all) = g[Len(all)]
  BY <1>1, FlattenLays
<1>3. PICK h \in [0..n -> Seq(S)] : Laid(h, rest) /\ FlattenSeq(rest) = h[n]
  BY FlattenLays
<1> DEFINE T == {k \in Nat : k <= n => g[k + 1] = a \o h[k]}
<1>4. g[0] = <<>> /\ \A k \in 0..n : g[k + 1] = g[k] \o all[k + 1]
  <2>1. Len(all) - 1 = n
    BY <1>1
  <2> QED BY <1>2, <2>1 DEF Laid
<1>5. h[0] = <<>> /\ \A k \in 0..(n - 1) : h[k + 1] = h[k] \o rest[k + 1]
  BY <1>3 DEF Laid
<1> HIDE DEF n
<1>6. 0 \in T
  <2>1. 0 \in 0..n /\ 0 + 1 = 1
    BY <1>1
  <2>2. g[1] = <<>> \o a
    BY <1>1, <1>4, <2>1
  <2>3. <<>> \o a = a /\ a \o <<>> = a
    BY JoinNone
  <2> QED BY <1>5, <2>1, <2>2, <2>3
<1>7. ASSUME NEW k \in Nat, k \in T PROVE k + 1 \in T
  <2>1. SUFFICES ASSUME k + 1 <= n PROVE g[(k + 1) + 1] = a \o h[k + 1]
    OBVIOUS
  <2>2. k <= n /\ k \in 0..(n - 1) /\ k + 1 \in 0..n /\ k + 1 \in 1..n /\ k \in 0..n
    BY <1>1, <2>1
  <2>3. g[k + 1] = a \o h[k]
    BY <1>7, <2>2
  <2>4. all[(k + 1) + 1] = rest[k + 1]
    BY <1>1, <2>2
  <2>5. g[(k + 1) + 1] = g[k + 1] \o rest[k + 1]
    BY <1>4, <2>2, <2>4
  <2>6. rest[k + 1] \in Seq(S) /\ h[k] \in Seq(S)
    <3>1. h[k] \in Seq(S)
      BY <1>3, <2>2
    <3>2. rest[k + 1] \in Seq(S)
      BY <2>2 DEF n
    <3> QED BY <3>1, <3>2
  <2>7. (a \o h[k]) \o rest[k + 1] = a \o (h[k] \o rest[k + 1])
    <3> DEFINE x == h[k]
               y == rest[k + 1]
    <3>1. x \in Seq(S) /\ y \in Seq(S)
      BY <2>6
    <3> HIDE DEF x, y
    <3>2. (a \o x) \o y = a \o (x \o y)
      BY <3>1, JoinThree
    <3> QED BY <3>2 DEF x, y
  <2> QED BY <1>5, <2>2, <2>3, <2>5, <2>7
<1> HIDE DEF T
<1>8. n \in T
  BY <1>1, <1>6, <1>7, Induction
<1>9. g[n + 1] = a \o h[n]
  BY <1>1, <1>8 DEF T
<1> QED BY <1>1, <1>2, <1>3, <1>9 DEF all

LEMMA CrlfType == CRLF \in Seq(Piece) /\ Len(CRLF) = 2 /\ CRLF[1] = CR /\ CRLF[2] = LF
<1>1. CR \in Piece /\ LF \in Piece
  BY DEF Piece
<1> HIDE DEF CR, LF
<1> QED BY <1>1 DEF CRLF

LEMMA LineIsKept ==
  ASSUME NEW l \in Seq(Piece), Find(l, Colon, 1) # 0
  PROVE  HeaderLine(HeaderOf(l)) = l \o CRLF
<1> DEFINE c == Find(l, Colon, 1)
           n == Len(l)
           a == SubSeq(l, 1, c - 1)
           d == <<Colon>>
           b == SubSeq(l, c + 1, n)
           ad == a \o d
           w == ad \o b
<1>1. c \in 1..n /\ l[c] = Colon /\ n \in Nat
  BY FindIs
<1>2. d \in Seq(Piece) /\ Len(d) = 1 /\ d[1] = Colon
  <2>1. Colon \in Piece
    BY DEF Piece
  <2> QED BY <2>1, OneIs
<1>3. HeaderLine(HeaderOf(l)) = w \o CRLF
  BY DEF HeaderLine, HeaderOf
<1> HIDE DEF c, d
<1>4. a \in Seq(Piece) /\ Len(a) = c - 1 /\ \A j \in 1..(c - 1) : a[j] = l[j]
  <2>1. /\ c - 1 \in Nat /\ 1 <= (c - 1) + 1 /\ c - 1 <= Len(l) /\ (c - 1) - 1 + 1 = c - 1
        /\ \A j \in 1..(c - 1) : 1 + j - 1 = j
    BY <1>1
  <2> QED BY <2>1, CutIs
<1>5. b \in Seq(Piece) /\ Len(b) = n - c /\ \A j \in 1..(n - c) : b[j] = l[c + j]
  <2>1. /\ c + 1 \in Nat /\ 1 <= c + 1 /\ c + 1 <= n + 1 /\ n <= Len(l)
        /\ n - (c + 1) + 1 = n - c /\ \A j \in 1..(n - c) : c + 1 + j - 1 = c + j
    BY <1>1
  <2>2. /\ b \in Seq(Piece) /\ Len(b) = n - (c + 1) + 1
        /\ \A j \in 1..(n - (c + 1) + 1) : b[j] = l[c + 1 + j - 1]
    <3> DEFINE i == c + 1
    <3>1. i \in Nat /\ n \in Nat /\ 1 <= i /\ i <= n + 1 /\ n <= Len(l) /\ b = SubSeq(l, i, n)
      BY <1>1, <2>1
    <3>2. b \in Seq(Piece) /\ Len(b) = n - i + 1 /\ \A j \in 1..(n - i + 1) : b[j] = l[i + j - 1]
      <4> HIDE DEF i, b, n
      <4> QED BY <3>1, CutIs
    <3> QED BY <3>2
  <2> HIDE DEF b, n
  <2> QED BY <2>1, <2>2
<1> HIDE DEF a, b
<1>6. ad \in Seq(Piece) /\ Joined(ad, a, d)
  BY <1>2, <1>4, JoinIs
<1> HIDE DEF ad
<1>7. w \in Seq(Piece) /\ Joined(w, ad, b)
  BY <1>5, <1>6, JoinIs
<1> HIDE DEF w
<1>8. Len(ad) = c /\ ad[c] = Colon /\ \A j \in 1..(c - 1) : ad[j] = a[j]
  BY <1>1, <1>2, <1>4, <1>6 DEF Joined
<1>9. Len(w) = n /\ (\A j \in 1..c : w[j] = ad[j]) /\ \A j \in 1..(n - c) : w[c + j] = b[j]
  BY <1>1, <1>5, <1>7, <1>8 DEF Joined
<1>10. ASSUME NEW j \in 1..n PROVE w[j] = l[j]
  <2>1. CASE j < c
    <3>1. j \in 1..(c - 1) /\ j \in 1..c
      BY <1>1, <2>1
    <3> QED BY <1>4, <1>8, <1>9, <3>1
  <2>2. CASE j = c
    BY <1>1, <1>8, <1>9, <2>2
  <2>3. CASE j > c
    <3>1. j - c \in 1..(n - c) /\ c + (j - c) = j
      BY <1>1, <2>3
    <3> QED BY <1>5, <1>9, <3>1
  <2> QED BY <1>1, <2>1, <2>2, <2>3
<1>11. w = l
  BY <1>7, <1>9, <1>10, SameSeq DEF n
<1> QED BY <1>3, <1>11

\* The header section that lines were read from.
WrittenAgain(ls) == FlattenSeq([k \in DOMAIN ls |-> HeaderLine(HeaderOf(ls[k]))])

LEMMA OneMoreLine ==
  ASSUME NEW l \in Seq(Piece), Find(l, Colon, 1) # 0, NEW rest \in Seq(Seq(Piece)),
         \A k \in DOMAIN rest : Find(rest[k], Colon, 1) # 0
  PROVE  WrittenAgain(<<l>> \o rest) = (l \o CRLF) \o WrittenAgain(rest)
<1> DEFINE all == <<l>> \o rest
           n == Len(rest)
           Again(x) == HeaderLine(HeaderOf(x))
           W == [k \in 1..n |-> Again(rest[k])]
           V == [k \in 1..(n + 1) |-> Again(all[k])]
           a == l \o CRLF
           one == <<l>>
           first == <<a>>
<1>1. one \in Seq(Seq(Piece)) /\ Len(one) = 1 /\ one[1] = l
  BY OneIs
<1> HIDE DEF one
<1>2. /\ n \in Nat /\ all \in Seq(Seq(Piece)) /\ Len(all) = 1 + n /\ all[1] = l
      /\ \A k \in 1..n : all[1 + k] = rest[k]
  <2>1. one \o rest \in Seq(Seq(Piece)) /\ Joined(one \o rest, one, rest)
    BY <1>1, JoinIs
  <2>2. all = one \o rest
    BY DEF one
  <2> HIDE DEF all
  <2> QED BY <1>1, <2>1, <2>2 DEF Joined
<1> HIDE DEF all
<1>3. a \in Seq(Piece) /\ Again(l) = a
  BY LineIsKept, CrlfType, JoinIs
<1> HIDE DEF a
<1>4. ASSUME NEW k \in 1..n PROVE Again(rest[k]) \in Seq(Piece)
  <2>1. rest[k] \in Seq(Piece) /\ Find(rest[k], Colon, 1) # 0
    OBVIOUS
  <2>2. Again(rest[k]) = rest[k] \o CRLF
    BY <2>1, LineIsKept
  <2> QED BY <2>1, <2>2, CrlfType, JoinIs
<1>5. WrittenAgain(rest) = FlattenSeq(W)
  <2>1. DOMAIN rest = 1..n
    OBVIOUS
  <2> QED BY <2>1, Zenon DEF WrittenAgain
<1>6. WrittenAgain(all) = FlattenSeq(V)
  <2>1. DOMAIN all = 1..(n + 1)
    BY <1>2
  <2> QED BY <2>1, Zenon DEF WrittenAgain
<1> HIDE DEF Again
<1>7. W \in Seq(Seq(Piece)) /\ Len(W) = n /\ \A k \in 1..n : W[k] = Again(rest[k])
  BY <1>2, <1>4
<1>8. /\ \A k \in 1..(n + 1) : V[k] = Again(all[k])
      /\ \A k \in 1..(n + 1) : Again(all[k]) \in Seq(Piece)
  <2>1. ASSUME NEW k \in 1..(n + 1) PROVE Again(all[k]) \in Seq(Piece)
    <3>1. CASE k = 1
      BY <1>2, <1>3, <3>1
    <3>2. CASE k # 1
      <4>1. k - 1 \in 1..n /\ 1 + (k - 1) = k
        BY <1>2, <3>2
      <4>2. all[k] = rest[k - 1]
        BY <1>2, <4>1
      <4> QED BY <1>4, <4>1, <4>2
    <3> QED BY <3>1, <3>2
  <2> QED BY <2>1
<1>9. V \in Seq(Seq(Piece)) /\ Len(V) = n + 1
  BY <1>2, <1>8
<1> HIDE DEF V, W
<1>10. first \in Seq(Seq(Piece)) /\ Len(first) = 1 /\ first[1] = a
  BY <1>3, OneIs
<1> HIDE DEF first
<1>11. first \o W \in Seq(Seq(Piece)) /\ Joined(first \o W, first, W)
  BY <1>7, <1>10, JoinIs
<1> DEFINE F == first \o W
<1>12. F = <<a>> \o W
  BY DEF first
<1>13. F \in Seq(Seq(Piece)) /\ Joined(F, first, W)
  BY <1>11
<1> HIDE DEF F, n
<1>14. Len(F) = 1 + n /\ F[1] = a /\ \A k \in 1..n : F[1 + k] = W[k]
  BY <1>7, <1>10, <1>13 DEF Joined
<1>15. ASSUME NEW k \in 1..(n + 1) PROVE V[k] = F[k]
  <2>1. CASE k = 1
    <3>1. V[1] = Again(l)
      BY <1>2, <1>8, <2>1
    <3> QED BY <1>3, <1>14, <2>1, <3>1 DEF Again
  <2>2. CASE k # 1
    <3>1. k - 1 \in 1..n /\ 1 + (k - 1) = k
      BY <1>2, <2>2
    <3>2. F[k] = W[k - 1] /\ W[k - 1] = Again(rest[k - 1]) /\ all[k] = rest[k - 1]
      BY <1>2, <1>7, <1>14, <3>1
    <3> QED BY <1>8, <3>2
  <2> QED BY <2>1, <2>2
<1>16. V = F
  <2>1. Len(V) = Len(F) /\ \A j \in 1..Len(V) : V[j] = F[j]
    BY <1>2, <1>9, <1>14, <1>15
  <2> QED BY <1>9, <1>13, <2>1, SameSeq
<1>17. FlattenSeq(<<a>> \o W) = a \o FlattenSeq(W)
  BY <1>3, <1>7, FlattenCons
<1> QED BY <1>5, <1>6, <1>12, <1>16, <1>17 DEF all, a

\* An empty line ends the header section.
IsSep(s, j) == IsAt(s, j) /\ IsAt(s, j + 2)

LEMMA SepIs ==
  ASSUME NEW s \in Seq(Piece)
  PROVE  SepPos(s) = 0 \/ (/\ SepPos(s) \in 1..(Len(s) - 3) /\ IsSep(s, SepPos(s))
                           /\ \A j \in 1..(SepPos(s) - 1) : ~IsSep(s, j))
<1> DEFINE X == {i \in 1..(Len(s) - 3) : IsCrlf(s, i) /\ IsCrlf(s, i + 2)}
           c == CHOOSE j \in X : \A k \in X : j <= k
<1>1. SepPos(s) = IF X = {} THEN 0 ELSE c
  BY Zenon DEF SepPos
<1>2. \A j \in 1..(Len(s) - 3) : j \in X <=> IsSep(s, j)
  <2>1. \A j \in 1..(Len(s) - 3) : j \in 1..(Len(s) - 1) /\ j + 2 \in 1..(Len(s) - 1)
    OBVIOUS
  <2> QED BY <2>1, CrlfIs DEF IsSep
<1>3. X \subseteq Nat /\ X \subseteq 1..(Len(s) - 3)
  OBVIOUS
<1>4. CASE X # {}
  <2>1. SepPos(s) = c
    BY <1>1, <1>4
  <2>2. c \in X /\ \A k \in X : c <= k
    <3> HIDE DEF X
    <3> QED BY <1>3, <1>4, FirstIs
  <2> HIDE DEF c, X
  <2>3. c \in 1..(Len(s) - 3) /\ IsSep(s, c)
    BY <1>2, <1>3, <2>2
  <2>4. ASSUME NEW j \in 1..(c - 1) PROVE ~IsSep(s, j)
    <3>1. j \in 1..(Len(s) - 3) /\ ~(c <= j)
      BY <2>3
    <3> QED BY <1>2, <2>2, <3>1
  <2> QED BY <2>1, <2>3, <2>4
<1> QED BY <1>1, <1>4

LEMMA SepAt ==
  ASSUME NEW s \in Seq(Piece), NEW p \in 1..(Len(s) - 3), IsSep(s, p),
         \A j \in 1..(p - 1) : ~IsSep(s, j)
  PROVE  SepPos(s) = p
<1> DEFINE X == {i \in 1..(Len(s) - 3) : IsCrlf(s, i) /\ IsCrlf(s, i + 2)}
           c == CHOOSE j \in X : \A k \in X : j <= k
<1>1. \A j \in 1..(Len(s) - 3) : j \in X <=> IsSep(s, j)
  <2>1. \A j \in 1..(Len(s) - 3) : j \in 1..(Len(s) - 1) /\ j + 2 \in 1..(Len(s) - 1)
    OBVIOUS
  <2> QED BY <2>1, CrlfIs DEF IsSep
<1>2. p \in X
  BY <1>1
<1>3. SepPos(s) = c
  BY <1>2, Zenon DEF SepPos
<1>4. X \subseteq Nat /\ X \subseteq 1..(Len(s) - 3)
  OBVIOUS
<1>5. c \in X /\ \A k \in X : c <= k
  <2> HIDE DEF X
  <2> QED BY <1>2, <1>4, FirstIs
<1> HIDE DEF c, X
<1>6. c \in 1..(Len(s) - 3) /\ c <= p /\ IsSep(s, c)
  BY <1>1, <1>2, <1>4, <1>5
<1>7. ~(c < p)
  <2>1. SUFFICES ASSUME c < p PROVE FALSE
    OBVIOUS
  <2>2. c \in 1..(p - 1)
    BY <1>6, <2>1
  <2> QED BY <1>6, <2>2
<1> QED BY <1>3, <1>6, <1>7

\* No line of the section is empty, and it does not end with the end of one.
IsSection(s) ==
  /\ Len(s) >= 1
  /\ 1 <= Len(s) - 1 => ~IsAt(s, 1)
  /\ \A j \in 1..(Len(s) - 1) : IsAt(s, j) =>
       j + 2 <= Len(s) /\ (j + 2 <= Len(s) - 1 => ~IsAt(s, j + 2))

LEMMA SectionKept ==
  ASSUME NEW s \in Seq(Piece), IsSection(s),
         \A k \in DOMAIN HeaderLines(s) : Find(HeaderLines(s)[k], Colon, 1) # 0
  PROVE  WrittenAgain(HeaderLines(s)) = s \o CRLF
<1> DEFINE n == Len(s)
           N == n + 3
           Colons(ls) == \A k \in DOMAIN ls : Find(ls[k], Colon, 1) # 0
           Behind(i) == SubSeq(s, i, n)
<1>1. n \in Nat /\ n >= 1 /\ N \in Nat
  BY DEF IsSection
<1>2. PICK f \in [1..N -> Seq(Seq(Piece))] :
         /\ \A i \in 1..N : f[i] = Splitting(s, i, f)
         /\ HeaderLines(s) = f[1]
  BY LinesSplit
<1> DEFINE T == {i \in 1..N : i <= n /\ (i <= n - 1 => ~IsAt(s, i)) /\ Colons(f[i])
                                => WrittenAgain(f[i]) = Behind(i) \o CRLF}
<1>3. ASSUME NEW i \in 1..N, \A j \in (i + 1)..N : j \in T PROVE i \in T
  <2>1. SUFFICES ASSUME i <= n, i <= n - 1 => ~IsAt(s, i), Colons(f[i])
                 PROVE  WrittenAgain(f[i]) = Behind(i) \o CRLF
    OBVIOUS
  <2> DEFINE e == LineEnd(s, i)
             l == SubSeq(s, i, e - 1)
             r == f[e + 2]
  <2>2. i \in 1..n
    BY <1>1, <2>1
  <2>3. /\ e = n + 1 \/ (e \in i..(n - 1) /\ IsAt(s, e))
        /\ \A j \in i..(n - 1) : j < e => ~IsAt(s, j)
    BY <2>2, LineEndIs
  <2>4. f[i] = (IF e = i THEN <<>> ELSE <<l>>) \o r
    <3>1. ~(i > Len(s)) /\ f[i] = Splitting(s, i, f)
      BY <1>1, <1>2, <2>1
    <3> QED BY <3>1, Zenon DEF Splitting
  <2> HIDE DEF e
  <2>5. e # i /\ e \in (i + 1)..(n + 1) /\ e + 2 \in (i + 1)..N /\ e + 2 \in 1..N
    <3>1. e # i
      BY <1>1, <2>1, <2>2, <2>3
    <3> QED BY <1>1, <2>2, <2>3, <3>1
  <2>6. f[i] = <<l>> \o r
    BY <2>4, <2>5
  <2>7. r \in Seq(Seq(Piece))
    <3> HIDE DEF N
    <3> QED BY <1>2, <2>5
  <2>8. l \in Seq(Piece) /\ Len(l) = e - i /\ \A j \in 1..(e - i) : l[j] = s[i + j - 1]
    <3> DEFINE k == e - 1
    <3>1. i \in Nat /\ k \in Nat /\ 1 <= i /\ i <= k + 1 /\ k <= Len(s) /\ k - i + 1 = e - i
      BY <1>1, <2>2, <2>5
    <3>2. l = SubSeq(s, i, k)
      OBVIOUS
    <3> HIDE DEF k, l
    <3> QED BY <3>1, <3>2, CutIs
  <2> HIDE DEF l, r
  <2>9. Find(l, Colon, 1) # 0 /\ Colons(r)
    <3> DEFINE one == <<l>>
    <3>1. one \in Seq(Seq(Piece)) /\ Len(one) = 1 /\ one[1] = l
      BY <2>8, OneIs
    <3>2. one \o r \in Seq(Seq(Piece)) /\ Joined(one \o r, one, r)
      BY <2>7, <3>1, JoinIs
    <3>3. f[i] = one \o r
      BY <2>6
    <3> HIDE DEF one
    <3> DEFINE g == f[i]
    <3>4. g \in Seq(Seq(Piece)) /\ Joined(g, one, r)
      BY <3>2, <3>3
    <3>5. \A k \in DOMAIN g : Find(g[k], Colon, 1) # 0
      BY <2>1
    <3> HIDE DEF g
    <3>6. Len(g) = 1 + Len(r) /\ g[1] = l /\ \A k \in 1..Len(r) : g[1 + k] = r[k]
      BY <3>1, <3>4 DEF Joined
    <3>7. DOMAIN g = 1..(1 + Len(r)) /\ DOMAIN r = 1..Len(r) /\ Len(r) \in Nat
      BY <2>7, <3>4, <3>6
    <3>8. \A k \in 1..Len(r) : 1 + k \in DOMAIN g
      BY <3>7
    <3>9. 1 \in DOMAIN g
      BY <3>7
    <3> QED BY <3>5, <3>6, <3>7, <3>8, <3>9
  <2>10. WrittenAgain(f[i]) = (l \o CRLF) \o WrittenAgain(r)
    BY <2>6, <2>7, <2>8, <2>9, OneMoreLine
  <2>11. CASE e = n + 1
    <3>1. f[N] = Splitting(s, N, f) /\ N > Len(s) /\ e + 2 = N
      BY <1>1, <1>2, <2>11
    <3>2. r = <<>>
      BY <3>1 DEF Splitting, r
    <3>3. WrittenAgain(r) = <<>>
      <4>1. [k \in DOMAIN r |-> HeaderLine(HeaderOf(r[k]))] = <<>>
        BY <3>2
      <4> QED BY <4>1, FlattenNone DEF WrittenAgain
    <3>4. l = Behind(i)
      BY <1>1, <2>11 DEF l
    <3>5. l \o CRLF \in Seq(Piece)
      BY <2>8, CrlfType, JoinIs
    <3>6. (l \o CRLF) \o <<>> = l \o CRLF
      BY <3>5, JoinNone
    <3> QED BY <2>10, <3>3, <3>4, <3>6
  <2>12. CASE e # n + 1
    <3> DEFINE t == Behind(e + 2)
               a == l \o CRLF
               w == a \o t
    <3>1. e \in i..(n - 1) /\ IsAt(s, e) /\ e \in 1..(n - 1)
      BY <2>2, <2>3, <2>12
    <3>2. e + 2 <= n /\ (e + 2 <= n - 1 => ~IsAt(s, e + 2))
      BY <3>1 DEF IsSection
    <3>3. e + 2 \in T
      BY <1>3, <2>5
    <3>4. WrittenAgain(r) = t \o CRLF
      BY <2>9, <3>2, <3>3 DEF r
    <3>5. t \in Seq(Piece) /\ Len(t) = n - e - 1 /\ \A j \in 1..(n - e - 1) : t[j] = s[e + 1 + j]
      <4> DEFINE i2 == e + 2
      <4>1. /\ i2 \in Nat /\ n \in Nat /\ 1 <= i2 /\ i2 <= n + 1 /\ n <= Len(s)
            /\ n - i2 + 1 = n - e - 1
            /\ \A j \in 1..(n - e - 1) : i2 + j - 1 = e + 1 + j
        BY <1>1, <3>1, <3>2
      <4>2. t = SubSeq(s, i2, n)
        OBVIOUS
      <4> HIDE DEF t, i2, n
      <4>3. /\ t \in Seq(Piece) /\ Len(t) = n - i2 + 1
            /\ \A j \in 1..(n - i2 + 1) : t[j] = s[i2 + j - 1]
        BY <4>1, <4>2, CutIs
      <4> QED BY <4>1, <4>3
    <3> HIDE DEF t
    <3>6. a \in Seq(Piece) /\ Joined(a, l, CRLF)
      BY <2>8, CrlfType, JoinIs
    <3> HIDE DEF a
    <3>7. w \in Seq(Piece) /\ Joined(w, a, t)
      BY <3>5, <3>6, JoinIs
    <3>8. a \o (t \o CRLF) = w \o CRLF
      <4>1. a \in Seq(Piece) /\ t \in Seq(Piece) /\ CRLF \in Seq(Piece)
        BY <3>5, <3>6, CrlfType
      <4>2. (a \o t) \o CRLF = a \o (t \o CRLF)
        BY ONLY <4>1, JoinThree
      <4> QED BY <4>2
    <3> HIDE DEF w
    <3>9. /\ Len(a) = e - i + 2 /\ a[e - i + 1] = CR /\ a[e - i + 2] = LF
          /\ \A j \in 1..(e - i) : a[j] = l[j]
      <4>1. /\ Len(a) = (e - i) + 2 /\ \A j \in 1..(e - i) : a[j] = l[j]
            /\ \A j \in 1..2 : a[(e - i) + j] = CRLF[j]
        BY <2>8, <3>6, CrlfType DEF Joined
      <4>2. 1 \in 1..2 /\ 2 \in 1..2
        OBVIOUS
      <4> QED BY <4>1, <4>2, CrlfType
    <3>10. /\ Len(w) = n - i + 1 /\ \A j \in 1..(e - i + 2) : w[j] = a[j]
           /\ \A j \in 1..(n - e - 1) : w[e - i + 2 + j] = t[j]
      BY <1>1, <2>2, <3>1, <3>5, <3>7, <3>9 DEF Joined
    <3>11. s[e] = CR /\ s[e + 1] = LF
      BY <3>1 DEF IsAt
    <3>12. ASSUME NEW j \in 1..(n - i + 1) PROVE w[j] = s[i + j - 1]
      <4>1. CASE j <= e - i
        <5>1. j \in 1..(e - i) /\ j \in 1..(e - i + 2)
          BY <2>2, <3>1, <4>1
        <5> QED BY <2>8, <3>9, <3>10, <5>1
      <4>2. CASE j = e - i + 1
        <5>1. j \in 1..(e - i + 2) /\ i + j - 1 = e
          BY <2>2, <3>1, <4>2
        <5>2. w[j] = a[e - i + 1]
          BY <3>10, <4>2, <5>1
        <5> QED BY <3>9, <3>11, <5>1, <5>2
      <4>3. CASE j = e - i + 2
        <5>1. j \in 1..(e - i + 2) /\ i + j - 1 = e + 1
          BY <2>2, <3>1, <4>3
        <5>2. w[j] = a[e - i + 2]
          BY <3>10, <4>3, <5>1
        <5> QED BY <3>9, <3>11, <5>1, <5>2
      <4>4. CASE j > e - i + 2
        <5> DEFINE k == j - (e - i + 2)
        <5>1. k \in 1..(n - e - 1) /\ e - i + 2 + k = j /\ e + 1 + k = i + j - 1
          BY <1>1, <2>2, <3>1, <4>4
        <5> HIDE DEF k
        <5>2. w[e - i + 2 + k] = t[k] /\ t[k] = s[e + 1 + k]
          BY <3>5, <3>10, <5>1
        <5> QED BY <5>1, <5>2
      <4>5. e - i \in Nat
        BY <1>1, <2>2, <3>1
      <4>6. j <= e - i \/ j = e - i + 1 \/ j = e - i + 2 \/ j > e - i + 2
        BY <4>5
      <4> QED BY <4>1, <4>2, <4>3, <4>4, <4>6, Zenon
    <3>13. Behind(i) \in Seq(Piece) /\ Len(Behind(i)) = n - i + 1
           /\ \A j \in 1..(n - i + 1) : Behind(i)[j] = s[i + j - 1]
      <4> DEFINE u == Behind(i)
      <4>1. i \in Nat /\ n \in Nat /\ 1 <= i /\ i <= n + 1 /\ n <= Len(s) /\ u = SubSeq(s, i, n)
        BY <1>1, <2>2
      <4> HIDE DEF u, n
      <4>2. u \in Seq(Piece) /\ Len(u) = n - i + 1 /\ \A j \in 1..(n - i + 1) : u[j] = s[i + j - 1]
        BY <4>1, CutIs
      <4> QED BY <4>2 DEF u
    <3> HIDE DEF Behind
    <3>14. w = Behind(i)
      <4>1. Len(w) = Len(Behind(i)) /\ \A j \in 1..Len(w) : w[j] = Behind(i)[j]
        BY <3>10, <3>12, <3>13
      <4> QED BY <3>7, <3>13, <4>1, SameSeq
    <3> QED BY <2>10, <3>4, <3>8, <3>14 DEF a
  <2> QED BY <2>11, <2>12
<1> HIDE DEF T
<1>4. \A i \in 1..N : i \in T
  <2> HIDE DEF N
  <2> QED BY <1>1, <1>3, DownInduction
<1>5. 1 \in T /\ 1 \in 1..N
  BY <1>1, <1>4
<1>6. Behind(1) = s
  <2> DEFINE u == Behind(1)
  <2>1. n \in Nat /\ 1 <= n + 1 /\ n <= Len(s) /\ n - 1 + 1 = n /\ \A j \in 1..n : 1 + j - 1 = j
    BY <1>1
  <2>2. u \in Seq(Piece) /\ Len(u) = n /\ \A j \in 1..n : u[j] = s[j]
    BY <1>1
  <2> HIDE DEF u
  <2>3. u = s
    BY <2>2, SameSeq
  <2> QED BY <2>3 DEF u
<1>7. Colons(f[1]) /\ (1 <= n - 1 => ~IsAt(s, 1))
  BY <1>2 DEF IsSection
<1> HIDE DEF Colons, Behind
<1>8. WrittenAgain(f[1]) = Behind(1) \o CRLF
  BY <1>1, <1>5, <1>7 DEF T
<1> QED BY <1>2, <1>6, <1>8

\* Whatever frame with headers is accepted, nothing of it is lost.
LEMMA WireIsKept ==
  ASSUME NEW w \in Seq(Piece), NEW p, p = parse(w), p.ok, SubSeq(w, 1, 2) # CRLF
  PROVE  serialize([headers |-> p.headers, body |-> p.body]) = w
<1> DEFINE n == Len(w)
           c == SepPos(w)
           s == SubSeq(w, 1, c - 1)
           lines == HeaderLines(s)
           b == SubSeq(w, c + 4, n)
           H == [k \in DOMAIN lines |-> HeaderOf(lines[k])]
           NoColon(ls) == \E k \in DOMAIN ls : Find(ls[k], Colon, 1) = 0
<1>1. ~(c = 0 \/ NoColon(lines))
  <2>1. p = IF c = 0 \/ NoColon(lines) THEN ParseError ELSE [ok |-> TRUE, headers |-> H, body |-> b]
    BY Zenon DEF parse
  <2> HIDE DEF c, NoColon, lines
  <2> QED BY <2>1 DEF ParseError
<1>2. p.headers = H /\ p.body = b
  <2>1. p = IF c = 0 \/ NoColon(lines) THEN ParseError ELSE [ok |-> TRUE, headers |-> H, body |-> b]
    BY Zenon DEF parse
  <2> HIDE DEF c, NoColon, lines, H, b
  <2> QED BY <1>1, <2>1
<1>3. n \in Nat /\ c \in 1..(n - 3) /\ IsSep(w, c) /\ \A j \in 1..(c - 1) : ~IsSep(w, j)
  BY <1>1, SepIs
<1> HIDE DEF c
<1>4. c # 1
  <2>1. SUFFICES ASSUME c = 1 PROVE FALSE
    OBVIOUS
  <2>2. 1 \in 1..(Len(w) - 1) /\ IsAt(w, 1)
    BY <1>3, <2>1 DEF IsSep
  <2>3. IsCrlf(w, 1)
    BY <2>2, CrlfIs
  <2> QED BY <2>3 DEF IsCrlf
<1>5. s \in Seq(Piece) /\ Len(s) = c - 1 /\ \A j \in 1..(c - 1) : s[j] = w[j]
  <2> DEFINE k == c - 1
  <2>1. /\ k \in Nat /\ 1 <= k + 1 /\ k <= Len(w) /\ k - 1 + 1 = k
        /\ \A j \in 1..k : 1 + j - 1 = j
    BY <1>3
  <2>2. s = SubSeq(w, 1, k)
    OBVIOUS
  <2> HIDE DEF s, k
  <2>3. s \in Seq(Piece) /\ Len(s) = k - 1 + 1 /\ \A j \in 1..(k - 1 + 1) : s[j] = w[1 + j - 1]
    BY <2>1, <2>2, CutIs
  <2>4. s \in Seq(Piece) /\ Len(s) = k /\ \A j \in 1..k : s[j] = w[j]
    BY <2>1, <2>3
  <2> QED BY <2>4 DEF k
<1>6. b \in Seq(Piece) /\ Len(b) = n - c - 3 /\ \A j \in 1..(n - c - 3) : b[j] = w[c + 3 + j]
  <2> DEFINE i == c + 4
  <2>1. /\ i \in Nat /\ n \in Nat /\ 1 <= i /\ i <= n + 1 /\ n <= Len(w) /\ n - i + 1 = n - c - 3
        /\ \A j \in 1..(n - c - 3) : i + j - 1 = c + 3 + j
    BY <1>3
  <2>2. b = SubSeq(w, i, n)
    OBVIOUS
  <2> HIDE DEF b, i, n
  <2>3. b \in Seq(Piece) /\ Len(b) = n - i + 1 /\ \A j \in 1..(n - i + 1) : b[j] = w[i + j - 1]
    BY <2>1, <2>2, CutIs
  <2> QED BY <2>1, <2>3
<1> HIDE DEF b, n
<1>7. IsSection(s)
  <2> HIDE DEF s
  <2>1. \A j \in 1..(c - 2) : IsAt(s, j) <=> IsAt(w, j)
    <3>1. \A j \in 1..(c - 2) : j \in 1..(c - 1) /\ j + 1 \in 1..(c - 1)
      BY <1>3
    <3> QED BY <1>5, <3>1 DEF IsAt
  <2>2. Len(s) >= 1 /\ Len(s) - 1 = c - 2
    BY <1>3, <1>4, <1>5
  <2>3. 1 <= c - 2 => ~IsAt(s, 1)
    <3>1. SUFFICES ASSUME 1 <= c - 2, IsAt(s, 1) PROVE FALSE
      OBVIOUS
    <3>2. 1 \in 1..(c - 2) /\ 1 \in 1..(Len(w) - 1)
      BY <1>3, <3>1 DEF n
    <3>3. IsCrlf(w, 1)
      BY <2>1, <3>1, <3>2, CrlfIs
    <3> QED BY <3>3 DEF IsCrlf
  <2>4. ASSUME NEW j \in 1..(c - 2), IsAt(s, j)
        PROVE  j + 2 <= c - 1 /\ (j + 2 <= c - 2 => ~IsAt(s, j + 2))
    <3>1. IsAt(w, j)
      BY <2>1, <2>4
    <3>2. j \in 1..(c - 1) /\ ~IsAt(w, j + 2)
      BY <1>3, <3>1 DEF IsSep
    <3>3. j + 2 # c
      <4>1. IsAt(w, c)
        BY <1>3 DEF IsSep
      <4> QED BY <3>2, <4>1
    <3>4. j + 2 <= c - 1
      BY <1>3, <3>3
    <3>5. ASSUME j + 2 <= c - 2 PROVE ~IsAt(s, j + 2)
      <4>1. j + 2 \in 1..(c - 2)
        BY <1>3, <3>5
      <4> QED BY <2>1, <3>2, <4>1
    <3> QED BY <3>4, <3>5
  <2>5. \A j \in 1..(Len(s) - 1) : IsAt(s, j) =>
          j + 2 <= Len(s) /\ (j + 2 <= Len(s) - 1 => ~IsAt(s, j + 2))
    BY <1>5, <2>2, <2>4
  <2>6. 1 <= Len(s) - 1 => ~IsAt(s, 1)
    BY <2>2, <2>3
  <2> QED BY <2>2, <2>5, <2>6 DEF IsSection
<1> HIDE DEF s
<1>8. WrittenAgain(lines) = s \o CRLF
  <2>1. \A k \in DOMAIN lines : Find(lines[k], Colon, 1) # 0
    BY <1>1
  <2> QED BY <1>5, <1>7, <2>1, SectionKept
<1>9. FlattenSeq([i \in DOMAIN H |-> HeaderLine(H[i])]) = WrittenAgain(lines)
  <2> HIDE DEF lines
  <2>1. DOMAIN H = DOMAIN lines /\ \A k \in DOMAIN lines : H[k] = HeaderOf(lines[k])
    OBVIOUS
  <2> HIDE DEF H
  <2>2. [i \in DOMAIN H |-> HeaderLine(H[i])] =
          [k \in DOMAIN lines |-> HeaderLine(HeaderOf(lines[k]))]
    BY <2>1
  <2> QED BY <2>2 DEF WrittenAgain
<1> DEFINE x == s \o CRLF
           y == x \o CRLF
           z == y \o b
<1>10. serialize([headers |-> p.headers, body |-> p.body]) = z
  <2> HIDE DEF H, lines
  <2>1. serialize([headers |-> H, body |-> b]) =
          FlattenSeq([i \in DOMAIN H |-> HeaderLine(H[i])]) \o CRLF \o b
    BY DEF serialize
  <2> QED BY <1>2, <1>8, <1>9, <2>1
<1>11. x \in Seq(Piece) /\ Joined(x, s, CRLF)
  BY <1>5, CrlfType, JoinIs
<1> HIDE DEF x
<1>12. y \in Seq(Piece) /\ Joined(y, x, CRLF)
  BY <1>11, CrlfType, JoinIs
<1> HIDE DEF y
<1>13. z \in Seq(Piece) /\ Joined(z, y, b)
  BY <1>6, <1>12, JoinIs
<1> HIDE DEF z, lines, H
<1>14. Len(x) = c + 1 /\ x[c] = CR /\ x[c + 1] = LF /\ \A j \in 1..(c - 1) : x[j] = s[j]
  <2>1. /\ Len(x) = (c - 1) + 2 /\ \A j \in 1..(c - 1) : x[j] = s[j]
        /\ \A j \in 1..2 : x[(c - 1) + j] = CRLF[j]
    BY <1>5, <1>11, CrlfType DEF Joined
  <2>2. (c - 1) + 1 = c /\ (c - 1) + 2 = c + 1 /\ 1 \in 1..2 /\ 2 \in 1..2
    BY <1>3
  <2>3. x[(c - 1) + 1] = CRLF[1] /\ x[(c - 1) + 2] = CRLF[2]
    BY <2>1, <2>2
  <2> QED BY <2>1, <2>2, <2>3, CrlfType
<1>15. /\ Len(y) = c + 3 /\ y[c + 2] = CR /\ y[c + 3] = LF
       /\ \A j \in 1..(c + 1) : y[j] = x[j]
  <2>1. /\ Len(y) = (c + 1) + 2 /\ \A j \in 1..(c + 1) : y[j] = x[j]
        /\ \A j \in 1..2 : y[(c + 1) + j] = CRLF[j]
    BY <1>12, <1>14, CrlfType DEF Joined
  <2>2. (c + 1) + 1 = c + 2 /\ (c + 1) + 2 = c + 3 /\ 1 \in 1..2 /\ 2 \in 1..2
    BY <1>3
  <2>3. y[(c + 1) + 1] = CRLF[1] /\ y[(c + 1) + 2] = CRLF[2]
    BY <2>1, <2>2
  <2> QED BY <2>1, <2>2, <2>3, CrlfType
<1>16. /\ Len(z) = n /\ \A j \in 1..(c + 3) : z[j] = y[j]
       /\ \A j \in 1..(n - c - 3) : z[c + 3 + j] = b[j]
  <2>1. /\ Len(z) = (c + 3) + (n - c - 3) /\ \A j \in 1..(c + 3) : z[j] = y[j]
        /\ \A j \in 1..(n - c - 3) : z[(c + 3) + j] = b[j]
    BY <1>6, <1>13, <1>15 DEF Joined
  <2>2. (c + 3) + (n - c - 3) = n
    BY <1>3
  <2> QED BY <2>1, <2>2
<1>17. w[c] = CR /\ w[c + 1] = LF /\ w[c + 2] = CR /\ w[c + 3] = LF
  <2>1. (c + 2) + 1 = c + 3
    BY <1>3
  <2> QED BY <1>3, <2>1 DEF IsSep, IsAt
<1>18. ASSUME NEW j \in 1..n PROVE z[j] = w[j]
  <2>1. CASE j < c
    <3>1. j \in 1..(c - 1) /\ j \in 1..(c + 1) /\ j \in 1..(c + 3)
      BY <1>3, <2>1
    <3>2. z[j] = y[j] /\ y[j] = x[j]
      BY <1>15, <1>16, <3>1
    <3> QED BY <1>5, <1>14, <3>1, <3>2
  <2>2. CASE j \in {c, c + 1}
    <3>1. j \in 1..(c + 1) /\ j \in 1..(c + 3)
      BY <1>3, <2>2
    <3>2. z[j] = y[j] /\ y[j] = x[j]
      BY <1>15, <1>16, <3>1
    <3> QED BY <1>14, <1>17, <2>2, <3>2
  <2>3. CASE j \in {c + 2, c + 3}
    <3>1. j \in 1..(c + 3)
      BY <1>3, <2>3
    <3>2. z[j] = y[j]
      BY <1>16, <3>1
    <3> QED BY <1>15, <1>17, <2>3, <3>2
  <2>4. CASE j > c + 3
    <3> DEFINE k == j - c - 3
    <3>1. k \in 1..(n - c - 3) /\ c + 3 + k = j
      BY <1>3, <2>4
    <3> HIDE DEF k
    <3>2. z[c + 3 + k] = b[k] /\ b[k] = w[c + 3 + k]
      BY <1>6, <1>16, <3>1
    <3> QED BY <3>1, <3>2
  <2> QED BY <1>3, <2>1, <2>2, <2>3, <2>4
<1>19. z = w
  <2>1. Len(z) = Len(w) /\ \A j \in 1..Len(z) : z[j] = w[j]
    BY <1>16, <1>18 DEF n
  <2> QED BY <1>13, <2>1, SameSeq
<1> QED BY <1>10, <1>19

HeaderText(h) == h.name \o <<Colon>> \o h.value

Headers == Seq([name : Seq(Piece), value : Seq(Piece)])

\* Neither part of a header holds a line end, nor its name a colon.
PlainHeader(h) ==
  /\ \A j \in 1..Len(h.name) : h.name[j] # CR /\ h.name[j] # Colon
  /\ \A j \in 1..Len(h.value) : h.value[j] # CR

LEMMA HeaderIsRead ==
  ASSUME NEW h \in [name : Seq(Piece), value : Seq(Piece)], PlainHeader(h)
  PROVE  /\ HeaderText(h) \in Seq(Piece) /\ Len(HeaderText(h)) >= 1
         /\ \A j \in 1..Len(HeaderText(h)) : HeaderText(h)[j] # CR
         /\ Find(HeaderText(h), Colon, 1) # 0
         /\ HeaderOf(HeaderText(h)) = h
<1> DEFINE a == h.name
           d == <<Colon>>
           b == h.value
           ad == a \o d
           w == ad \o b
           l == Len(a)
           m == Len(b)
<1>1. HeaderText(h) = w
  BY DEF HeaderText
<1>2. a \in Seq(Piece) /\ b \in Seq(Piece) /\ h = [name |-> a, value |-> b]
  OBVIOUS
<1>3. /\ \A j \in 1..l : a[j] # CR /\ a[j] # Colon
      /\ \A j \in 1..m : b[j] # CR
  BY DEF PlainHeader
<1> HIDE DEF a, b
<1>4. l \in Nat /\ m \in Nat
  BY <1>2
<1>5. d \in Seq(Piece) /\ Len(d) = 1 /\ d[1] = Colon
  <2>1. Colon \in Piece
    BY DEF Piece
  <2> QED BY <2>1, OneIs
<1> HIDE DEF d
<1>6. ad \in Seq(Piece) /\ Joined(ad, a, d)
  BY <1>2, <1>5, JoinIs
<1> HIDE DEF ad
<1>7. w \in Seq(Piece) /\ Joined(w, ad, b)
  BY <1>2, <1>6, JoinIs
<1> HIDE DEF w
<1>8. Len(ad) = l + 1 /\ ad[l + 1] = Colon /\ \A j \in 1..l : ad[j] = a[j]
  BY <1>4, <1>5, <1>6 DEF Joined
<1>9. /\ Len(w) = l + 1 + m /\ (\A j \in 1..(l + 1) : w[j] = ad[j])
      /\ \A j \in 1..m : w[l + 1 + j] = b[j]
  BY <1>4, <1>7, <1>8 DEF Joined
<1> HIDE DEF l, m
<1>10. /\ w[l + 1] = Colon /\ (\A j \in 1..l : w[j] = a[j])
       /\ l + 1 \in 1..Len(w) /\ Len(w) >= 1
  BY <1>4, <1>8, <1>9
<1>11. ASSUME NEW j \in 1..Len(w) PROVE w[j] # CR
  <2>1. CASE j <= l
    <3>1. j \in 1..l
      BY <1>4, <2>1
    <3> QED BY <1>3, <1>10, <3>1
  <2>2. CASE j = l + 1
    <3>1. Colon # CR
      BY DEF Colon, CR
    <3> QED BY <1>10, <2>2, <3>1
  <2>3. CASE j > l + 1
    <3>1. j - (l + 1) \in 1..m /\ l + 1 + (j - (l + 1)) = j
      BY <1>4, <1>9, <2>3
    <3>2. w[l + 1 + (j - (l + 1))] = b[j - (l + 1)]
      BY <1>9, <3>1
    <3> QED BY <1>3, <3>1, <3>2
  <2> QED BY <1>4, <2>1, <2>2, <2>3
<1>12. Find(w, Colon, 1) = l + 1
  <2>1. ASSUME NEW j \in 1..((l + 1) - 1) PROVE w[j] # Colon
    <3>1. j \in 1..l
      BY <1>4
    <3> QED BY <1>3, <1>10, <3>1
  <2> QED BY <1>7, <1>10, <2>1, FoundAt
<1>13. HeaderOf(w) = h
  <2> DEFINE n == Len(w)
             u == SubSeq(w, 1, l)
             v == SubSeq(w, l + 2, n)
  <2>1. HeaderOf(w) = [name |-> u, value |-> v]
    <3>1. (l + 1) - 1 = l /\ (l + 1) + 1 = l + 2
      BY <1>4
    <3> QED BY <1>12, <3>1 DEF HeaderOf
  <2>2. u \in Seq(Piece) /\ Len(u) = l /\ \A j \in 1..l : u[j] = w[j]
    <3>1. l <= Len(w) /\ 1 <= l + 1 /\ l - 1 + 1 = l /\ \A j \in 1..l : 1 + j - 1 = j
      BY <1>4, <1>9
    <3> QED BY <1>4, <1>7, <3>1, CutIs
  <2>3. v \in Seq(Piece) /\ Len(v) = m /\ \A j \in 1..m : v[j] = w[l + 1 + j]
    <3> DEFINE i == l + 2
    <3>1. /\ i \in Nat /\ n \in Nat /\ 1 <= i /\ i <= n + 1 /\ n <= Len(w) /\ n - i + 1 = m
          /\ \A j \in 1..m : i + j - 1 = l + 1 + j
      BY <1>4, <1>9
    <3>2. v = SubSeq(w, i, n)
      OBVIOUS
    <3> HIDE DEF v, i, n
    <3>3. v \in Seq(Piece) /\ Len(v) = n - i + 1 /\ \A j \in 1..(n - i + 1) : v[j] = w[i + j - 1]
      BY <1>7, <3>1, <3>2, CutIs
    <3> QED BY <3>1, <3>3
  <2> HIDE DEF u, v
  <2>4. u = a
    <3>1. Len(u) = Len(a) /\ \A j \in 1..Len(u) : u[j] = a[j]
      BY <1>10, <2>2 DEF l
    <3> QED BY <1>2, <2>2, <3>1, SameSeq
  <2>5. v = b
    <3>1. Len(v) = Len(b) /\ \A j \in 1..Len(v) : v[j] = b[j]
      BY <1>9, <2>3 DEF m
    <3> QED BY <1>2, <2>3, <3>1, SameSeq
  <2> QED BY <1>2, <2>1, <2>4, <2>5
<1>14. l + 1 # 0
  BY <1>4
<1> QED BY <1>1, <1>7, <1>10, <1>11, <1>12, <1>13, <1>14

\* How a frame of n header lines lies: the k-th of them ends at place[k].
FrameLies(F, n, X, place, body) ==
  /\ n \in Nat /\ n >= 1 /\ X \in [1..n -> Seq(Piece)] /\ place \in [0..n -> Nat]
  /\ body \in Seq(Piece) /\ F \in Seq(Piece)
  /\ place[0] = 0 /\ \A k \in 0..n : place[k] <= place[n]
  /\ \A k \in 1..n : /\ Len(X[k]) >= 1 /\ place[k] = place[k - 1] + Len(X[k]) + 2
                     /\ \A j \in 1..Len(X[k]) : X[k][j] # CR /\ F[place[k - 1] + j] = X[k][j]
                     /\ F[place[k] - 1] = CR /\ F[place[k]] = LF
  /\ Len(F) = place[n] + 2 + Len(body)
  /\ F[place[n] + 1] = CR /\ F[place[n] + 2] = LF
  /\ \A j \in 1..Len(body) : F[place[n] + 2 + j] = body[j]

LEMMA SerializedLies ==
  ASSUME NEW hs \in Headers, Len(hs) >= 1, \A k \in 1..Len(hs) : PlainHeader(hs[k]),
         NEW body \in Seq(Piece)
  PROVE  \E place : FrameLies(serialize([headers |-> hs, body |-> body]), Len(hs),
                              [k \in 1..Len(hs) |-> HeaderText(hs[k])], place, body)
<1> DEFINE n == Len(hs)
           X == [k \in 1..n |-> HeaderText(hs[k])]
           L == [k \in 1..n |-> HeaderLine(hs[k])]
           G == FlattenSeq(L)
           y == G \o CRLF
           F == y \o body
<1>1. n \in Nat /\ n >= 1 /\ \A k \in 1..n : hs[k] \in [name : Seq(Piece), value : Seq(Piece)]
  <2> DEFINE R == [name : Seq(Piece), value : Seq(Piece)]
  <2>1. hs \in Seq(R)
    BY DEF Headers
  <2> HIDE DEF R
  <2>2. n \in Nat /\ \A k \in 1..n : hs[k] \in R
    BY <2>1
  <2> QED BY <2>2 DEF R
<1>2. serialize([headers |-> hs, body |-> body]) = F
  <2>1. DOMAIN hs = 1..n
    BY DEF Headers
  <2>2. serialize([headers |-> hs, body |-> body]) =
          FlattenSeq([i \in DOMAIN hs |-> HeaderLine(hs[i])]) \o CRLF \o body
    BY DEF serialize
  <2> HIDE DEF n
  <2> QED BY <2>1, <2>2
<1>3. ASSUME NEW k \in 1..n
      PROVE  /\ X[k] \in Seq(Piece) /\ Len(X[k]) >= 1 /\ \A j \in 1..Len(X[k]) : X[k][j] # CR
             /\ L[k] \in Seq(Piece) /\ Joined(L[k], X[k], CRLF)
  <2>1. X[k] = HeaderText(hs[k]) /\ L[k] = X[k] \o CRLF
    BY DEF HeaderText, HeaderLine
  <2>2. hs[k] \in [name : Seq(Piece), value : Seq(Piece)] /\ PlainHeader(hs[k])
    BY <1>1
  <2> HIDE DEF X, L
  <2>3. X[k] \in Seq(Piece) /\ Len(X[k]) >= 1 /\ \A j \in 1..Len(X[k]) : X[k][j] # CR
    BY <2>1, <2>2, HeaderIsRead
  <2>4. X[k] \o CRLF \in Seq(Piece) /\ Joined(X[k] \o CRLF, X[k], CRLF)
    BY <2>3, CrlfType, JoinIs
  <2> QED BY <2>1, <2>3, <2>4
<1>4. X \in [1..n -> Seq(Piece)]
  <2> SUFFICES \A k \in 1..n : HeaderText(hs[k]) \in Seq(Piece)
    OBVIOUS
  <2> QED BY <1>3
<1>5. L \in Seq(Seq(Piece)) /\ Len(L) = n
  <2>1. \A k \in 1..n : HeaderLine(hs[k]) \in Seq(Piece)
    BY <1>3
  <2> HIDE DEF n
  <2> QED BY <1>1, <2>1
<1> HIDE DEF n, X, L
<1>6. PICK g \in [0..n -> Seq(Piece)] : Laid(g, L) /\ G = g[n]
  BY <1>5, FlattenLays
<1> DEFINE place == [k \in 0..n |-> Len(g[k])]
<1>7. /\ place \in [0..n -> Nat] /\ \A k \in 0..n : place[k] = Len(g[k])
      /\ place[0] = 0
  <2>1. g[0] = <<>> /\ 0 \in 0..n
    BY <1>1, <1>6 DEF Laid
  <2>2. \A k \in 0..n : Len(g[k]) \in Nat
    BY <1>6
  <2> QED BY <2>1, <2>2
<1> HIDE DEF place
<1>8. ASSUME NEW k \in 1..n
      PROVE  /\ place[k] = place[k - 1] + Len(X[k]) + 2 /\ place[k - 1] \in Nat /\ Len(X[k]) \in Nat
             /\ \A j \in 1..place[k - 1] : g[k][j] = g[k - 1][j]
             /\ \A j \in 1..Len(X[k]) : g[k][place[k - 1] + j] = X[k][j]
             /\ g[k][place[k] - 1] = CR /\ g[k][place[k]] = LF
  <2> DEFINE m == k - 1
             p == place[m]
             l == Len(X[k])
             x == X[k]
             line == L[k]
             h == g[m]
             w == g[k]
  <2>1. m \in 0..(n - 1) /\ m + 1 = k /\ m \in 0..n /\ k \in 0..n
    BY <1>1
  <2> HIDE DEF m
  <2>2. w = h \o line
    BY <1>5, <1>6, <2>1 DEF Laid
  <2>3. h \in Seq(Piece) /\ Len(h) = p /\ Len(w) = place[k] /\ p \in Nat
    BY <1>6, <1>7, <2>1
  <2>4. /\ x \in Seq(Piece) /\ line \in Seq(Piece) /\ Joined(line, x, CRLF)
        /\ l \in Nat /\ Len(x) = l
    BY <1>3
  <2> HIDE DEF h, line, w, x, p, l
  <2>5. Joined(w, h, line)
    BY <2>2, <2>3, <2>4, JoinIs
  <2>6. /\ Len(line) = l + 2 /\ (\A j \in 1..l : line[j] = x[j])
        /\ line[l + 1] = CR /\ line[l + 2] = LF
    <3>1. /\ Len(line) = l + 2 /\ (\A j \in 1..l : line[j] = x[j])
          /\ \A j \in 1..2 : line[l + j] = CRLF[j]
      BY <2>4, CrlfType DEF Joined
    <3>2. 1 \in 1..2 /\ 2 \in 1..2
      OBVIOUS
    <3> QED BY <3>1, <3>2, CrlfType
  <2>7. /\ Len(w) = p + (l + 2) /\ (\A j \in 1..p : w[j] = h[j])
        /\ \A j \in 1..(l + 2) : w[p + j] = line[j]
    BY <2>3, <2>5, <2>6 DEF Joined
  <2>8. \A j \in 1..l : j \in 1..(l + 2)
    BY <2>4
  <2>9. l + 1 \in 1..(l + 2) /\ l + 2 \in 1..(l + 2)
    BY <2>4
  <2>10. place[k] = p + l + 2 /\ place[k] - 1 = p + (l + 1) /\ place[k] = p + (l + 2)
    BY <2>3, <2>4, <2>7
  <2>11. w[p + (l + 1)] = CR /\ w[p + (l + 2)] = LF
    BY <2>6, <2>7, <2>9
  <2>12. \A j \in 1..l : w[p + j] = x[j]
    BY <2>6, <2>7, <2>8
  <2> QED BY <2>3, <2>4, <2>7, <2>10, <2>11, <2>12 DEF m, h, w, x, p, l
<1> DEFINE Stays(k) == place[k] <= place[n] /\ \A j \in 1..place[k] : G[j] = g[k][j]
           T == {i \in 1..(n + 1) : Stays(i - 1)}
<1>9. ASSUME NEW i \in 1..(n + 1), \A j \in (i + 1)..(n + 1) : j \in T PROVE i \in T
  <2>1. CASE i = n + 1
    <3>1. i - 1 = n /\ n \in 0..n
      BY <1>1, <2>1
    <3>2. place[n] \in Nat
      BY <1>7, <3>1
    <3> QED BY <1>6, <3>1, <3>2
  <2>2. CASE i # n + 1
    <3>1. i \in 1..n /\ i + 1 \in (i + 1)..(n + 1) /\ (i + 1) - 1 = i
      BY <1>1, <2>2
    <3>2. Stays(i)
      BY <1>9, <3>1
    <3>3. /\ place[i] = place[i - 1] + Len(X[i]) + 2 /\ place[i - 1] \in Nat /\ Len(X[i]) \in Nat
          /\ \A j \in 1..place[i - 1] : g[i][j] = g[i - 1][j]
      BY <1>8, <3>1
    <3>4. i \in 0..n /\ n \in 0..n
      BY <1>1, <3>1
    <3>5. place[n] \in Nat
      BY <1>7, <3>4
    <3>6. place[i - 1] <= place[n] /\ \A j \in 1..place[i - 1] : j \in 1..place[i]
      BY <3>2, <3>3, <3>5
    <3>7. Stays(i - 1)
      BY <3>2, <3>3, <3>6
    <3> QED BY <3>7
  <2> QED BY <2>1, <2>2
<1>10. ASSUME NEW k \in 0..n PROVE Stays(k)
  <2>1. k + 1 \in 1..(n + 1) /\ (k + 1) - 1 = k /\ n + 1 \in Nat
    BY <1>1
  <2> HIDE DEF T, Stays
  <2>2. \A i \in 1..(n + 1) : i \in T
    BY <1>9, <2>1, DownInduction
  <2>3. k + 1 \in T
    BY <2>1, <2>2
  <2>4. Stays((k + 1) - 1)
    BY <2>3 DEF T
  <2> QED BY <2>1, <2>4
<1> DEFINE M == place[n]
<1>11. G \in Seq(Piece) /\ Len(G) = M /\ M \in Nat
  <2>1. n \in 0..n
    BY <1>1
  <2> HIDE DEF G
  <2> QED BY <1>6, <1>7, <2>1
<1> HIDE DEF G, M
<1>12. y \in Seq(Piece) /\ Joined(y, G, CRLF)
  BY <1>11, CrlfType, JoinIs
<1> HIDE DEF y
<1>13. F \in Seq(Piece) /\ Joined(F, y, body)
  BY <1>12, JoinIs
<1> HIDE DEF F
<1>14. Len(y) = M + 2 /\ y[M + 1] = CR /\ y[M + 2] = LF /\ \A j \in 1..M : y[j] = G[j]
  <2>1. /\ Len(y) = M + 2 /\ (\A j \in 1..M : y[j] = G[j])
        /\ \A j \in 1..2 : y[M + j] = CRLF[j]
    BY <1>11, <1>12, CrlfType DEF Joined
  <2>2. 1 \in 1..2 /\ 2 \in 1..2
    OBVIOUS
  <2> QED BY <2>1, <2>2, CrlfType
<1>15. /\ Len(F) = M + 2 + Len(body) /\ F[M + 1] = CR /\ F[M + 2] = LF
       /\ (\A j \in 1..M : F[j] = G[j]) /\ \A j \in 1..Len(body) : F[M + 2 + j] = body[j]
  <2>1. /\ Len(F) = M + 2 + Len(body) /\ (\A j \in 1..(M + 2) : F[j] = y[j])
        /\ \A j \in 1..Len(body) : F[M + 2 + j] = body[j]
    BY <1>13, <1>14 DEF Joined
  <2>2. M + 1 \in 1..(M + 2) /\ M + 2 \in 1..(M + 2) /\ \A j \in 1..M : j \in 1..(M + 2)
    BY <1>11
  <2> QED BY <1>14, <2>1, <2>2
<1>16. ASSUME NEW k \in 1..n
       PROVE  /\ \A j \in 1..Len(X[k]) : F[place[k - 1] + j] = X[k][j]
              /\ F[place[k] - 1] = CR /\ F[place[k]] = LF
  <2> DEFINE p == place[k - 1]
             q == place[k]
             l == Len(X[k])
  <2>1. k \in 0..n
    BY <1>1
  <2>2. q <= M /\ \A j \in 1..q : G[j] = g[k][j]
    BY <1>10, <2>1 DEF M
  <2>3. /\ q = p + l + 2 /\ p \in Nat /\ l \in Nat
        /\ \A j \in 1..l : g[k][p + j] = X[k][j]
        /\ g[k][q - 1] = CR /\ g[k][q] = LF
    BY <1>8
  <2> HIDE DEF p, q, l
  <2>4. q - 1 \in 1..q /\ q \in 1..q /\ \A j \in 1..l : p + j \in 1..q
    BY <2>3
  <2>5. \A j \in 1..q : j \in 1..M
    BY <1>11, <2>2, <2>3
  <2>6. \A j \in 1..q : F[j] = g[k][j]
    BY <1>15, <2>2, <2>5
  <2>7. F[q - 1] = CR /\ F[q] = LF /\ \A j \in 1..l : F[p + j] = X[k][j]
    BY <2>3, <2>4, <2>6
  <2> QED BY <2>7 DEF p, q, l
<1>17. FrameLies(F, n, X, place, body)
  <2>1. \A k \in 0..n : place[k] <= place[n]
    BY <1>10
  <2>2. \A k \in 1..n : /\ Len(X[k]) >= 1 /\ place[k] = place[k - 1] + Len(X[k]) + 2
                        /\ \A j \in 1..Len(X[k]) : X[k][j] # CR /\ F[place[k - 1] + j] = X[k][j]
                        /\ F[place[k] - 1] = CR /\ F[place[k]] = LF
    BY <1>3, <1>8, <1>16
  <2> QED BY <1>1, <1>4, <1>7, <1>13, <1>15, <2>1, <2>2 DEF FrameLies, M
<1> QED BY <1>2, <1>17 DEF X, n

LEMMA LiesFacts ==
  ASSUME NEW F, NEW n, NEW X, NEW place, NEW body, FrameLies(F, n, X, place, body),
         NEW k \in 1..n
  PROVE  /\ k - 1 \in 0..n /\ k \in 0..n /\ n \in 0..n
         /\ place[k - 1] \in Nat /\ place[k] \in Nat /\ place[n] \in Nat
         /\ X[k] \in Seq(Piece) /\ Len(X[k]) \in Nat /\ Len(X[k]) >= 1
         /\ place[k] = place[k - 1] + Len(X[k]) + 2 /\ place[k] <= place[n]
<1>1. /\ n \in Nat /\ X \in [1..n -> Seq(Piece)] /\ place \in [0..n -> Nat]
      /\ \A i \in 0..n : place[i] <= place[n]
      /\ Len(X[k]) >= 1 /\ place[k] = place[k - 1] + Len(X[k]) + 2
  BY DEF FrameLies
<1>2. k - 1 \in 0..n /\ k \in 0..n /\ n \in 0..n
  BY <1>1
<1>3. X[k] \in Seq(Piece)
  BY <1>1
<1>4. Len(X[k]) \in Nat
  BY <1>3
<1>5. \A i \in 0..n : place[i] \in Nat
  BY <1>1
<1> QED BY <1>1, <1>2, <1>3, <1>4, <1>5

\* In the header lines a line end stands at the end of each and nowhere else.
LEMMA LineEndsLie ==
  ASSUME NEW F, NEW n, NEW X, NEW place, NEW body, FrameLies(F, n, X, place, body),
         NEW j \in 1..place[n], F[j] = CR
  PROVE  \E i \in 1..n : j = place[i] - 1
<1> DEFINE T == {k \in Nat : k <= n /\ j <= place[k] => \E i \in 1..n : j = place[i] - 1}
<1>1. n \in Nat /\ n >= 1 /\ place[0] = 0
  BY DEF FrameLies
<1>2. 0 \in T
  BY <1>1
<1>3. ASSUME NEW k \in Nat, k \in T PROVE k + 1 \in T
  <2>1. SUFFICES ASSUME k + 1 <= n, j <= place[k + 1] PROVE \E i \in 1..n : j = place[i] - 1
    OBVIOUS
  <2> DEFINE m == k + 1
             p == place[k]
             q == place[m]
             l == Len(X[m])
  <2>2. m \in 1..n /\ m - 1 = k /\ k <= n
    BY <1>1, <2>1
  <2>3. p \in Nat /\ q \in Nat /\ l \in Nat /\ l >= 1 /\ q = p + l + 2
    BY <2>2, LiesFacts
  <2>4. /\ \A i \in 1..l : X[m][i] # CR /\ F[p + i] = X[m][i]
        /\ F[q - 1] = CR /\ F[q] = LF
    <3>1. \A i \in 1..n :
            /\ \A o \in 1..Len(X[i]) : X[i][o] # CR /\ F[place[i - 1] + o] = X[i][o]
            /\ F[place[i] - 1] = CR /\ F[place[i]] = LF
      BY DEF FrameLies
    <3> HIDE DEF m
    <3>2. /\ \A o \in 1..Len(X[m]) : X[m][o] # CR /\ F[place[m - 1] + o] = X[m][o]
          /\ F[place[m] - 1] = CR /\ F[place[m]] = LF
      BY <2>2, <3>1
    <3> QED BY <2>2, <3>2
  <2> HIDE DEF p, q, l, m
  <2>5. j <= p => \E i \in 1..n : j = place[i] - 1
    BY <1>3, <2>2 DEF p
  <2>6. CASE j > p /\ j <= p + l
    <3>1. j - p \in 1..l /\ p + (j - p) = j
      BY <2>3, <2>6
    <3> QED BY <2>4, <3>1
  <2>7. CASE j = p + l + 1
    <3>1. j = q - 1
      BY <2>3, <2>7
    <3> QED BY <2>2, <3>1 DEF q
  <2>8. CASE j = p + l + 2
    <3>1. CR # LF
      BY DEF CR, LF
    <3> QED BY <2>3, <2>4, <2>8, <3>1
  <2>9. j <= q
    BY <2>1 DEF q, m
  <2> QED BY <2>3, <2>5, <2>6, <2>7, <2>8, <2>9
<1> HIDE DEF T
<1>4. n \in T
  BY <1>1, <1>2, <1>3, Induction
<1>5. j <= place[n]
  OBVIOUS
<1> QED BY <1>1, <1>4, <1>5 DEF T

LEMMA HeadersEnd ==
  ASSUME NEW F, NEW n, NEW X, NEW place, NEW body, FrameLies(F, n, X, place, body)
  PROVE  SepPos(F) = place[n] - 1
<1> DEFINE M == place[n]
           c == M - 1
<1>1. /\ n \in 1..n /\ F \in Seq(Piece) /\ body \in Seq(Piece) /\ Len(F) = M + 2 + Len(body)
      /\ F[M + 1] = CR /\ F[M + 2] = LF
  BY DEF FrameLies
<1>2. M \in Nat /\ M >= 3 /\ F[M - 1] = CR /\ F[M] = LF
  <2> DEFINE k == n
  <2>0. k \in 1..n
    BY <1>1
  <2> HIDE DEF k
  <2>a. place[k - 1] \in Nat /\ place[k] \in Nat /\ Len(X[k]) >= 1 /\ Len(X[k]) \in Nat
        /\ place[k] = place[k - 1] + Len(X[k]) + 2
    BY <2>0, LiesFacts
  <2>1. place[n - 1] \in Nat /\ M \in Nat /\ Len(X[n]) >= 1 /\ Len(X[n]) \in Nat
        /\ M = place[n - 1] + Len(X[n]) + 2
    BY <2>a DEF k
  <2>2. F[M - 1] = CR /\ F[M] = LF
    BY <1>1 DEF FrameLies
  <2> HIDE DEF M
  <2> QED BY <2>1, <2>2
<1> HIDE DEF M
<1>3. c \in 1..(Len(F) - 3)
  <2>1. Len(body) \in Nat
    BY <1>1
  <2> QED BY <1>1, <1>2, <2>1
<1>4. IsSep(F, c)
  <2>1. c + 1 = M /\ c + 2 = M + 1 /\ (c + 2) + 1 = M + 2
    BY <1>2
  <2> QED BY <1>1, <1>2, <2>1 DEF IsSep, IsAt
<1>5. ASSUME NEW j \in 1..(c - 1) PROVE ~IsSep(F, j)
  <2>1. SUFFICES ASSUME F[j] = CR, F[j + 2] = CR PROVE FALSE
    BY DEF IsSep, IsAt
  <2>2. j \in 1..M
    BY <1>2
  <2>3. PICK i \in 1..n : j = place[i] - 1
    BY <2>1, <2>2, LineEndsLie DEF M
  <2>4. i # n
    BY <1>2, <2>3 DEF M
  <2> DEFINE m == i + 1
             p == place[i]
             l == Len(X[m])
  <2>5. m \in 1..n /\ m - 1 = i
    BY <1>1, <2>4
  <2>6. p \in Nat /\ l \in Nat /\ l >= 1 /\ \A k \in 1..l : X[m][k] # CR /\ F[p + k] = X[m][k]
    <3>1. place[m - 1] \in Nat /\ l \in Nat /\ l >= 1
      BY <2>5, LiesFacts
    <3>2. \A k \in 1..l : X[m][k] # CR /\ F[place[m - 1] + k] = X[m][k]
      BY <2>5 DEF FrameLies
    <3> QED BY <2>5, <3>1, <3>2
  <2> HIDE DEF m, l
  <2>7. 1 \in 1..l /\ j + 2 = p + 1
    BY <2>3, <2>6
  <2> HIDE DEF p
  <2>8. F[p + 1] # CR
    BY <2>6, <2>7
  <2> QED BY <2>1, <2>7, <2>8
<1> HIDE DEF c
<1>6. SepPos(F) = c
  BY <1>1, <1>3, <1>4, <1>5, SepAt
<1> QED BY <1>6 DEF c, M

\* s is what stands in F up to m.
StandsFirst(s, F, m) == s \in Seq(Piece) /\ Len(s) = m /\ \A j \in 1..m : s[j] = F[j]

LEMMA FrontIs ==
  ASSUME NEW F \in Seq(Piece), NEW m \in Nat, m <= Len(F), NEW s, s = SubSeq(F, 1, m)
  PROVE  StandsFirst(s, F, m)
<1> DEFINE i == 1
<1>1. /\ i \in Nat /\ 1 <= i /\ i <= m + 1 /\ m - i + 1 = m /\ s = SubSeq(F, i, m)
      /\ \A j \in 1..m : i + j - 1 = j
  OBVIOUS
<1> HIDE DEF i
<1>2. s \in Seq(Piece) /\ Len(s) = m - i + 1 /\ \A j \in 1..(m - i + 1) : s[j] = F[i + j - 1]
  BY <1>1, CutIs
<1> QED BY <1>1, <1>2 DEF StandsFirst

LEMMA HeadersSplit ==
  ASSUME NEW F, NEW n, NEW X, NEW place, NEW body, FrameLies(F, n, X, place, body),
         NEW c, c = place[n] - 2, NEW s, StandsFirst(s, F, c)
  PROVE  HeaderLines(s) = X
<1> DEFINE M == place[n]
           b == Len(body)
<1>1. /\ n \in 1..n /\ n \in Nat /\ F \in Seq(Piece) /\ body \in Seq(Piece) /\ Len(F) = M + 2 + b
      /\ place[0] = 0
  BY DEF FrameLies
<1>2. M \in Nat /\ M >= 3 /\ b \in Nat
  <2> DEFINE k == n
  <2>0. k \in 1..n
    BY <1>1
  <2> HIDE DEF k
  <2>a. place[k - 1] \in Nat /\ place[k] \in Nat /\ Len(X[k]) >= 1 /\ Len(X[k]) \in Nat
        /\ place[k] = place[k - 1] + Len(X[k]) + 2
    BY <2>0, LiesFacts
  <2>1. place[n - 1] \in Nat /\ M \in Nat /\ Len(X[n]) >= 1 /\ Len(X[n]) \in Nat
        /\ M = place[n - 1] + Len(X[n]) + 2
    BY <2>a DEF k
  <2>2. b \in Nat
    BY <1>1
  <2> HIDE DEF M
  <2> QED BY <2>1, <2>2
<1>3. s \in Seq(Piece) /\ Len(s) = M - 2 /\ \A j \in 1..(M - 2) : s[j] = F[j]
  BY DEF StandsFirst
<1> DEFINE N == Len(s) + 3
<1>4. PICK f \in [1..N -> Seq(Seq(Piece))] :
         /\ \A i \in 1..N : f[i] = Splitting(s, i, f)
         /\ HeaderLines(s) = f[1]
  BY <1>3, LinesSplit
<1>5. N = M + 1
  BY <1>2, <1>3
<1> DEFINE Rest(i) == [j \in 1..(n + 1 - i) |-> X[i - 1 + j]]
           T == {i \in 1..(n + 1) : f[place[i - 1] + 1] = Rest(i)}
<1> HIDE DEF N, M, b
<1>6. ASSUME NEW i \in 1..(n + 1), \A j \in (i + 1)..(n + 1) : j \in T PROVE i \in T
  <2>1. CASE i = n + 1
    <3>1. i - 1 = n /\ n + 1 - i = 0 /\ M + 1 \in 1..N /\ M + 1 > Len(s)
      BY <1>1, <1>2, <1>3, <1>5, <2>1
    <3>2. f[M + 1] = Splitting(s, M + 1, f)
      BY <1>4, <3>1
    <3>3. f[M + 1] = <<>>
      BY <3>1, <3>2 DEF Splitting
    <3>4. Rest(i) = <<>>
      <4>1. 1..(n + 1 - i) = {}
        BY <3>1
      <4> QED BY <4>1
    <3>5. f[place[i - 1] + 1] = Rest(i)
      BY <3>1, <3>3, <3>4 DEF M
    <3> QED BY <3>5
  <2>2. CASE i # n + 1
    <3> DEFINE p == place[i - 1]
               q == place[i]
               x == X[i]
               l == Len(x)
               a == p + 1
               e == q - 1
               u == SubSeq(s, a, e - 1)
               r == Rest(i + 1)
    <3>1. i \in 1..n
      BY <1>1, <2>2
    <3>2. /\ p \in Nat /\ q \in Nat /\ x \in Seq(Piece) /\ l \in Nat /\ l >= 1
          /\ q = p + l + 2 /\ q <= M
      BY <3>1, LiesFacts DEF M
    <3>3. /\ \A j \in 1..l : x[j] # CR /\ F[p + j] = x[j]
          /\ F[q - 1] = CR /\ F[q] = LF
      BY <3>1 DEF FrameLies
    <3>4. i = n \/ q + 3 <= M
      <4>1. SUFFICES ASSUME i # n PROVE q + 3 <= M
        OBVIOUS
      <4> DEFINE m == i + 1
      <4>2. m \in 1..n /\ m - 1 = i
        BY <1>1, <3>1, <4>1
      <4> HIDE DEF m
      <4>3. /\ place[m - 1] \in Nat /\ place[m] \in Nat /\ Len(X[m]) \in Nat /\ Len(X[m]) >= 1
            /\ place[m] = place[m - 1] + Len(X[m]) + 2 /\ place[m] <= place[n]
        BY <4>2, LiesFacts
      <4>4. place[m - 1] = q
        BY <4>2
      <4> HIDE DEF q
      <4> QED BY <1>2, <4>3, <4>4 DEF M
    <3>5. i = n => q = M
      BY DEF M
    <3>7. f[q + 1] = r
      <4> DEFINE o == i + 1
      <4>1. o \in (i + 1)..(n + 1) /\ o \in 1..(n + 1) /\ o - 1 = i
        BY <1>1, <3>1
      <4> HIDE DEF o, Rest
      <4>2. f[place[o - 1] + 1] = Rest(o)
        BY <1>6, <4>1
      <4> QED BY <4>1, <4>2 DEF o
    <3> HIDE DEF p, q, x, l
    <3>8. /\ a \in 1..Len(s) /\ a \in 1..N /\ e \in a..(Len(s) + 1) /\ e # a /\ e + 2 = q + 1
          /\ e - 1 <= Len(s)
      <4>1. Len(s) = M - 2 /\ M \in Nat /\ N = M + 1
        BY <1>2, <1>3, <1>5
      <4>2. p \in Nat /\ q \in Nat /\ l \in Nat /\ l >= 1 /\ q = p + l + 2 /\ q <= M
        BY <3>2
      <4>3. a \in Nat /\ a >= 1 /\ a <= M - 2 /\ e \in Nat /\ a < e /\ e <= M - 1 /\ e + 2 = q + 1
        BY <4>1, <4>2
      <4> DEFINE L == Len(s)
      <4>4. L = M - 2 /\ M \in Nat /\ N = M + 1
        BY <4>1
      <4> HIDE DEF a, e, r, u, L
      <4>5. /\ a \in 1..L /\ a \in 1..N /\ e \in a..(L + 1) /\ e # a /\ e + 2 = q + 1
            /\ e - 1 <= L
        BY <4>3, <4>4
      <4> QED BY <4>5 DEF L
    <3>9. LineEnd(s, a) = e
      <4>1. e = Len(s) + 1 \/ (e < Len(s) /\ IsAt(s, e))
        <5>1. CASE i = n
          <6>1. q = M
            BY <3>5, <5>1
          <6> QED BY <1>2, <1>3, <6>1
        <5>2. CASE i # n
          <6>1. q + 3 <= M
            BY <3>4, <5>2
          <6>2. e \in 1..(M - 2) /\ e + 1 \in 1..(M - 2) /\ e + 1 = q /\ e < M - 2
            BY <1>2, <3>2, <6>1
          <6>3. s[e] = F[e] /\ s[e + 1] = F[e + 1]
            BY <1>3, <6>2
          <6> QED BY <1>3, <3>3, <6>2, <6>3 DEF IsAt
        <5> QED BY <5>1, <5>2
      <4>2. ASSUME NEW j \in a..(Len(s) - 1), j < e PROVE ~IsAt(s, j)
        <5>1. j - p \in 1..l /\ p + (j - p) = j /\ j \in 1..(M - 2)
          BY <1>3, <3>2, <4>2
        <5>2. s[j] = F[j] /\ F[p + (j - p)] = x[j - p] /\ x[j - p] # CR
          BY <1>3, <3>3, <5>1
        <5> QED BY <5>1, <5>2 DEF IsAt
      <4> HIDE DEF a, e
      <4> QED BY <1>3, <3>8, <4>1, <4>2, LineEndAt
    <3>10. u = x
      <4> DEFINE k == e - 1
      <4>1. /\ a \in Nat /\ k \in Nat /\ 1 <= a /\ a <= k + 1 /\ k <= Len(s) /\ k - a + 1 = l
            /\ \A j \in 1..l : a + j - 1 = p + j /\ p + j \in 1..(M - 2)
        BY <1>2, <1>3, <3>2, <3>8
      <4>2. u = SubSeq(s, a, k)
        OBVIOUS
      <4> HIDE DEF u, k, a
      <4>3. u \in Seq(Piece) /\ Len(u) = k - a + 1 /\ \A j \in 1..(k - a + 1) : u[j] = s[a + j - 1]
        BY <1>3, <4>1, <4>2, CutIs
      <4>4. ASSUME NEW j \in 1..l PROVE u[j] = x[j]
        <5>1. u[j] = s[a + j - 1] /\ a + j - 1 = p + j /\ p + j \in 1..(M - 2)
          BY <4>1, <4>3
        <5>2. s[p + j] = F[p + j] /\ F[p + j] = x[j]
          BY <1>3, <3>3, <5>1
        <5> QED BY <5>1, <5>2
      <4>5. Len(u) = Len(x) /\ \A j \in 1..Len(u) : u[j] = x[j]
        BY <4>1, <4>3, <4>4 DEF l
      <4> QED BY <3>2, <4>3, <4>5, SameSeq
    <3>11. f[a] = <<x>> \o r
      <4>1. f[a] = Splitting(s, a, f) /\ ~(a > Len(s))
        <5>1. ~(a > Len(s))
          BY <1>3, <3>8
        <5> QED BY <1>4, <3>8, <5>1
      <4> HIDE DEF a, e
      <4>2. f[a] = (IF e = a THEN <<>> ELSE <<u>>) \o f[e + 2]
        BY <3>9, <4>1 DEF Splitting
      <4>3. e # a /\ f[e + 2] = r
        BY <3>7, <3>8
      <4> QED BY <3>10, <4>2, <4>3
    <3>12. <<x>> \o r = Rest(i)
      <4> DEFINE d == n - i
                 w == <<x>> \o r
                 t == Rest(i)
                 one == <<x>>
      <4>1. /\ d \in Nat /\ n + 1 - (i + 1) = d /\ n + 1 - i = d + 1 /\ (i + 1) - 1 = i
            /\ \A j \in 1..d : i + j \in 1..n
            /\ \A j \in 1..(d + 1) : i - 1 + j \in 1..n
        BY <1>1, <3>1
      <4>2. \A k \in 1..n : X[k] \in Seq(Piece)
        BY LiesFacts
      <4> DEFINE S == Seq(Piece)
      <4>3. r = [j \in 1..d |-> X[i + j]]
        BY <4>1
      <4>4. t = [j \in 1..(d + 1) |-> X[i - 1 + j]]
        BY <4>1
      <4> HIDE DEF d, t, r, S
      <4>5. r \in Seq(S) /\ Len(r) = d /\ \A j \in 1..d : r[j] = X[i + j]
        <5>1. \A j \in 1..d : X[i + j] \in S
          BY <4>1, <4>2 DEF S
        <5> QED BY <4>1, <4>3, <5>1
      <4>6. t \in Seq(S) /\ Len(t) = d + 1 /\ \A j \in 1..(d + 1) : t[j] = X[i - 1 + j]
        <5>1. \A j \in 1..(d + 1) : X[i - 1 + j] \in S
          BY <4>1, <4>2 DEF S
        <5>2. d + 1 \in Nat
          BY <4>1
        <5> QED BY <4>4, <5>1, <5>2
      <4>7. one \in Seq(S) /\ Len(one) = 1 /\ one[1] = x
        BY <3>2, OneIs DEF S
      <4>8. w = one \o r
        OBVIOUS
      <4> HIDE DEF one, w
      <4>9. w \in Seq(S) /\ Joined(w, one, r)
        BY <4>5, <4>7, <4>8, JoinIs
      <4>10. Len(w) = 1 + d /\ w[1] = x /\ \A j \in 1..d : w[1 + j] = r[j]
        BY <4>5, <4>7, <4>9 DEF Joined
      <4>11. ASSUME NEW j \in 1..(d + 1) PROVE w[j] = t[j]
        <5>1. CASE j = 1
          <6>1. i - 1 + 1 = i /\ 1 \in 1..(d + 1)
            BY <3>1, <4>1
          <6> QED BY <4>6, <4>10, <5>1, <6>1 DEF x
        <5>2. CASE j # 1
          <6>1. j - 1 \in 1..d /\ 1 + (j - 1) = j /\ i + (j - 1) = i - 1 + j
            BY <3>1, <4>1, <5>2
          <6>2. w[1 + (j - 1)] = r[j - 1] /\ r[j - 1] = X[i + (j - 1)]
            BY <4>5, <4>10, <6>1
          <6> QED BY <4>6, <6>1, <6>2
        <5> QED BY <5>1, <5>2
      <4>12. Len(w) = Len(t) /\ \A j \in 1..Len(w) : w[j] = t[j]
        BY <4>1, <4>6, <4>10, <4>11
      <4>13. w = t
        BY <4>6, <4>9, <4>12, SameSeq
      <4> QED BY <4>13 DEF w, t
    <3>13. f[place[i - 1] + 1] = Rest(i)
      BY <3>11, <3>12 DEF a, p
    <3> QED BY <3>13
  <2> QED BY <2>1, <2>2
<1> HIDE DEF T
<1>7. 1 \in T
  <2>1. n + 1 \in Nat /\ 1 \in 1..(n + 1)
    BY <1>1
  <2>2. \A i \in 1..(n + 1) : i \in T
    BY <1>6, <2>1, DownInduction
  <2> QED BY <2>1, <2>2
<1>8. f[1] = [k \in 1..n |-> X[k]]
  <2>1. f[place[0] + 1] = Rest(1)
    <3>1. 1 - 1 = 0
      OBVIOUS
    <3> QED BY <1>7, <3>1 DEF T
  <2>2. Rest(1) = [k \in 1..n |-> X[k]]
    <3>1. n + 1 - 1 = n /\ \A j \in 1..n : 1 - 1 + j = j
      BY <1>1
    <3> QED BY <3>1
  <2>3. place[0] + 1 = 1
    BY <1>1
  <2> QED BY <2>1, <2>2, <2>3
<1>9. X = [k \in 1..n |-> X[k]]
  BY DEF FrameLies
<1> QED BY <1>4, <1>8, <1>9

\* A frame of headers without line ends is read as it was written.
LEMMA FrameIsRead ==
  ASSUME NEW hs \in Headers, Len(hs) >= 1, \A k \in 1..Len(hs) : PlainHeader(hs[k]),
         NEW body \in Seq(Piece)
  PROVE  parse(serialize([headers |-> hs, body |-> body])) =
           [ok |-> TRUE, headers |-> hs, body |-> body]
<1> DEFINE F == serialize([headers |-> hs, body |-> body])
           n == Len(hs)
           X == [k \in 1..n |-> HeaderText(hs[k])]
           Kinds == [name : Seq(Piece), value : Seq(Piece)]
<1>1. PICK place : FrameLies(F, n, X, place, body)
  BY SerializedLies
<1>2. n \in Nat /\ n >= 1 /\ hs \in Seq(Kinds)
  BY DEF Headers
<1>3. ASSUME NEW k \in 1..n
      PROVE  hs[k] \in Kinds /\ Find(X[k], Colon, 1) # 0 /\ HeaderOf(X[k]) = hs[k]
  <2>1. X[k] = HeaderText(hs[k]) /\ PlainHeader(hs[k])
    OBVIOUS
  <2>2. hs[k] \in Kinds
    <3> HIDE DEF X, F, Kinds
    <3> QED BY <1>2
  <2> HIDE DEF X, F
  <2> QED BY <2>1, <2>2, HeaderIsRead
<1> HIDE DEF F, X, Kinds
<1> DEFINE M == place[n]
           b == Len(body)
           lines == HeaderLines(SubSeq(F, 1, M - 2))
           rest == SubSeq(F, M + 3, Len(F))
<1>4. /\ F \in Seq(Piece) /\ Len(F) = M + 2 + b /\ n \in 0..n /\ place \in [0..n -> Nat]
      /\ \A j \in 1..b : F[M + 2 + j] = body[j]
  <2>1. /\ F \in Seq(Piece) /\ place \in [0..n -> Nat] /\ Len(F) = M + 2 + b
        /\ \A j \in 1..b : F[M + 2 + j] = body[j]
    BY <1>1 DEF FrameLies
  <2>2. n \in 0..n
    BY <1>2
  <2> QED BY <2>1, <2>2
<1>5. M \in Nat /\ b \in Nat
  BY <1>4
<1>6. SepPos(F) = M - 1
  BY <1>1, HeadersEnd
<1>7. lines = X
  <2> DEFINE m == place[n] - 2
             s == SubSeq(F, 1, m)
  <2>1. m \in Nat /\ m <= Len(F) /\ F \in Seq(Piece)
    <3>1. M >= 3
      <4>1. n \in 1..n
        BY <1>2
      <4>2. place[n - 1] \in Nat /\ M = place[n - 1] + Len(X[n]) + 2
        BY <1>1, <4>1, LiesFacts
      <4>3. Len(X[n]) \in Nat /\ Len(X[n]) >= 1
        BY <1>1, <4>1, LiesFacts
      <4> HIDE DEF M
      <4> QED BY <4>2, <4>3
    <3>2. m = M - 2
      OBVIOUS
    <3> HIDE DEF M, m, b
    <3> QED BY <1>4, <1>5, <3>1, <3>2
  <2>2. s = SubSeq(F, 1, m) /\ FrameLies(F, n, X, place, body) /\ m = place[n] - 2
    BY <1>1
  <2> HIDE DEF s, m, n
  <2>3. StandsFirst(s, F, m)
    BY ONLY <2>1, <2>2, FrontIs
  <2>4. HeaderLines(s) = X
    BY ONLY <2>2, <2>3, HeadersSplit
  <2> QED BY <2>4 DEF s, M, m
<1>8. M - 1 # 0
  <2>1. n \in 1..n
    BY <1>2
  <2>2. /\ place[n - 1] \in Nat /\ place[n] \in Nat /\ Len(X[n]) \in Nat
        /\ place[n] = place[n - 1] + Len(X[n]) + 2
    BY <1>1, <2>1, LiesFacts
  <2>3. Len(X[n]) >= 1
    BY <1>1, <2>1, LiesFacts
  <2> HIDE DEF M
  <2>4. M = place[n]
    BY DEF M
  <2> QED BY <2>2, <2>3, <2>4
<1>9. rest = body
  <2> DEFINE i == M + 3
             k == Len(F)
  <2>1. /\ i \in Nat /\ k \in Nat /\ 1 <= i /\ i <= k + 1 /\ k <= Len(F) /\ k - i + 1 = b
        /\ \A j \in 1..b : i + j - 1 = M + 2 + j
    <3> HIDE DEF M, b
    <3> QED BY <1>4, <1>5
  <2>2. rest = SubSeq(F, i, k)
    OBVIOUS
  <2> DEFINE S == Piece
  <2>3. F \in Seq(S) /\ body \in Seq(S)
    BY <1>4
  <2> HIDE DEF rest, i, k, S, M
  <2>4. rest \in Seq(S) /\ Len(rest) = k - i + 1 /\ \A j \in 1..(k - i + 1) : rest[j] = F[i + j - 1]
    BY ONLY <2>1, <2>2, <2>3, CutIs
  <2>5. Len(rest) = Len(body) /\ \A j \in 1..Len(rest) : rest[j] = body[j]
    <3>1. Len(rest) = b /\ \A j \in 1..b : rest[j] = F[M + 2 + j]
      BY <2>1, <2>4
    <3> QED BY <1>4, <3>1 DEF M
  <2> QED BY ONLY <2>3, <2>4, <2>5, SameSeq
<1>10. (M - 1) - 1 = M - 2 /\ (M - 1) + 4 = M + 3
  <2> HIDE DEF M
  <2> QED BY <1>5
<1> HIDE DEF M
<1>11. lines = HeaderLines(SubSeq(F, 1, SepPos(F) - 1)) /\ rest = SubSeq(F, SepPos(F) + 4, Len(F))
  BY <1>6, <1>10
<1>12. SepPos(F) # 0
  BY <1>6, <1>8
<1> HIDE DEF lines, rest
<1>13. DOMAIN lines = 1..n /\ \A k \in 1..n : lines[k] = X[k]
  BY <1>7 DEF X
<1>14. ~\E k \in DOMAIN lines : Find(lines[k], Colon, 1) = 0
  BY <1>3, <1>13
<1>15. [k \in DOMAIN lines |-> HeaderOf(lines[k])] = hs
  <2>1. [k \in DOMAIN lines |-> HeaderOf(lines[k])] = [k \in 1..n |-> hs[k]]
    BY <1>3, <1>13
  <2>2. hs = [k \in 1..n |-> hs[k]]
    BY <1>2
  <2> QED BY <2>1, <2>2
<1>16. parse(F) = [ok |-> TRUE, headers |-> [k \in DOMAIN lines |-> HeaderOf(lines[k])],
                   body |-> rest]
  BY <1>11, <1>12, <1>14 DEF parse
<1> QED BY <1>9, <1>15, <1>16 DEF F

-----------------------------------------------------------------------------
(* The two frames of a turn.                                               *)

LEMMA HeaderIs ==
  ASSUME NEW name \in Piece, name # CR, name # Colon,
         NEW value \in Seq(Piece), \A j \in 1..Len(value) : value[j] # CR
  PROVE  /\ Header(name, value) \in [name : Seq(Piece), value : Seq(Piece)]
         /\ PlainHeader(Header(name, value))
<1> DEFINE s == <<name>>
<1>1. s \in Seq(Piece) /\ Len(s) = 1 /\ s[1] = name
  BY OneIs
<1>2. Header(name, value) = [name |-> s, value |-> value]
  BY DEF Header
<1> HIDE DEF s
<1> QED BY <1>1, <1>2 DEF PlainHeader

LEMMA ValueIs ==
  ASSUME NEW p \in Piece, p # CR
  PROVE  <<p>> \in Seq(Piece) /\ \A j \in 1..Len(<<p>>) : <<p>>[j] # CR
<1> DEFINE s == <<p>>
<1>1. s \in Seq(Piece) /\ Len(s) = 1 /\ s[1] = p
  BY OneIs
<1> HIDE DEF s
<1>2. s \in Seq(Piece) /\ \A j \in 1..Len(s) : s[j] # CR
  BY <1>1
<1> QED BY <1>2 DEF s

LEMMA StampIs ==
  /\ format_js_timestamp \in Seq(Piece)
  /\ \A j \in 1..Len(format_js_timestamp) : format_js_timestamp[j] # CR
<1> DEFINE a == "Mon Jan 05 2026 10"
           b == "30"
           c == "00 GMT+0000"
           s == <<a, Colon, b, Colon, c>>
<1>1. a \in Piece /\ b \in Piece /\ c \in Piece /\ Colon \in Piece
  BY DEF Piece, Literals
<1>2. a # CR /\ b # CR /\ c # CR /\ Colon # CR
  BY DEF CR, Colon
<1>3. format_js_timestamp = s
  BY DEF format_js_timestamp
<1> HIDE DEF a, b, c
<1>4. s \in Seq(Piece) /\ Len(s) = 5
  BY <1>1
<1>5. s[1] = a /\ s[2] = Colon /\ s[3] = b /\ s[4] = Colon /\ s[5] = c
  OBVIOUS
<1> HIDE DEF s
<1>6. \A j \in 1..5 : s[j] # CR
  BY <1>2, <1>5
<1> QED BY <1>3, <1>4, <1>6

LEMMA ThreeHeaders ==
  ASSUME NEW a, NEW b, NEW c, NEW R, a \in R, b \in R, c \in R,
         PlainHeader(a), PlainHeader(b), PlainHeader(c), NEW s, s = <<a, b, c>>
  PROVE  s \in Seq(R) /\ Len(s) = 3 /\ \A k \in 1..3 : PlainHeader(s[k])
<1>1. s \in Seq(R) /\ Len(s) = 3
  OBVIOUS
<1>2. s[1] = a /\ s[2] = b /\ s[3] = c
  OBVIOUS
<1> QED BY <1>1, <1>2

LEMMA FourHeaders ==
  ASSUME NEW a, NEW b, NEW c, NEW d, NEW R, a \in R, b \in R, c \in R, d \in R,
         PlainHeader(a), PlainHeader(b), PlainHeader(c), PlainHeader(d),
         NEW s, s = <<a, b, c, d>>
  PROVE  s \in Seq(R) /\ Len(s) = 4 /\ \A k \in 1..4 : PlainHeader(s[k])
<1>1. s \in Seq(R) /\ Len(s) = 4
  OBVIOUS
<1>2. s[1] = a /\ s[2] = b /\ s[3] = c /\ s[4] = d
  OBVIOUS
<1> QED BY <1>1, <1>2

LEMMA ConfigFrameIs ==
  ASSUME NEW config \in Configs, NEW msg, msg = build_speech_config_frame(config)
  PROVE  /\ msg = [headers |-> msg.headers, body |-> msg.body]
         /\ msg.headers \in Headers /\ msg.body \in Seq(Piece) /\ Len(msg.headers) >= 1
         /\ \A k \in 1..Len(msg.headers) : PlainHeader(msg.headers[k])
<1> DEFINE R == [name : Seq(Piece), value : Seq(Piece)]
           a == Header("X-Timestamp", format_js_timestamp)
           b == Header("Content-Type", <<"application/json; charset=utf-8">>)
           c == Header("Path", <<"speech.config">>)
           hs == <<a, b, c>>
           body == SpeechConfigBody(config.boundary_type)
<1>1. msg = [headers |-> hs, body |-> body]
  BY DEF build_speech_config_frame
<1>2. /\ "X-Timestamp" \in Piece /\ "Content-Type" \in Piece /\ "Path" \in Piece
      /\ "application/json; charset=utf-8" \in Piece /\ "speech.config" \in Piece
  BY DEF Piece, Literals
<1>3. /\ "X-Timestamp" \notin {CR, Colon} /\ "Content-Type" \notin {CR, Colon}
      /\ "Path" \notin {CR, Colon} /\ "application/json; charset=utf-8" # CR
      /\ "speech.config" # CR
  BY DEF CR, Colon
<1>4. a \in R /\ PlainHeader(a)
  BY <1>2, <1>3, StampIs, HeaderIs
<1>5. b \in R /\ PlainHeader(b)
  <2> DEFINE v == <<"application/json; charset=utf-8">>
  <2>1. v \in Seq(Piece) /\ \A j \in 1..Len(v) : v[j] # CR
    BY <1>2, <1>3, ValueIs
  <2> HIDE DEF v
  <2> QED BY <1>2, <1>3, <2>1, HeaderIs DEF v
<1>6. c \in R /\ PlainHeader(c)
  <2> DEFINE v == <<"speech.config">>
  <2>1. v \in Seq(Piece) /\ \A j \in 1..Len(v) : v[j] # CR
    BY <1>2, <1>3, ValueIs
  <2> HIDE DEF v
  <2> QED BY <1>2, <1>3, <2>1, HeaderIs DEF v
<1>7. body \in Seq(Piece)
  <2> DEFINE t == config.boundary_type
             x == IF t = "word" THEN "false" ELSE "true"
             y == IF t = "word" THEN "true" ELSE "false"
             p == "sentenceBoundaryEnabled"
             q == "wordBoundaryEnabled"
             r == "outputFormat"
             s == <<p, x, q, y, r>>
  <2>1. p \in Piece /\ q \in Piece /\ r \in Piece /\ "true" \in Piece /\ "false" \in Piece
    BY DEF Piece, Literals
  <2>2. x \in Piece /\ y \in Piece
    BY <2>1
  <2>3. body = s \o CRLF
    BY DEF SpeechConfigBody
  <2> HIDE DEF x, y, p, q, r
  <2>4. s \in Seq(Piece)
    BY <2>1, <2>2
  <2> HIDE DEF s
  <2> QED BY <2>3, <2>4, CrlfType, JoinIs
<1> HIDE DEF R, a, b, c, body
<1>8. hs = <<a, b, c>>
  OBVIOUS
<1> HIDE DEF hs
<1>9. hs \in Seq(R) /\ Len(hs) = 3 /\ \A k \in 1..3 : PlainHeader(hs[k])
  BY <1>4, <1>5, <1>6, <1>8, ThreeHeaders
<1>10. hs \in Headers
  BY <1>9 DEF Headers, R
<1>11. Len(hs) >= 1 /\ \A k \in 1..Len(hs) : PlainHeader(hs[k])
  BY <1>9
<1>12. msg.headers = hs /\ msg.body = body
  BY <1>1
<1>13. msg = [headers |-> msg.headers, body |-> msg.body]
  BY <1>1, <1>12
<1> QED BY <1>7, <1>10, <1>11, <1>12, <1>13

LEMMA SsmlFrameIs ==
  ASSUME NEW config \in Configs, NEW chunk \in Chunks, NEW msg,
         msg = build_ssml_frame(config, chunk)
  PROVE  /\ msg = [headers |-> msg.headers, body |-> msg.body]
         /\ msg.headers \in Headers /\ msg.body \in Seq(Piece) /\ Len(msg.headers) >= 1
         /\ \A k \in 1..Len(msg.headers) : PlainHeader(msg.headers[k])
<1> DEFINE R == [name : Seq(Piece), value : Seq(Piece)]
           a == Header("X-RequestId", <<"request_id">>)
           b == Header("Content-Type", <<"application/ssml+xml">>)
           c == Header("X-Timestamp", format_js_timestamp \o <<"Z">>)
           d == Header("Path", <<"ssml">>)
           hs == <<a, b, c, d>>
           voice == normalize_voice_name(config.voice)
           body == assemble_ssml(voice, chunk)
<1>1. msg = [headers |-> hs, body |-> body]
  BY DEF build_ssml_frame
<1>2. /\ "X-Timestamp" \in Piece /\ "Content-Type" \in Piece /\ "Path" \in Piece
      /\ "X-RequestId" \in Piece /\ "application/ssml+xml" \in Piece /\ "ssml" \in Piece
      /\ "request_id" \in Piece /\ "Z" \in Piece
  BY DEF Piece, Literals
<1>3. /\ "X-Timestamp" \notin {CR, Colon} /\ "Content-Type" \notin {CR, Colon}
      /\ "Path" \notin {CR, Colon} /\ "X-RequestId" \notin {CR, Colon}
      /\ "application/ssml+xml" # CR /\ "ssml" # CR /\ "request_id" # CR /\ "Z" # CR
  BY DEF CR, Colon
<1>4. a \in R /\ PlainHeader(a)
  <2> DEFINE v == <<"request_id">>
  <2>1. v \in Seq(Piece) /\ \A j \in 1..Len(v) : v[j] # CR
    BY <1>2, <1>3, ValueIs
  <2> HIDE DEF v
  <2> QED BY <1>2, <1>3, <2>1, HeaderIs DEF v
<1>5. b \in R /\ PlainHeader(b)
  <2> DEFINE v == <<"application/ssml+xml">>
  <2>1. v \in Seq(Piece) /\ \A j \in 1..Len(v) : v[j] # CR
    BY <1>2, <1>3, ValueIs
  <2> HIDE DEF v
  <2> QED BY <1>2, <1>3, <2>1, HeaderIs DEF v
<1>6. d \in R /\ PlainHeader(d)
  <2> DEFINE v == <<"ssml">>
  <2>1. v \in Seq(Piece) /\ \A j \in 1..Len(v) : v[j] # CR
    BY <1>2, <1>3, ValueIs
  <2> HIDE DEF v
  <2> QED BY <1>2, <1>3, <2>1, HeaderIs DEF v
<1>7. c \in R /\ PlainHeader(c)
  <2> DEFINE s == format_js_timestamp
             z == <<"Z">>
             v == s \o z
             n == Len(s)
  <2>1. s \in Seq(Piece) /\ \A j \in 1..n : s[j] # CR
    BY StampIs
  <2>2. z \in Seq(Piece) /\ Len(z) = 1 /\ z[1] = "Z"
    BY <1>2, OneIs
  <2> HIDE DEF s, z
  <2>3. v \in Seq(Piece) /\ Joined(v, s, z)
    BY <2>1, <2>2, JoinIs
  <2>4. n \in Nat
    BY <2>1
  <2> HIDE DEF v
  <2>5. Len(v) = n + 1 /\ (\A j \in 1..n : v[j] = s[j]) /\ v[n + 1] = "Z"
    BY <2>2, <2>3, <2>4 DEF Joined
  <2> HIDE DEF n
  <2>6. ASSUME NEW j \in 1..(n + 1) PROVE v[j] # CR
    <3>1. j \in 1..n \/ j = n + 1
      BY <2>4
    <3> QED BY <1>3, <2>1, <2>5, <3>1
  <2>7. \A j \in 1..Len(v) : v[j] # CR
    BY <2>5, <2>6
  <2>8. c = Header("X-Timestamp", v)
    BY DEF v, s, z
  <2> QED BY <1>2, <1>3, <2>3, <2>7, <2>8, HeaderIs
<1>8. body \in Seq(Piece)
  <2> DEFINE p == "<speak><voice name='"
             q == "'><prosody pitch rate volume>"
             r == "</prosody></voice></speak>"
             P == <<p>>
             Q == <<q>>
             E == <<r>>
             Pv == P \o voice
             PvQ == Pv \o Q
             PvQc == PvQ \o chunk
  <2>1. p \in Piece /\ q \in Piece /\ r \in Piece
    BY DEF Piece, Literals
  <2>2. body = PvQc \o E
    BY DEF assemble_ssml
  <2> HIDE DEF p, q, r
  <2>3. P \in Seq(Piece) /\ Q \in Seq(Piece) /\ E \in Seq(Piece)
    BY <2>1, OneIs
  <2>4. config.voice \in Seq(Piece) /\ chunk \in Seq(Piece)
    <3>1. config.voice \in Seq(STRING) /\ chunk \in Seq(STRING)
      BY ConfigsAssumption, PiecesAssumption
    <3> QED BY <3>1 DEF Piece
  <2>5. voice \in Seq(Piece)
    BY <2>4, NameType
  <2> HIDE DEF P, Q, E, voice, body
  <2>6. Pv \in Seq(Piece)
    BY <2>3, <2>5, JoinIs
  <2> HIDE DEF Pv
  <2>7. PvQ \in Seq(Piece)
    BY <2>3, <2>6, JoinIs
  <2> HIDE DEF PvQ
  <2>8. PvQc \in Seq(Piece)
    BY <2>4, <2>7, JoinIs
  <2> HIDE DEF PvQc
  <2> QED BY <2>2, <2>3, <2>8, JoinIs
<1> HIDE DEF R, a, b, c, d, body
<1>9. hs = <<a, b, c, d>>
  OBVIOUS
<1> HIDE DEF hs
<1>10. hs \in Seq(R) /\ Len(hs) = 4 /\ \A k \in 1..4 : PlainHeader(hs[k])
  BY <1>4, <1>5, <1>6, <1>7, <1>9, FourHeaders
<1>11. hs \in Headers
  BY <1>10 DEF Headers, R
<1>12. Len(hs) >= 1 /\ \A k \in 1..Len(hs) : PlainHeader(hs[k])
  BY <1>10
<1>13. msg.headers = hs /\ msg.body = body
  BY <1>1
<1>14. msg = [headers |-> msg.headers, body |-> msg.body]
  BY <1>1, <1>13
<1> QED BY <1>8, <1>11, <1>12, <1>13, <1>14

\* What is sent is what was meant: every frame of the program is read back with
\* all its headers and its body, nothing of an accepted frame is lost, and a voice
\* keeps the name it was given (EdgeProtocol.cpp:51-106,
\* ProtocolSerializer.cpp:7-22, ProtocolParser.cpp:13-56, TtsConfig.cpp:57-77).
THEOREM RequestsAreReadBack == Spec => []RequestsReadBack
<1>1. Answered => RequestsParsed
  <2> SUFFICES ASSUME Answered, of = "request", done
               PROVE  parse(outcome) = [ok |-> TRUE, headers |-> input.headers,
                                        body |-> input.body]
    BY DEF RequestsParsed
  <2>1. input \in Requests /\ outcome = serialize(input)
    BY DEF Answered
  <2>2. /\ input = [headers |-> input.headers, body |-> input.body]
        /\ input.headers \in Headers /\ input.body \in Seq(Piece) /\ Len(input.headers) >= 1
        /\ \A k \in 1..Len(input.headers) : PlainHeader(input.headers[k])
    <3>1. CASE \E config \in Configs : input = build_speech_config_frame(config)
      BY <3>1, ConfigFrameIs
    <3>2. CASE \E config \in Configs, chunk \in Chunks : input = build_ssml_frame(config, chunk)
      BY <3>2, SsmlFrameIs
    <3> QED BY <2>1, <3>1, <3>2 DEF Requests
  <2> DEFINE hs == input.headers
             body == input.body
  <2>3. parse(serialize([headers |-> hs, body |-> body])) =
          [ok |-> TRUE, headers |-> hs, body |-> body]
    <3>1. hs \in Headers /\ body \in Seq(Piece) /\ Len(hs) >= 1
          /\ \A k \in 1..Len(hs) : PlainHeader(hs[k])
      BY <2>2
    <3> HIDE DEF hs, body
    <3> QED BY <3>1, FrameIsRead
  <2> QED BY <2>1, <2>2, <2>3
<1>2. Answered => AcceptedIsKept
  <2> SUFFICES ASSUME Answered, of = "wire", done, outcome.ok, SubSeq(input, 1, 2) # CRLF
               PROVE  serialize([headers |-> outcome.headers, body |-> outcome.body]) = input
    BY DEF AcceptedIsKept
  <2>1. input \in Wires /\ outcome = parse(input)
    BY DEF Answered
  <2>2. input \in Seq(Piece)
    <3>1. input \in Seq(STRING)
      BY <2>1, PiecesAssumption
    <3> QED BY <3>1 DEF Piece
  <2> QED BY <2>1, <2>2, WireIsKept
<1>3. Answered => NamesNormalisedOnce
  <2> SUFFICES ASSUME Answered, of = "voice", done, outcome # NoName
               PROVE  /\ normalize_voice_name(outcome) = outcome
                      /\ IsShort(input) /\ Find(input, Comma, 1) = 0 => Spelled(outcome) = input
    BY DEF NamesNormalisedOnce
  <2>1. input \in VoiceNames /\ outcome = normalize_voice_name(input)
    BY DEF Answered
  <2>2. input \in Seq(Piece)
    <3>1. input \in Seq(STRING)
      BY <2>1, PiecesAssumption
    <3> QED BY <3>1 DEF Piece
  <2> QED BY <2>1, <2>2, NamesStay
<1>4. Answered => RequestsReadBack
  BY <1>1, <1>2, <1>3 DEF RequestsReadBack
<1> QED BY <1>4, AnsweredAlways, PTL

-----------------------------------------------------------------------------
(* Subtitles: reading a sequence in parts.                                 *)

Parts(D) == [ended : Seq(Seq(D)), open : Seq(D)]

LEMMA ReadOnType ==
  ASSUME NEW D, NEW r \in Parts(D), NEW x \in D, NEW end
  PROVE  ReadOn(r, x, end) \in Parts(D)
BY DEF ReadOn, Parts

\* f holds what was read of s after each of n rounds.
Read(f, s, end, n) ==
  f[0] = NothingRead /\ \A k \in 0..(n - 1) : f[k + 1] = ReadOn(f[k], s[k + 1], end)

LEMMA SplitRounds ==
  ASSUME NEW D, NEW s \in Seq(D), NEW end
  PROVE  \E f : /\ Split(s, end) = f[Len(s)] /\ Read(f, s, end, Len(s))
                /\ \A k \in 0..Len(s) : f[k] \in Parts(D)
<1> DEFINE N == Len(s)
           P == Parts(D)
           step == [p \in (0..(N - 1)) \X P |-> ReadOn(p[2], s[p[1] + 1], end)]
           Body(h) == [n \in 0..Len(s) |->
                         IF n = 0 THEN NothingRead ELSE ReadOn(h[n - 1], s[n], end)]
<1>1. N \in Nat /\ \A k \in 0..(N - 1) : s[k + 1] \in D
  OBVIOUS
<1>2. NothingRead \in P
  BY DEF NothingRead, Parts
<1>3. step \in [(0..(N - 1)) \X P -> P]
  <2>1. \A k \in 0..(N - 1), r \in P : ReadOn(r, s[k + 1], end) \in P
    BY <1>1, ReadOnType
  <2> HIDE DEF P, N
  <2> QED BY <2>1
<1>4. \A k \in 0..(N - 1), r \in P : step[<<k, r>>] = ReadOn(r, s[k + 1], end)
  <2> HIDE DEF P, N
  <2> QED OBVIOUS
<1>5. PICK g \in [0..N -> P] : Loops(g, N, NothingRead, step)
  <2> HIDE DEF P, N, step
  <2> QED BY <1>1, <1>2, <1>3, LoopExists
<1> HIDE DEF step
<1>6. ASSUME NEW i \in 0..N
      PROVE  g[i] = IF i = 0 THEN NothingRead ELSE ReadOn(g[i - 1], s[i], end)
  <2>1. g[i] = IF i = 0 THEN NothingRead ELSE step[<<i - 1, g[i - 1]>>]
    BY <1>5 DEF Loops
  <2>2. CASE i = 0
    BY <2>1, <2>2
  <2>3. CASE i # 0
    <3>1. i - 1 \in 0..(N - 1) /\ i - 1 \in 0..N /\ (i - 1) + 1 = i
      BY <1>1, <2>3
    <3>2. g[i - 1] \in P
      BY <3>1
    <3> HIDE DEF P, N
    <3> QED BY <1>4, <2>1, <2>3, <3>1, <3>2
  <2> QED BY <2>2, <2>3
<1>7. g = Body(g)
  <2>1. g = [i \in 0..N |-> g[i]]
    OBVIOUS
  <2> QED BY <1>6, <2>1
<1> DEFINE a == CHOOSE h : h = Body(h)
<1>8. a = Body(a)
  <2> HIDE DEF Body
  <2> QED BY <1>7
<1>9. Split(s, end) = a[Len(s)]
  BY DEF Split
<1> HIDE DEF a
<1>10. a[0] = NothingRead
  BY <1>1, <1>8
<1>11. ASSUME NEW k \in 0..(N - 1) PROVE a[k + 1] = ReadOn(a[k], s[k + 1], end)
  <2>1. k + 1 \in 0..N /\ k + 1 # 0 /\ (k + 1) - 1 = k
    BY <1>1
  <2> QED BY <1>8, <2>1
<1>12. \A k \in 0..N : a[k] \in P
  <2> DEFINE S == {i \in Nat : i <= N => a[i] \in P}
  <2>1. 0 \in S
    BY <1>2, <1>10
  <2>2. ASSUME NEW k \in Nat, k \in S PROVE k + 1 \in S
    <3>1. SUFFICES ASSUME k + 1 <= N PROVE a[k + 1] \in P
      OBVIOUS
    <3>2. k \in 0..(N - 1) /\ a[k] \in P /\ s[k + 1] \in D
      BY <1>1, <2>2, <3>1
    <3> HIDE DEF P, N
    <3> QED BY <1>11, <3>2, ReadOnType DEF P
  <2> HIDE DEF S
  <2>3. \A k \in Nat : k \in S
    BY <2>1, <2>2, Induction
  <2> QED BY <1>1, <2>3 DEF S
<1> QED BY <1>9, <1>10, <1>11, <1>12 DEF Read

\* Two runs of the same rounds hold the same values.
LEMMA SplitIsRun ==
  ASSUME NEW D, NEW s \in Seq(D), NEW end, NEW f, NEW n \in Nat, n <= Len(s),
         NEW h, Read(f, s, end, n), Read(h, s, end, n)
  PROVE  f[n] = h[n]
<1> DEFINE S == {i \in Nat : i <= n => f[i] = h[i]}
<1>1. 0 \in S
  BY DEF Read
<1>2. ASSUME NEW k \in Nat, k \in S PROVE k + 1 \in S
  <2>1. SUFFICES ASSUME k + 1 <= n PROVE f[k + 1] = h[k + 1]
    OBVIOUS
  <2>2. k \in 0..(n - 1) /\ f[k] = h[k]
    BY <1>2, <2>1
  <2> QED BY <2>2 DEF Read
<1> HIDE DEF S
<1>3. \A k \in Nat : k \in S
  BY <1>1, <1>2, Induction
<1> QED BY <1>3 DEF S

LEMMA SplitType ==
  ASSUME NEW D, NEW s \in Seq(D), NEW end
  PROVE  Split(s, end) \in Parts(D)
<1>1. Len(s) \in 0..Len(s)
  OBVIOUS
<1> QED BY <1>1, SplitRounds

LEMMA SplitNone ==
  ASSUME NEW s, s = <<>>, NEW end
  PROVE  Split(s, end) = NothingRead
<1>1. s \in Seq({}) /\ Len(s) = 0
  OBVIOUS
<1>2. PICK f : Split(s, end) = f[Len(s)] /\ Read(f, s, end, Len(s))
  BY <1>1, SplitRounds
<1> QED BY <1>1, <1>2 DEF Read

\* One more element is read after all the others.
LEMMA SplitMore ==
  ASSUME NEW D, NEW s \in Seq(D), NEW x \in D, NEW end
  PROVE  Split(Append(s, x), end) = ReadOn(Split(s, end), x, end)
<1> DEFINE t == Append(s, x)
           n == Len(s)
<1>1. /\ t \in Seq(D) /\ Len(t) = n + 1 /\ t[n + 1] = x /\ n \in Nat
      /\ \A k \in 0..(n - 1) : t[k + 1] = s[k + 1]
  OBVIOUS
<1> HIDE DEF t
<1>2. PICK f : Split(t, end) = f[Len(t)] /\ Read(f, t, end, Len(t))
  BY <1>1, SplitRounds
<1>3. PICK h : Split(s, end) = h[n] /\ Read(h, s, end, n)
  BY SplitRounds
<1> HIDE DEF n
<1>4. \A k \in 0..n : f[k + 1] = ReadOn(f[k], t[k + 1], end)
  <2>1. Len(t) - 1 = n
    BY <1>1
  <2> QED BY <1>2, <2>1 DEF Read
<1>5. Read(f, s, end, n)
  <2>1. \A k \in 0..(n - 1) : k \in 0..n
    BY <1>1
  <2> QED BY <1>1, <1>2, <1>4, <2>1 DEF Read
<1>6. f[n] = h[n]
  <2>1. n <= Len(s)
    BY <1>1 DEF n
  <2> QED BY <1>1, <1>3, <1>5, <2>1, SplitIsRun
<1>7. f[n + 1] = ReadOn(f[n], x, end)
  <2>1. n \in 0..n
    BY <1>1
  <2> QED BY <1>1, <1>4, <2>1
<1>8. Split(t, end) = f[n + 1]
  BY <1>1, <1>2
<1> QED BY <1>3, <1>6, <1>7, <1>8 DEF t

-----------------------------------------------------------------------------
(* Subtitles: the lines of a text that hold a character.                   *)

\* f holds the lines kept after each of n rounds.
Holds(f, lines, n) ==
  f[0] = <<>> /\ \A k \in 0..(n - 1) :
    f[k + 1] = IF lines[k + 1] # <<>> THEN Append(f[k], lines[k + 1]) ELSE f[k]

LEMMA FilledRounds ==
  ASSUME NEW D, NEW lines \in Seq(Seq(D))
  PROVE  \E f : /\ Filled(lines) = f[Len(lines)] /\ Holds(f, lines, Len(lines))
                /\ \A k \in 0..Len(lines) : f[k] \in Seq(Seq(D) \ {<<>>})
<1> DEFINE N == Len(lines)
           L == Seq(D)
           P == Seq(L \ {<<>>})
           Next1(k, held) == IF lines[k + 1] # <<>> THEN Append(held, lines[k + 1]) ELSE held
           step == [p \in (0..(N - 1)) \X P |-> Next1(p[1], p[2])]
           Body(h) == [n \in 0..Len(lines) |->
                         IF n = 0 THEN <<>>
                         ELSE IF lines[n] # <<>> THEN Append(h[n - 1], lines[n]) ELSE h[n - 1]]
<1>1. N \in Nat /\ \A k \in 0..(N - 1) : lines[k + 1] \in L
  <2>1. lines \in Seq(L)
    OBVIOUS
  <2> HIDE DEF L
  <2> QED BY <2>1
<1>2. <<>> \in P
  OBVIOUS
<1>0. ASSUME NEW k \in 0..(N - 1), NEW held \in P PROVE Next1(k, held) \in P
  <2>1. lines[k + 1] \in L
    BY <1>1
  <2> HIDE DEF L
  <2> QED BY <2>1
<1>3. step \in [(0..(N - 1)) \X P -> P]
  <2> HIDE DEF P, N, Next1
  <2> QED BY <1>0
<1>4. \A k \in 0..(N - 1), held \in P : step[<<k, held>>] = Next1(k, held)
  <2> HIDE DEF P, N, Next1
  <2> QED OBVIOUS
<1>5. PICK g \in [0..N -> P] : Loops(g, N, <<>>, step)
  <2> HIDE DEF P, N, step
  <2> QED BY <1>1, <1>2, <1>3, LoopExists
<1> HIDE DEF step
<1>6. ASSUME NEW i \in 0..N
      PROVE  g[i] = IF i = 0 THEN <<>>
                    ELSE IF lines[i] # <<>> THEN Append(g[i - 1], lines[i]) ELSE g[i - 1]
  <2>1. g[i] = IF i = 0 THEN <<>> ELSE step[<<i - 1, g[i - 1]>>]
    BY <1>5 DEF Loops
  <2>2. CASE i = 0
    BY <2>1, <2>2
  <2>3. CASE i # 0
    <3>1. i - 1 \in 0..(N - 1) /\ i - 1 \in 0..N /\ (i - 1) + 1 = i
      BY <1>1, <2>3
    <3>2. g[i - 1] \in P
      BY <3>1
    <3>3. g[i] = Next1(i - 1, g[i - 1])
      <4> HIDE DEF P, N, Next1
      <4> QED BY <1>4, <2>1, <2>3, <3>1, <3>2
    <3> HIDE DEF P, N
    <3> QED BY <2>3, <3>1, <3>3
  <2> QED BY <2>2, <2>3
<1>7. g = Body(g)
  <2>1. g = [i \in 0..N |-> g[i]]
    OBVIOUS
  <2> QED BY <1>6, <2>1
<1> DEFINE a == CHOOSE h : h = Body(h)
<1>8. a = Body(a)
  <2> HIDE DEF Body
  <2> QED BY <1>7
<1>9. Filled(lines) = a[Len(lines)]
  BY DEF Filled
<1> HIDE DEF a
<1>10. a[0] = <<>>
  BY <1>1, <1>8
<1>11. ASSUME NEW k \in 0..(N - 1)
       PROVE  a[k + 1] = IF lines[k + 1] # <<>> THEN Append(a[k], lines[k + 1]) ELSE a[k]
  <2>1. k + 1 \in 0..N /\ k + 1 # 0 /\ (k + 1) - 1 = k
    BY <1>1
  <2> QED BY <1>8, <2>1
<1>12. \A k \in 0..N : a[k] \in P
  <2> DEFINE S == {i \in Nat : i <= N => a[i] \in P}
  <2>1. 0 \in S
    BY <1>2, <1>10
  <2>2. ASSUME NEW k \in Nat, k \in S PROVE k + 1 \in S
    <3>1. SUFFICES ASSUME k + 1 <= N PROVE a[k + 1] \in P
      OBVIOUS
    <3>2. k \in 0..(N - 1) /\ a[k] \in P
      BY <1>1, <2>2, <3>1
    <3>3. a[k + 1] = Next1(k, a[k])
      BY <1>11, <3>2
    <3> HIDE DEF P, N, Next1
    <3> QED BY <1>0, <3>2, <3>3
  <2> HIDE DEF S
  <2>3. \A k \in Nat : k \in S
    BY <2>1, <2>2, Induction
  <2> QED BY <1>1, <2>3 DEF S
<1> QED BY <1>9, <1>10, <1>11, <1>12 DEF Holds

LEMMA HeldIsRun ==
  ASSUME NEW lines, NEW n \in Nat, NEW f, NEW h, Holds(f, lines, n), Holds(h, lines, n)
  PROVE  f[n] = h[n]
<1> DEFINE S == {i \in Nat : i <= n => f[i] = h[i]}
<1>1. 0 \in S
  BY DEF Holds
<1>2. ASSUME NEW k \in Nat, k \in S PROVE k + 1 \in S
  <2>1. SUFFICES ASSUME k + 1 <= n PROVE f[k + 1] = h[k + 1]
    OBVIOUS
  <2>2. k \in 0..(n - 1) /\ f[k] = h[k]
    BY <1>2, <2>1
  <2> QED BY <2>2 DEF Holds
<1> HIDE DEF S
<1>3. \A k \in Nat : k \in S
  BY <1>1, <1>2, Induction
<1> QED BY <1>3 DEF S

LEMMA FilledType ==
  ASSUME NEW D, NEW lines \in Seq(Seq(D))
  PROVE  Filled(lines) \in Seq(Seq(D) \ {<<>>})
<1>1. Len(lines) \in 0..Len(lines)
  OBVIOUS
<1> QED BY <1>1, FilledRounds

LEMMA FilledNone ==
  ASSUME NEW lines, lines = <<>>
  PROVE  Filled(lines) = <<>>
<1>1. lines \in Seq(Seq({})) /\ Len(lines) = 0
  OBVIOUS
<1>2. PICK f : Filled(lines) = f[Len(lines)] /\ Holds(f, lines, Len(lines))
  BY <1>1, FilledRounds
<1> QED BY <1>1, <1>2 DEF Holds

LEMMA FilledMore ==
  ASSUME NEW D, NEW lines \in Seq(Seq(D)), NEW x \in Seq(D)
  PROVE  Filled(Append(lines, x)) = IF x # <<>> THEN Append(Filled(lines), x) ELSE Filled(lines)
<1> DEFINE t == Append(lines, x)
           n == Len(lines)
           L == Seq(D)
<1>1. /\ t \in Seq(L) /\ Len(t) = n + 1 /\ t[n + 1] = x /\ n \in Nat
      /\ \A k \in 0..(n - 1) : t[k + 1] = lines[k + 1]
  <2>1. lines \in Seq(L) /\ x \in L
    OBVIOUS
  <2> HIDE DEF L
  <2> QED BY <2>1
<1> HIDE DEF t
<1>2. PICK f : Filled(t) = f[Len(t)] /\ Holds(f, t, Len(t))
  BY <1>1, FilledRounds
<1>3. PICK h : Filled(lines) = h[n] /\ Holds(h, lines, n)
  BY FilledRounds
<1> HIDE DEF n
<1>4. \A k \in 0..n : f[k + 1] = IF t[k + 1] # <<>> THEN Append(f[k], t[k + 1]) ELSE f[k]
  <2>1. Len(t) - 1 = n
    BY <1>1
  <2> QED BY <1>2, <2>1 DEF Holds
<1>5. Holds(f, lines, n)
  <2>1. \A k \in 0..(n - 1) : k \in 0..n
    BY <1>1
  <2> QED BY <1>1, <1>2, <1>4, <2>1 DEF Holds
<1>6. f[n] = h[n]
  BY <1>1, <1>3, <1>5, HeldIsRun
<1>7. f[n + 1] = IF x # <<>> THEN Append(f[n], x) ELSE f[n]
  <2>1. n \in 0..n
    BY <1>1
  <2> QED BY <1>1, <1>4, <2>1
<1>8. Filled(t) = f[n + 1]
  BY <1>1, <1>2
<1> QED BY <1>3, <1>6, <1>7, <1>8 DEF t

\* What was copied of a text after each of n rounds.
Copies(f, text, n) ==
  f[0] = <<>> /\ \A k \in 0..(n - 1) :
    f[k + 1] = IF k + 1 \in Kept(text) THEN Append(f[k], text[k + 1]) ELSE f[k]

LEMMA LegalRounds ==
  ASSUME NEW D, NEW text \in Seq(D)
  PROVE  \E f : /\ make_legal_content(text) = f[Len(text)] /\ Copies(f, text, Len(text))
                /\ \A k \in 0..Len(text) : f[k] \in Seq(D)
<1> DEFINE N == Len(text)
           P == Seq(D)
           K == Kept(text)
           Next1(k, out) == IF k + 1 \in K THEN Append(out, text[k + 1]) ELSE out
           step == [p \in (0..(N - 1)) \X P |-> Next1(p[1], p[2])]
           Body(h) == [n \in 0..Len(text) |->
                         IF n = 0 THEN <<>>
                         ELSE IF n \in Kept(text) THEN Append(h[n - 1], text[n]) ELSE h[n - 1]]
<1> HIDE DEF K
<1>1. N \in Nat /\ \A k \in 0..(N - 1) : text[k + 1] \in D
  OBVIOUS
<1>2. <<>> \in P
  OBVIOUS
<1>0. ASSUME NEW k \in 0..(N - 1), NEW out \in P PROVE Next1(k, out) \in P
  BY <1>1
<1>3. step \in [(0..(N - 1)) \X P -> P]
  <2> HIDE DEF P, N, Next1
  <2> QED BY <1>0
<1>4. \A k \in 0..(N - 1), out \in P : step[<<k, out>>] = Next1(k, out)
  <2> HIDE DEF P, N, Next1
  <2> QED OBVIOUS
<1>5. PICK g \in [0..N -> P] : Loops(g, N, <<>>, step)
  <2> HIDE DEF P, N, step
  <2> QED BY <1>1, <1>2, <1>3, LoopExists
<1> HIDE DEF step
<1>6. ASSUME NEW i \in 0..N
      PROVE  g[i] = IF i = 0 THEN <<>>
                    ELSE IF i \in Kept(text) THEN Append(g[i - 1], text[i]) ELSE g[i - 1]
  <2>1. g[i] = IF i = 0 THEN <<>> ELSE step[<<i - 1, g[i - 1]>>]
    BY <1>5 DEF Loops
  <2>2. CASE i = 0
    BY <2>1, <2>2
  <2>3. CASE i # 0
    <3>1. i - 1 \in 0..(N - 1) /\ i - 1 \in 0..N /\ (i - 1) + 1 = i
      BY <1>1, <2>3
    <3>2. g[i - 1] \in P
      BY <3>1
    <3>3. g[i] = Next1(i - 1, g[i - 1])
      <4> HIDE DEF P, N, Next1
      <4> QED BY <1>4, <2>1, <2>3, <3>1, <3>2
    <3> HIDE DEF P, N
    <3> QED BY <2>3, <3>1, <3>3 DEF K
  <2> QED BY <2>2, <2>3
<1>7. g = Body(g)
  <2>1. g = [i \in 0..N |-> g[i]]
    OBVIOUS
  <2> QED BY <1>6, <2>1
<1> DEFINE a == CHOOSE h : h = Body(h)
<1>8. a = Body(a)
  <2> HIDE DEF Body
  <2> QED BY <1>7
<1>9. make_legal_content(text) = a[Len(text)]
  BY DEF make_legal_content
<1> HIDE DEF a
<1>10. a[0] = <<>>
  BY <1>1, <1>8
<1>11. ASSUME NEW k \in 0..(N - 1)
       PROVE  a[k + 1] = IF k + 1 \in Kept(text) THEN Append(a[k], text[k + 1]) ELSE a[k]
  <2>1. k + 1 \in 0..N /\ k + 1 # 0 /\ (k + 1) - 1 = k
    BY <1>1
  <2> QED BY <1>8, <2>1
<1>12. \A k \in 0..N : a[k] \in P
  <2> DEFINE S == {i \in Nat : i <= N => a[i] \in P}
  <2>1. 0 \in S
    BY <1>2, <1>10
  <2>2. ASSUME NEW k \in Nat, k \in S PROVE k + 1 \in S
    <3>1. SUFFICES ASSUME k + 1 <= N PROVE a[k + 1] \in P
      OBVIOUS
    <3>2. k \in 0..(N - 1) /\ a[k] \in P
      BY <1>1, <2>2, <3>1
    <3>3. a[k + 1] = Next1(k, a[k])
      BY <1>11, <3>2 DEF K
    <3> HIDE DEF P, N, Next1
    <3> QED BY <1>0, <3>2, <3>3
  <2> HIDE DEF S
  <2>3. \A k \in Nat : k \in S
    BY <2>1, <2>2, Induction
  <2> QED BY <1>1, <2>3 DEF S
<1> QED BY <1>9, <1>10, <1>11, <1>12 DEF Copies

\* Something comes after the first n characters; the n-th is not a line end.
More(text, n) == \E j \in (n + 1)..Len(text) : text[j] # NewLine
Speaks(text, n) == n >= 1 /\ text[n] # NewLine

\* What was copied reads as the lines that hold a character; only the last of
\* them may have been ended by the text alone.
Alike(text, n, copied, read) ==
  /\ Speaks(text, n) <=> read.open # <<>>
  /\ More(text, n) \/ Speaks(text, n) =>
       copied.ended = Filled(read.ended) /\ copied.open = read.open
  /\ ~More(text, n) /\ ~Speaks(text, n) =>
       Append(copied.ended, copied.open) = Filled(read.ended)

LEMMA KeptIs ==
  ASSUME NEW D, NEW text \in Seq(D), NEW n \in Nat, n < Len(text)
  PROVE  n + 1 \in Kept(text) <=>
           Speaks(text, n + 1) \/ (Speaks(text, n) /\ More(text, n + 1))
<1>1. n + 1 \in DOMAIN text /\ (n + 1) - 1 = n
  OBVIOUS
<1>2. n + 1 \in Kept(text) <=>
        /\ \E j \in 1..(n + 1) : text[j] # NewLine
        /\ \E j \in (n + 1)..Len(text) : text[j] # NewLine
        /\ ~(text[n + 1] = NewLine /\ text[n] = NewLine)
  BY <1>1 DEF Kept
<1>3. CASE text[n + 1] # NewLine
  <2>1. n + 1 \in 1..(n + 1) /\ n + 1 \in (n + 1)..Len(text)
    OBVIOUS
  <2> QED BY <1>2, <1>3, <2>1 DEF Speaks
<1>4. CASE text[n + 1] = NewLine
  <2>1. (\E j \in (n + 1)..Len(text) : text[j] # NewLine) <=> More(text, n + 1)
    <3>1. \A j \in (n + 1)..Len(text) : j = n + 1 \/ j \in ((n + 1) + 1)..Len(text)
      OBVIOUS
    <3>2. \A j \in ((n + 1) + 1)..Len(text) : j \in (n + 1)..Len(text)
      OBVIOUS
    <3> QED BY <1>4, <3>1, <3>2 DEF More
  <2>2. CASE n = 0
    <3>1. 1..(n + 1) = {1}
      BY <2>2
    <3> QED BY <1>2, <1>4, <2>2, <3>1 DEF Speaks
  <2>3. CASE n >= 1
    <3>1. n \in 1..(n + 1)
      BY <2>3
    <3> QED BY <1>2, <1>4, <2>1, <2>3, <3>1 DEF Speaks
  <2> QED BY <2>2, <2>3
<1> QED BY <1>3, <1>4

LEMMA MoreIs ==
  ASSUME NEW D, NEW text \in Seq(D), NEW n \in Nat, n < Len(text)
  PROVE  More(text, n) <=> Speaks(text, n + 1) \/ More(text, n + 1)
<1>1. \A j \in (n + 1)..Len(text) : j = n + 1 \/ j \in ((n + 1) + 1)..Len(text)
  OBVIOUS
<1>2. \A j \in ((n + 1) + 1)..Len(text) : j \in (n + 1)..Len(text)
  OBVIOUS
<1>3. n + 1 \in (n + 1)..Len(text) /\ n + 1 >= 1
  OBVIOUS
<1> QED BY <1>1, <1>2, <1>3 DEF More, Speaks

LEMMA AppendIsSome ==
  ASSUME NEW D, NEW s \in Seq(D), NEW x \in D
  PROVE  Append(s, x) # <<>>
<1>1. Len(Append(s, x)) = Len(s) + 1 /\ Len(s) \in Nat /\ Len(<<>>) = 0
  OBVIOUS
<1> QED BY <1>1

LEMMA AlikeStep ==
  ASSUME NEW D, NEW text \in Seq(D), NEW n \in Nat, n < Len(text),
         NEW out \in Seq(D), NEW read \in Parts(D),
         Alike(text, n, Split(out, NewLine), read),
         NEW new, new = IF n + 1 \in Kept(text) THEN Append(out, text[n + 1]) ELSE out
  PROVE  Alike(text, n + 1, Split(new, NewLine), ReadOn(read, text[n + 1], NewLine))
<1> DEFINE x == text[n + 1]
           old == Split(out, NewLine)
           cur == Split(new, NewLine)
           next == ReadOn(read, x, NewLine)
           said == Speaks(text, n)
           says == Speaks(text, n + 1)
           more == More(text, n + 1)
           F == Filled(read.ended)
<1>1. x \in D /\ (says <=> x # NewLine)
  BY DEF Speaks
<1>2. (n + 1 \in Kept(text) <=> says \/ (said /\ more)) /\ (More(text, n) <=> says \/ more)
  BY KeptIs, MoreIs
<1>3. /\ said <=> read.open # <<>>
      /\ (says \/ more) \/ said => old.ended = F /\ old.open = read.open
      /\ ~(says \/ more) /\ ~said => Append(old.ended, old.open) = F
  BY <1>2 DEF Alike
<1>4. /\ read.ended \in Seq(Seq(D)) /\ read.open \in Seq(D)
      /\ Filled(Append(read.ended, read.open)) =
           IF read.open # <<>> THEN Append(F, read.open) ELSE F
  <2>1. read.ended \in Seq(Seq(D)) /\ read.open \in Seq(D)
    BY DEF Parts
  <2> QED BY <2>1, FilledMore
<1>5. Split(Append(out, x), NewLine) = ReadOn(old, x, NewLine)
  BY <1>1, SplitMore
<1>6. SUFFICES /\ says <=> next.open # <<>>
               /\ more \/ says => cur.ended = Filled(next.ended) /\ cur.open = next.open
               /\ ~more /\ ~says => Append(cur.ended, cur.open) = Filled(next.ended)
  BY DEF Alike
<1>7. CASE says
  <2>1. next = [ended |-> read.ended, open |-> Append(read.open, x)]
    BY <1>1, <1>7 DEF ReadOn
  <2>2. cur = ReadOn(old, x, NewLine)
    BY <1>2, <1>5, <1>7
  <2>3. cur = [ended |-> old.ended, open |-> Append(old.open, x)]
    BY <1>1, <1>7, <2>2 DEF ReadOn
  <2>4. Append(read.open, x) # <<>>
    BY <1>1, <1>4, AppendIsSome
  <2> HIDE DEF x, old, cur, next, said, says, more, F
  <2>5. old.ended = F /\ old.open = read.open
    BY <1>3, <1>7
  <2>6. next.ended = read.ended /\ next.open = Append(read.open, x)
    BY <2>1
  <2>7. cur.ended = old.ended /\ cur.open = Append(old.open, x)
    BY <2>3
  <2> QED BY <1>7, <2>4, <2>5, <2>6, <2>7 DEF F
<1>8. CASE ~says
  <2>1. next = [ended |-> Append(read.ended, read.open), open |-> <<>>]
    BY <1>1, <1>8 DEF ReadOn
  <2>2. next.ended = Append(read.ended, read.open) /\ next.open = <<>>
    BY <2>1
  <2>3. CASE said /\ more
    <3>1. cur = ReadOn(old, x, NewLine)
      BY <1>2, <1>5, <2>3
    <3>2. cur = [ended |-> Append(old.ended, old.open), open |-> <<>>]
      BY <1>1, <1>8, <3>1 DEF ReadOn
    <3>3. cur.ended = Append(old.ended, old.open) /\ cur.open = <<>>
      BY <3>2
    <3> HIDE DEF x, old, cur, next, said, says, more, F
    <3>4. old.ended = F /\ old.open = read.open /\ read.open # <<>>
      BY <1>3, <2>3
    <3> QED BY <1>4, <1>8, <2>2, <2>3, <3>3, <3>4
  <2>4. CASE ~(said /\ more)
    <3>1. cur = old
      BY <1>2, <1>8, <2>4
    <3> HIDE DEF x, old, cur, next, said, says, more, F
    <3>2. CASE said
      <4>1. old.ended = F /\ old.open = read.open /\ read.open # <<>> /\ ~more
        BY <1>3, <2>4, <3>2
      <4> QED BY <1>4, <1>8, <2>2, <3>1, <4>1
    <3>3. CASE ~said
      <4>1. read.open = <<>> /\ Filled(next.ended) = F
        BY <1>3, <1>4, <2>2, <3>3
      <4>2. CASE more
        BY <1>3, <1>8, <2>2, <3>1, <4>1, <4>2
      <4>3. CASE ~more
        BY <1>3, <1>8, <2>2, <3>1, <3>3, <4>1, <4>3
      <4> QED BY <4>2, <4>3
    <3> QED BY <3>2, <3>3
  <2> QED BY <2>3, <2>4
<1> QED BY <1>7, <1>8

\* What is written of a text that says something are its lines that hold a
\* character (SrtComposer.cpp:15-35).
LEMMA LinesAreShown ==
  ASSUME NEW D, NEW text \in Seq(D), \E c \in DOMAIN text : text[c] # NewLine
  PROVE  /\ LinesOf(make_legal_content(text)) = Shown(text)
         /\ Shown(text) \in Seq(Seq(D) \ {<<>>})
<1> DEFINE N == Len(text)
<1>1. PICK f : /\ make_legal_content(text) = f[N] /\ Copies(f, text, N)
               /\ \A k \in 0..N : f[k] \in Seq(D)
  BY LegalRounds
<1>2. PICK g : /\ Split(text, NewLine) = g[N] /\ Read(g, text, NewLine, N)
               /\ \A k \in 0..N : g[k] \in Parts(D)
  BY SplitRounds
<1>3. N \in Nat
  OBVIOUS
<1> DEFINE S == {n \in Nat : n <= N => Alike(text, n, Split(f[n], NewLine), g[n])}
<1>4. 0 \in S
  <2>1. Split(f[0], NewLine) = NothingRead /\ g[0] = NothingRead
    BY <1>1, <1>2, SplitNone DEF Copies, Read
  <2>2. More(text, 0) /\ ~Speaks(text, 0)
    BY DEF More, Speaks
  <2>3. Filled(<<>>) = <<>>
    BY FilledNone
  <2> QED BY <2>1, <2>2, <2>3 DEF Alike, NothingRead
<1>5. ASSUME NEW n \in Nat, n \in S PROVE n + 1 \in S
  <2>1. SUFFICES ASSUME n + 1 <= N
                 PROVE  Alike(text, n + 1, Split(f[n + 1], NewLine), g[n + 1])
    OBVIOUS
  <2>2. n \in 0..(N - 1) /\ n \in 0..N /\ n < Len(text)
    BY <1>3, <2>1
  <2>3. /\ f[n + 1] = IF n + 1 \in Kept(text) THEN Append(f[n], text[n + 1]) ELSE f[n]
        /\ g[n + 1] = ReadOn(g[n], text[n + 1], NewLine)
    BY <1>1, <1>2, <2>2 DEF Copies, Read
  <2>4. f[n] \in Seq(D) /\ g[n] \in Parts(D) /\ Alike(text, n, Split(f[n], NewLine), g[n])
    BY <1>1, <1>2, <1>5, <2>2
  <2> QED BY <2>2, <2>3, <2>4, AlikeStep
<1> HIDE DEF S
<1>6. N \in S
  BY <1>3, <1>4, <1>5, Induction
<1> DEFINE copied == Split(f[N], NewLine)
           read == g[N]
<1>7. Alike(text, N, copied, read) /\ read \in Parts(D)
  BY <1>2, <1>3, <1>6 DEF S
<1>8. /\ LinesOf(make_legal_content(text)) = Append(copied.ended, copied.open)
      /\ Shown(text) = Filled(Append(read.ended, read.open))
  BY <1>1, <1>2 DEF LinesOf, Shown
<1> HIDE DEF copied, read
<1>9. ~More(text, N)
  BY <1>3 DEF More
<1>10. read.ended \in Seq(Seq(D)) /\ read.open \in Seq(D)
  BY <1>7 DEF Parts
<1>11. Filled(Append(read.ended, read.open)) =
         IF read.open # <<>> THEN Append(Filled(read.ended), read.open) ELSE Filled(read.ended)
  BY <1>10, FilledMore
<1>12. Append(read.ended, read.open) \in Seq(Seq(D))
  <2> DEFINE L == Seq(D)
  <2>1. read.ended \in Seq(L) /\ read.open \in L
    BY <1>10
  <2> HIDE DEF L
  <2>2. Append(read.ended, read.open) \in Seq(L)
    BY <2>1
  <2> QED BY <2>2 DEF L
<1>13. Shown(text) \in Seq(Seq(D) \ {<<>>})
  BY <1>8, <1>12, FilledType
<1> QED BY <1>7, <1>8, <1>9, <1>11, <1>13 DEF Alike

-----------------------------------------------------------------------------
(* Subtitles: a block is read as it was written.                           *)

Line == [index : Nat] \cup [from : Seq(Int), to : Seq(Int)] \cup [text : Seq(STRING)]

\* b has m elements and then its end.
EndsAfter(b, m, end) == Len(b) = m + 1 /\ b[m + 1] = end /\ \A j \in 1..m : b[j] # end

\* A block that is added is the next one a reader takes.
LEMMA BlockIsTaken ==
  ASSUME NEW D, NEW s \in Seq(D), NEW b \in Seq(D), NEW end, NEW m \in Nat,
         EndsAfter(b, m, end), Split(s, end).open = <<>>
  PROVE  /\ Split(s \o b, end).open = <<>>
         /\ \E x \in Seq(D) : /\ Split(s \o b, end).ended = Append(Split(s, end).ended, x)
                              /\ Len(x) = m /\ \A j \in 1..m : x[j] = b[j]
<1> DEFINE n == Len(s)
           t == s \o b
           E == Split(s, end).ended
<1>0. Len(b) = m + 1 /\ b[m + 1] = end /\ \A j \in 1..m : b[j] # end
  BY DEF EndsAfter
<1>1. n \in Nat /\ t \in Seq(D) /\ Joined(t, s, b)
  BY JoinIs
<1> HIDE DEF t
<1>2. /\ Len(t) = n + (m + 1)
      /\ (\A j \in 1..n : t[j] = s[j]) /\ (\A j \in 1..(m + 1) : t[n + j] = b[j])
  BY <1>0, <1>1 DEF Joined
<1>3. PICK f : Split(t, end) = f[Len(t)] /\ Read(f, t, end, Len(t))
  BY <1>1, SplitRounds
<1>4. PICK h : Split(s, end) = h[n] /\ Read(h, s, end, n)
  BY SplitRounds
<1> HIDE DEF n
<1>5. \A k \in 0..(n + m) : f[k + 1] = ReadOn(f[k], t[k + 1], end)
  <2>1. Len(t) - 1 = n + m
    BY <1>1, <1>2
  <2> QED BY <1>3, <2>1 DEF Read
<1>6. f[n] = Split(s, end)
  <2>1. \A k \in 0..(n - 1) : k \in 0..(n + m) /\ k + 1 \in 1..n
    BY <1>1
  <2>2. Read(f, s, end, n)
    BY <1>2, <1>3, <1>5, <2>1 DEF Read
  <2>3. n <= Len(s)
    BY <1>1 DEF n
  <2> QED BY <1>1, <1>4, <2>2, <2>3, SplitIsRun
<1>7. f[n].open = <<>> /\ f[n].ended = E
  BY <1>6
<1> HIDE DEF E
<1> DEFINE Taken(j) == /\ f[n + j].ended = E /\ f[n + j].open \in Seq(D)
                       /\ Len(f[n + j].open) = j
                       /\ \A i \in 1..j : f[n + j].open[i] = b[i]
           S == {j \in Nat : j <= m => Taken(j)}
<1>8. 0 \in S
  <2>1. n + 0 = n
    BY <1>1
  <2>2. Taken(0)
    <3>1. Len(<<>>) = 0 /\ <<>> \in Seq(D) /\ 1..0 = {}
      OBVIOUS
    <3> QED BY <1>7, <2>1, <3>1
  <2> HIDE DEF Taken
  <2> QED BY <2>2
<1>9. ASSUME NEW j \in Nat, j \in S PROVE j + 1 \in S
  <2>1. SUFFICES ASSUME j + 1 <= m PROVE Taken(j + 1)
    <3> HIDE DEF Taken
    <3> QED OBVIOUS
  <2>2. Taken(j)
    BY <1>9, <2>1
  <2>3. n + j \in 0..(n + m) /\ j + 1 \in 1..(m + 1) /\ j + 1 \in 1..m /\ n + (j + 1) = (n + j) + 1
    BY <1>1, <2>1
  <2> DEFINE x == b[j + 1]
             r == f[n + j]
             q == f[n + (j + 1)]
  <2>4. x \in D /\ x # end
    BY <1>0, <2>3
  <2>5. q = ReadOn(r, x, end)
    BY <1>2, <1>5, <2>3
  <2>6. q.ended = r.ended /\ q.open = Append(r.open, x)
    BY <2>4, <2>5 DEF ReadOn
  <2>7. r.ended = E /\ r.open \in Seq(D) /\ Len(r.open) = j /\ \A i \in 1..j : r.open[i] = b[i]
    BY <2>2
  <2> DEFINE o == r.open
             w == q.open
  <2>8. o \in Seq(D) /\ Len(o) = j /\ (\A i \in 1..j : o[i] = b[i]) /\ w = Append(o, x)
    BY <2>6, <2>7
  <2> HIDE DEF o, x
  <2>9. w \in Seq(D) /\ Len(w) = j + 1 /\ w[j + 1] = x /\ \A i \in 1..j : w[i] = o[i]
    BY <2>4, <2>8
  <2>10. \A i \in 1..(j + 1) : w[i] = b[i]
    <3>1. \A i \in 1..(j + 1) : i \in 1..j \/ i = j + 1
      OBVIOUS
    <3> QED BY <2>8, <2>9, <3>1 DEF x
  <2> QED BY <2>6, <2>7, <2>9, <2>10
<1> HIDE DEF S
<1>10. m \in S
  BY <1>8, <1>9, Induction
<1>11. Taken(m)
  BY <1>10 DEF S
<1>12. f[n + (m + 1)] = ReadOn(f[n + m], end, end)
  <2>1. n + m \in 0..(n + m) /\ m + 1 \in 1..(m + 1) /\ n + (m + 1) = (n + m) + 1
    BY <1>1
  <2> QED BY <1>0, <1>2, <1>5, <2>1
<1>13. /\ f[n + (m + 1)].ended = Append(f[n + m].ended, f[n + m].open)
       /\ f[n + (m + 1)].open = <<>>
  BY <1>12 DEF ReadOn
<1>14. Split(t, end) = f[n + (m + 1)]
  BY <1>2, <1>3
<1> QED BY <1>11, <1>13, <1>14 DEF t, E

LEMMA StampIsRead ==
  ASSUME NEW millis \in Int
  PROVE  /\ to_srt_timestamp(millis) \in Seq(Int)
         /\ Millis(to_srt_timestamp(millis)) = millis
<1> DEFINE a == millis \div 3600000
           b == (millis % 3600000) \div 60000
           c == (millis % 60000) \div 1000
           d == millis % 1000
           s == <<a, b, c, d>>
<1>1. a \in Int /\ b \in Int /\ c \in Int /\ d \in Int
  OBVIOUS
<1>2. ((a * 60 + b) * 60 + c) * 1000 + d = millis
  OBVIOUS
<1>3. to_srt_timestamp(millis) = s
  BY DEF to_srt_timestamp
<1> HIDE DEF a, b, c, d
<1>4. s \in Seq(Int) /\ s[1] = a /\ s[2] = b /\ s[3] = c /\ s[4] = d
  BY <1>1
<1> HIDE DEF s
<1> QED BY <1>2, <1>3, <1>4 DEF Millis

\* What a reader takes for the k-th cue.
IsBlock(b, k, start, end, words) ==
  /\ Len(b) = 2 + Len(words)
  /\ b[1] = IndexLine(k)
  /\ Millis(b[2].from) = start
  /\ Millis(b[2].to) = end
  /\ \A l \in DOMAIN words : b[l + 2] = TextLine(words[l])

LEMMA LinesDiffer ==
  /\ \A k : IndexLine(k) # EmptyLine
  /\ \A cue : TimesLine(cue) # EmptyLine
  /\ \A chars : chars # <<>> => TextLine(chars) # EmptyLine
<1>1. ASSUME NEW k PROVE IndexLine(k) # EmptyLine
  <2>1. DOMAIN IndexLine(k) = {"index"} /\ DOMAIN EmptyLine = {"text"}
    BY DEF IndexLine, EmptyLine, TextLine
  <2> QED BY <2>1
<1>2. ASSUME NEW cue PROVE TimesLine(cue) # EmptyLine
  <2>1. DOMAIN TimesLine(cue) = {"from", "to"} /\ DOMAIN EmptyLine = {"text"}
    BY DEF TimesLine, EmptyLine, TextLine
  <2> QED BY <2>1
<1>3. ASSUME NEW chars, chars # <<>> PROVE TextLine(chars) # EmptyLine
  <2>1. TextLine(chars).text = chars /\ EmptyLine.text = <<>>
    BY DEF EmptyLine, TextLine
  <2> QED BY <1>3, <2>1
<1> QED BY <1>1, <1>2, <1>3

Filling == Seq(Seq(STRING) \ {<<>>})

LEMMA BlockIs ==
  ASSUME NEW k \in Nat, NEW cue, cue.start \in Int, cue.end \in Int, NEW words \in Filling,
         LinesOf(make_legal_content(cue.text)) = words
  PROVE  /\ Block(k, cue) \in Seq(Line) /\ Len(Block(k, cue)) = Len(words) + 3
         /\ Block(k, cue)[1] = IndexLine(k) /\ Block(k, cue)[2] = TimesLine(cue)
         /\ \A l \in 1..Len(words) : Block(k, cue)[l + 2] = TextLine(words[l])
         /\ Block(k, cue)[Len(words) + 3] = EmptyLine
<1> DEFINE x == IndexLine(k)
           y == TimesLine(cue)
           z == EmptyLine
           n == Len(words)
           head == <<x, y>>
           middle == [l \in DOMAIN words |-> TextLine(words[l])]
           last == <<z>>
<1>1. x \in Line
  <2>1. x \in [index : Nat]
    BY DEF IndexLine
  <2> QED BY <2>1 DEF Line
<1>2. y \in Line
  <2>1. to_srt_timestamp(cue.start) \in Seq(Int) /\ to_srt_timestamp(cue.end) \in Seq(Int)
    BY StampIsRead
  <2>2. y \in [from : Seq(Int), to : Seq(Int)]
    BY <2>1 DEF TimesLine
  <2> QED BY <2>2 DEF Line
<1>3. \A chars \in Seq(STRING) : TextLine(chars) \in Line
  <2>1. \A chars \in Seq(STRING) : TextLine(chars) \in [text : Seq(STRING)]
    BY DEF TextLine
  <2> QED BY <2>1 DEF Line
<1>4. z \in Line
  <2>1. <<>> \in Seq(STRING)
    OBVIOUS
  <2> QED BY <1>3, <2>1 DEF EmptyLine
<1>5. n \in Nat /\ DOMAIN words = 1..n /\ \A l \in 1..n : words[l] \in Seq(STRING)
  <2>1. n \in Nat /\ DOMAIN words = 1..n
    BY DEF Filling
  <2> DEFINE T == Seq(STRING) \ {<<>>}
  <2>2. words \in Seq(T)
    BY DEF Filling
  <2>3. \A l \in 1..n : words[l] \in T
    <3> HIDE DEF T
    <3> QED BY <2>2
  <2> QED BY <2>1, <2>3
<1>6. Block(k, cue) = head \o middle \o last
  BY DEF Block
<1> HIDE DEF x, y, z
<1>7. head \in Seq(Line) /\ Len(head) = 2 /\ head[1] = x /\ head[2] = y
  BY <1>1, <1>2
<1>8. last \in Seq(Line) /\ Len(last) = 1 /\ last[1] = z
  BY <1>4
<1> HIDE DEF n
<1>9. /\ middle \in Seq(Line) /\ Len(middle) = n
      /\ \A l \in 1..n : middle[l] = TextLine(words[l])
  <2>1. middle = [l \in 1..n |-> TextLine(words[l])]
    BY <1>5
  <2>2. \A l \in 1..n : TextLine(words[l]) \in Line
    BY <1>3, <1>5
  <2> HIDE DEF middle
  <2>3. middle \in [1..n -> Line]
    BY <2>1, <2>2
  <2>4. middle \in Seq(Line) /\ Len(middle) = n
    BY <1>5, <2>3
  <2> QED BY <2>1, <2>4
<1> HIDE DEF head, middle, last
<1> DEFINE first == head \o middle
           all == first \o last
<1>10. first \in Seq(Line) /\ Joined(first, head, middle)
  BY <1>7, <1>9, JoinIs
<1> HIDE DEF first
<1>11. Len(first) = 2 + n /\ first[1] = x /\ first[2] = y
  <2>1. 1 \in 1..2 /\ 2 \in 1..2
    OBVIOUS
  <2> QED BY <1>7, <1>9, <1>10, <2>1 DEF Joined
<1>12. \A l \in 1..n : first[2 + l] = middle[l]
  BY <1>7, <1>9, <1>10 DEF Joined
<1>13. all \in Seq(Line) /\ Joined(all, first, last)
  BY <1>8, <1>10, JoinIs
<1> HIDE DEF all
<1>14. Len(all) = (2 + n) + 1 /\ \A j \in 1..(2 + n) : all[j] = first[j]
  BY <1>8, <1>11, <1>13 DEF Joined
<1>15. all[(2 + n) + 1] = z
  <2>1. 1 \in 1..1
    OBVIOUS
  <2> QED BY <1>8, <1>11, <1>13, <2>1 DEF Joined
<1>16. Block(k, cue) = all
  BY <1>6 DEF first, all
<1>17. n + 3 = (2 + n) + 1 /\ 1 \in 1..(2 + n) /\ 2 \in 1..(2 + n)
  BY <1>5
<1>18. all[1] = x /\ all[2] = y /\ Len(all) = n + 3 /\ all[n + 3] = z
  BY <1>11, <1>14, <1>15, <1>17
<1>19. \A l \in 1..n : all[l + 2] = TextLine(words[l])
  <2>1. \A l \in 1..n : l + 2 \in 1..(2 + n) /\ l + 2 = 2 + l
    BY <1>5
  <2> QED BY <1>9, <1>12, <1>14, <2>1
<1> QED BY <1>13, <1>16, <1>18, <1>19 DEF x, y, z, n

\* The reader takes the block that was written for a cue.
LEMMA BlockIsRead ==
  ASSUME NEW lines \in Seq(Line), Split(lines, EmptyLine).open = <<>>, NEW k \in Nat,
         NEW cue, cue.start \in Int, cue.end \in Int, cue.text \in Seq(STRING),
         \E c \in DOMAIN cue.text : cue.text[c] # NewLine
  PROVE  /\ lines \o Block(k, cue) \in Seq(Line)
         /\ Split(lines \o Block(k, cue), EmptyLine).open = <<>>
         /\ \E b : /\ IsBlock(b, k, cue.start, cue.end, Shown(cue.text))
                   /\ b \in Seq(Line)
                   /\ Blocks(lines \o Block(k, cue)) = Append(Blocks(lines), b)
<1> DEFINE words == Shown(cue.text)
           b == Block(k, cue)
           n == Len(words)
           m == n + 2
<1>1. LinesOf(make_legal_content(cue.text)) = words /\ words \in Filling
  <2> DEFINE text == cue.text
  <2>1. text \in Seq(STRING) /\ \E c \in DOMAIN text : text[c] # NewLine
    OBVIOUS
  <2>2. LinesOf(make_legal_content(text)) = Shown(text) /\ Shown(text) \in Filling
    <3> HIDE DEF text
    <3> QED BY <2>1, LinesAreShown DEF Filling
  <2> QED BY <2>2
<1> HIDE DEF words
<1>2. n \in Nat /\ DOMAIN words = 1..n /\ \A l \in 1..n : words[l] # <<>>
  <2> DEFINE T == Seq(STRING) \ {<<>>}
  <2>1. words \in Seq(T)
    BY <1>1 DEF Filling
  <2>2. n \in Nat /\ DOMAIN words = 1..n /\ \A l \in 1..n : words[l] \in T
    <3> HIDE DEF T
    <3> QED BY <2>1
  <2> QED BY <2>2
<1>3. /\ b \in Seq(Line) /\ Len(b) = n + 3 /\ b[1] = IndexLine(k) /\ b[2] = TimesLine(cue)
      /\ \A l \in 1..n : b[l + 2] = TextLine(words[l])
      /\ b[n + 3] = EmptyLine
  BY <1>1, BlockIs
<1> HIDE DEF b, n
<1>4. m \in Nat /\ n + 3 = m + 1
  BY <1>2
<1>5. ASSUME NEW j \in 1..m PROVE b[j] # EmptyLine
  <2>1. j = 1 \/ j = 2 \/ \E l \in 1..n : j = l + 2
    <3>1. CASE j <= 2
      BY <3>1
    <3>2. CASE j > 2
      <4>1. j - 2 \in 1..n /\ j = (j - 2) + 2
        BY <1>2, <3>2
      <4> QED BY <4>1
    <3> QED BY <1>4, <3>1, <3>2
  <2> QED BY <1>2, <1>3, <2>1, LinesDiffer
<1>6. /\ Split(lines \o b, EmptyLine).open = <<>>
      /\ \E x \in Seq(Line) :
           /\ Split(lines \o b, EmptyLine).ended = Append(Split(lines, EmptyLine).ended, x)
           /\ Len(x) = m /\ \A j \in 1..m : x[j] = b[j]
  <2> DEFINE end == EmptyLine
  <2>1. EndsAfter(b, m, end) /\ Split(lines, end).open = <<>>
    BY <1>3, <1>4, <1>5 DEF EndsAfter
  <2> HIDE DEF end, m
  <2>2. /\ Split(lines \o b, end).open = <<>>
        /\ \E x \in Seq(Line) :
             /\ Split(lines \o b, end).ended = Append(Split(lines, end).ended, x)
             /\ Len(x) = m /\ \A j \in 1..m : x[j] = b[j]
    BY <1>3, <1>4, <2>1, BlockIsTaken
  <2> QED BY <2>2 DEF end
<1>7. PICK x \in Seq(Line) :
        /\ Split(lines \o b, EmptyLine).ended = Append(Split(lines, EmptyLine).ended, x)
        /\ Len(x) = m /\ \A j \in 1..m : x[j] = b[j]
  BY <1>6
<1>8. IsBlock(x, k, cue.start, cue.end, words)
  <2>1. 1 \in 1..m /\ 2 \in 1..m /\ (\A l \in 1..n : l + 2 \in 1..m) /\ m = 2 + n
    BY <1>2
  <2>2. x[1] = IndexLine(k) /\ x[2] = TimesLine(cue)
    BY <1>3, <1>7, <2>1
  <2>3. x[2].from = to_srt_timestamp(cue.start) /\ x[2].to = to_srt_timestamp(cue.end)
    BY <2>2 DEF TimesLine
  <2>4. Millis(x[2].from) = cue.start /\ Millis(x[2].to) = cue.end
    BY <2>3, StampIsRead
  <2>5. \A l \in DOMAIN words : x[l + 2] = TextLine(words[l])
    BY <1>2, <1>3, <1>7, <2>1
  <2>6. Len(x) = 2 + Len(words)
    BY <1>7, <2>1 DEF n
  <2> QED BY <2>2, <2>4, <2>5, <2>6 DEF IsBlock
<1>9. lines \o b \in Seq(Line)
  BY <1>3, JoinIs
<1>10. Blocks(lines \o b) = Append(Blocks(lines), x)
  BY <1>7 DEF Blocks
<1> QED BY <1>6, <1>8, <1>9, <1>10 DEF b, words

-----------------------------------------------------------------------------
(* Subtitles: what was fed, one cue for every boundary.                    *)

Boundary == [type : STRING, offset : Int, duration : Int, text : Seq(STRING)]
Cue == [start : Int, end : Int, text : Seq(STRING)]
Builder == [ok : BOOLEAN, type : STRING \cup {NoType}, cues : Seq(Cue)]

CueOf(b) ==
  [start |-> b.offset \div TicksPerMs, end |-> (b.offset + b.duration) \div TicksPerMs,
   text |-> b.text]

LEMMA CueType ==
  ASSUME NEW b \in Boundary
  PROVE  CueOf(b) \in Cue
<1>1. \A t \in Int : t \div TicksPerMs \in Int
  BY TicksAssumption
<1>2. b.offset \in Int /\ b.offset + b.duration \in Int /\ b.text \in Seq(STRING)
  BY DEF Boundary
<1> QED BY <1>1, <1>2 DEF CueOf, Cue

LEMMA FeedIs ==
  ASSUME NEW r \in Builder, NEW b \in Boundary
  PROVE  /\ feed(r, b) \in Builder
         /\ feed(r, b).ok => r.ok /\ feed(r, b).cues = Append(r.cues, CueOf(b))
<1> DEFINE cue == CueOf(b)
           refused == \/ ~r.ok \/ r.type \notin {NoType, b.type}
                      \/ b.offset < 0 \/ b.offset + b.duration < 0
<1>1. cue \in Cue /\ b.type \in STRING
  BY CueType DEF Boundary
<1>2. feed(r, b) = IF refused THEN [r EXCEPT !.ok = FALSE]
                   ELSE [r EXCEPT !.type = b.type, !.cues = Append(@, cue)]
  BY DEF feed, from_edge_ticks, CueOf
<1>3. /\ r.ok \in BOOLEAN /\ r.type \in STRING \cup {NoType} /\ r.cues \in Seq(Cue)
      /\ r = [ok |-> r.ok, type |-> r.type, cues |-> r.cues]
  BY DEF Builder
<1>4. Append(r.cues, cue) \in Seq(Cue)
  BY <1>1, <1>3
<1>5. CASE refused
  <2>1. feed(r, b) = [ok |-> FALSE, type |-> r.type, cues |-> r.cues]
    BY <1>2, <1>3, <1>5
  <2> QED BY <1>3, <2>1 DEF Builder
<1>6. CASE ~refused
  <2>1. feed(r, b) = [ok |-> r.ok, type |-> b.type, cues |-> Append(r.cues, cue)]
    BY <1>2, <1>3, <1>6
  <2> HIDE DEF cue
  <2> QED BY <1>1, <1>3, <1>4, <1>6, <2>1 DEF Builder, cue
<1> QED BY <1>5, <1>6

Fed(f, bs, n) == f[0] = EmptyBuilder /\ \A k \in 0..(n - 1) : f[k + 1] = feed(f[k], bs[k + 1])

LEMMA FedRounds ==
  ASSUME NEW bs \in Seq(Boundary)
  PROVE  \E f : /\ FeedAll(bs) = f[Len(bs)] /\ Fed(f, bs, Len(bs))
                /\ \A k \in 0..Len(bs) : f[k] \in Builder
<1> DEFINE N == Len(bs)
           P == Builder
           step == [p \in (0..(N - 1)) \X P |-> feed(p[2], bs[p[1] + 1])]
           Body(h) == [n \in 0..Len(bs) |->
                         IF n = 0 THEN EmptyBuilder ELSE feed(h[n - 1], bs[n])]
<1>1. N \in Nat /\ \A k \in 0..(N - 1) : bs[k + 1] \in Boundary
  OBVIOUS
<1>2. EmptyBuilder \in P
  <2>1. <<>> \in Seq(Cue)
    OBVIOUS
  <2> QED BY <2>1 DEF EmptyBuilder, Builder
<1>3. step \in [(0..(N - 1)) \X P -> P]
  <2>1. \A k \in 0..(N - 1), r \in P : feed(r, bs[k + 1]) \in P
    BY <1>1, FeedIs
  <2> HIDE DEF P, N
  <2> QED BY <2>1
<1>4. \A k \in 0..(N - 1), r \in P : step[<<k, r>>] = feed(r, bs[k + 1])
  <2> HIDE DEF P, N
  <2> QED OBVIOUS
<1>5. PICK g \in [0..N -> P] : Loops(g, N, EmptyBuilder, step)
  <2> HIDE DEF P, N, step
  <2> QED BY <1>1, <1>2, <1>3, LoopExists
<1> HIDE DEF step
<1>6. ASSUME NEW i \in 0..N
      PROVE  g[i] = IF i = 0 THEN EmptyBuilder ELSE feed(g[i - 1], bs[i])
  <2>1. g[i] = IF i = 0 THEN EmptyBuilder ELSE step[<<i - 1, g[i - 1]>>]
    BY <1>5 DEF Loops
  <2>2. CASE i = 0
    BY <2>1, <2>2
  <2>3. CASE i # 0
    <3>1. i - 1 \in 0..(N - 1) /\ i - 1 \in 0..N /\ (i - 1) + 1 = i
      BY <1>1, <2>3
    <3>2. g[i - 1] \in P
      BY <3>1
    <3> HIDE DEF P, N
    <3> QED BY <1>4, <2>1, <2>3, <3>1, <3>2
  <2> QED BY <2>2, <2>3
<1>7. g = Body(g)
  <2>1. g = [i \in 0..N |-> g[i]]
    OBVIOUS
  <2> QED BY <1>6, <2>1
<1> DEFINE a == CHOOSE h : h = Body(h)
<1>8. a = Body(a)
  <2> HIDE DEF Body
  <2> QED BY <1>7
<1>9. FeedAll(bs) = a[Len(bs)]
  BY DEF FeedAll
<1> HIDE DEF a
<1>10. a[0] = EmptyBuilder
  BY <1>1, <1>8
<1>11. ASSUME NEW k \in 0..(N - 1) PROVE a[k + 1] = feed(a[k], bs[k + 1])
  <2>1. k + 1 \in 0..N /\ k + 1 # 0 /\ (k + 1) - 1 = k
    BY <1>1
  <2> QED BY <1>8, <2>1
<1>12. \A k \in 0..N : a[k] \in P
  <2> DEFINE S == {i \in Nat : i <= N => a[i] \in P}
  <2>1. 0 \in S
    BY <1>2, <1>10
  <2>2. ASSUME NEW k \in Nat, k \in S PROVE k + 1 \in S
    <3>1. SUFFICES ASSUME k + 1 <= N PROVE a[k + 1] \in P
      OBVIOUS
    <3>2. k \in 0..(N - 1) /\ a[k] \in P /\ bs[k + 1] \in Boundary
      BY <1>1, <2>2, <3>1
    <3> HIDE DEF N
    <3> QED BY <1>11, <3>2, FeedIs
  <2> HIDE DEF S
  <2>3. \A k \in Nat : k \in S
    BY <2>1, <2>2, Induction
  <2> QED BY <1>1, <2>3 DEF S
<1> QED BY <1>9, <1>10, <1>11, <1>12 DEF Fed

\* Unless one is refused, every boundary becomes a cue, in its place.
LEMMA FedIs ==
  ASSUME NEW bs \in Seq(Boundary), FeedAll(bs).ok
  PROVE  /\ FeedAll(bs).cues \in Seq(Cue) /\ Len(FeedAll(bs).cues) = Len(bs)
         /\ \A i \in 1..Len(bs) : FeedAll(bs).cues[i] = CueOf(bs[i])
<1> DEFINE N == Len(bs)
<1>1. PICK f : FeedAll(bs) = f[N] /\ Fed(f, bs, N) /\ \A k \in 0..N : f[k] \in Builder
  BY FedRounds
<1>2. N \in Nat /\ \A k \in 1..N : bs[k] \in Boundary
  OBVIOUS
<1> HIDE DEF N
<1> DEFINE Cues(k) == f[k].cues
           Right(k) == Len(Cues(k)) = k /\ \A i \in 1..k : Cues(k)[i] = CueOf(bs[i])
           S == {k \in Nat : k <= N => (f[k].ok => Right(k))}
<1>3. 0 \in S
  <2>1. Cues(0) = <<>>
    BY <1>1 DEF Fed, EmptyBuilder
  <2> HIDE DEF Cues
  <2> QED BY <2>1
<1>4. ASSUME NEW k \in Nat, k \in S PROVE k + 1 \in S
  <2>1. SUFFICES ASSUME k + 1 <= N, f[k + 1].ok PROVE Right(k + 1)
    <3> HIDE DEF Right
    <3> QED OBVIOUS
  <2>2. k \in 0..(N - 1) /\ k \in 0..N /\ k + 1 \in 1..N /\ k <= N
    BY <1>2, <2>1
  <2>3. f[k + 1] = feed(f[k], bs[k + 1]) /\ f[k] \in Builder /\ bs[k + 1] \in Boundary
    BY <1>1, <1>2, <2>2 DEF Fed
  <2> DEFINE cue == CueOf(bs[k + 1])
  <2>4. f[k].ok /\ Cues(k + 1) = Append(Cues(k), cue)
    BY <2>1, <2>3, FeedIs
  <2>5. Right(k) /\ Cues(k) \in Seq(Cue) /\ cue \in Cue
    <3>1. Cues(k) \in Seq(Cue)
      BY <2>3 DEF Builder
    <3>2. Right(k)
      <4> HIDE DEF Right
      <4> QED BY <1>4, <2>2, <2>4
    <3> HIDE DEF Right, Cues
    <3> QED BY <2>3, <3>1, <3>2, CueType
  <2> HIDE DEF Cues, cue
  <2>6. Len(Cues(k + 1)) = k + 1 /\ Cues(k + 1)[k + 1] = cue
        /\ \A i \in 1..k : Cues(k + 1)[i] = Cues(k)[i]
    BY <2>4, <2>5
  <2>7. ASSUME NEW i \in 1..(k + 1) PROVE Cues(k + 1)[i] = CueOf(bs[i])
    <3>1. i \in 1..k \/ i = k + 1
      OBVIOUS
    <3> QED BY <2>5, <2>6, <3>1 DEF cue
  <2> QED BY <2>6, <2>7
<1> HIDE DEF S
<1>5. N \in S
  BY <1>2, <1>3, <1>4, Induction
<1>6. f[N].ok => Right(N)
  BY <1>2, <1>5 DEF S
<1>7. f[N] \in Builder
  BY <1>1, <1>2
<1> QED BY <1>1, <1>6, <1>7 DEF Builder, N

-----------------------------------------------------------------------------
(* Subtitles: the order of the cues.                                       *)

\* The first of three numbers that differ decides.
FirstLess(a, b, c, x, y, z) == a < x \/ (a = x /\ b < y) \/ (a = x /\ b = y /\ c < z)

LEMMA FirstDiffers ==
  ASSUME NEW a \in Int, NEW b \in Int, NEW c \in Int, NEW x \in Int, NEW y \in Int, NEW z \in Int,
         NEW u \in Int, NEW v \in Int, NEW w \in Int
  PROVE  /\ ~FirstLess(a, b, c, a, b, c)
         /\ c # z => FirstLess(a, b, c, x, y, z) \/ FirstLess(x, y, z, a, b, c)
         /\ FirstLess(a, b, c, x, y, z) /\ FirstLess(x, y, z, u, v, w)
              => FirstLess(a, b, c, u, v, w)
BY DEF FirstLess

LEMMA GoesBeforeIs ==
  ASSUME NEW cues \in Seq(Cue), NEW a \in DOMAIN cues, NEW b \in DOMAIN cues, NEW c \in DOMAIN cues
  PROVE  /\ ~GoesBefore(cues, a, a)
         /\ a # b => GoesBefore(cues, a, b) \/ GoesBefore(cues, b, a)
         /\ GoesBefore(cues, a, b) /\ GoesBefore(cues, b, c) => GoesBefore(cues, a, c)
<1> DEFINE sa == cues[a].start
           sb == cues[b].start
           sc == cues[c].start
           ea == cues[a].end
           eb == cues[b].end
           ec == cues[c].end
<1>1. cues[a] \in Cue /\ cues[b] \in Cue /\ cues[c] \in Cue /\ a \in Nat /\ b \in Nat /\ c \in Nat
  OBVIOUS
<1>2. sa \in Int /\ sb \in Int /\ sc \in Int /\ ea \in Int /\ eb \in Int /\ ec \in Int
  BY <1>1 DEF Cue
<1>3. /\ GoesBefore(cues, a, b) <=> FirstLess(sa, ea, a, sb, eb, b)
      /\ GoesBefore(cues, b, a) <=> FirstLess(sb, eb, b, sa, ea, a)
      /\ GoesBefore(cues, b, c) <=> FirstLess(sb, eb, b, sc, ec, c)
      /\ GoesBefore(cues, a, c) <=> FirstLess(sa, ea, a, sc, ec, c)
      /\ GoesBefore(cues, a, a) <=> FirstLess(sa, ea, a, sa, ea, a)
  BY DEF GoesBefore, FirstLess
<1> HIDE DEF sa, sb, sc, ea, eb, ec
<1>4. ~GoesBefore(cues, a, a)
  BY <1>1, <1>2, <1>3, FirstDiffers
<1>5. a # b => GoesBefore(cues, a, b) \/ GoesBefore(cues, b, a)
  BY <1>1, <1>2, <1>3, FirstDiffers
<1>6. GoesBefore(cues, a, b) /\ GoesBefore(cues, b, c) => GoesBefore(cues, a, c)
  BY <1>1, <1>2, <1>3, FirstDiffers
<1> QED BY <1>4, <1>5, <1>6

Earlier(cues, a) == {b \in DOMAIN cues : GoesBefore(cues, b, a)}

LEMMA EarlierIs ==
  ASSUME NEW cues \in Seq(Cue), NEW a \in DOMAIN cues
  PROVE  /\ IsFiniteSet(Earlier(cues, a)) /\ Cardinality(Earlier(cues, a)) \in Nat
         /\ SortedPlace(cues, a) = Cardinality(Earlier(cues, a)) + 1
         /\ SortedPlace(cues, a) \in 1..Len(cues)
<1> DEFINE N == Len(cues)
           E == Earlier(cues, a)
<1>1. N \in Nat /\ DOMAIN cues = 1..N /\ a \in 1..N
  OBVIOUS
<1>2. IsFiniteSet(1..N) /\ Cardinality(1..N) = N
  <2> HIDE DEF N
  <2>1. 1 \in Int /\ N \in Int /\ (1 > N => N = 0) /\ N - 1 + 1 = N
    BY <1>1
  <2> QED BY <2>1, FS_Interval
<1>3. E \subseteq 1..N /\ a \notin E
  BY <1>1, GoesBeforeIs DEF Earlier
<1>4. SortedPlace(cues, a) = Cardinality(E) + 1
  BY DEF SortedPlace, Earlier
<1> HIDE DEF N, E
<1>5. IsFiniteSet(E) /\ Cardinality(E) <= N /\ (Cardinality(1..N) = Cardinality(E) => 1..N = E)
  BY <1>2, <1>3, FS_Subset
<1>6. Cardinality(E) \in Nat
  BY <1>5, FS_CardinalityType
<1>7. Cardinality(E) # N
  BY <1>1, <1>2, <1>3, <1>5
<1>8. Cardinality(E) + 1 \in 1..N
  BY <1>1, <1>5, <1>6, <1>7
<1> QED BY <1>4, <1>5, <1>6, <1>8 DEF E, N

LEMMA PlacesGrow ==
  ASSUME NEW cues \in Seq(Cue), NEW a \in DOMAIN cues, NEW b \in DOMAIN cues, GoesBefore(cues, b, a)
  PROVE  SortedPlace(cues, b) < SortedPlace(cues, a)
<1> DEFINE A == Earlier(cues, a)
           B == Earlier(cues, b)
<1>1. B \subseteq A /\ b \in A /\ b \notin B
  BY GoesBeforeIs DEF Earlier
<1>2. IsFiniteSet(A) /\ Cardinality(A) \in Nat /\ Cardinality(B) \in Nat
      /\ SortedPlace(cues, a) = Cardinality(A) + 1 /\ SortedPlace(cues, b) = Cardinality(B) + 1
  BY EarlierIs
<1> HIDE DEF A, B
<1>3. Cardinality(B) <= Cardinality(A) /\ (Cardinality(A) = Cardinality(B) => A = B)
  BY <1>1, <1>2, FS_Subset
<1> QED BY <1>1, <1>2, <1>3

LEMMA PlacesCompare ==
  ASSUME NEW cues \in Seq(Cue), NEW a \in DOMAIN cues, NEW b \in DOMAIN cues
  PROVE  /\ GoesBefore(cues, b, a) <=> SortedPlace(cues, b) < SortedPlace(cues, a)
         /\ SortedPlace(cues, b) = SortedPlace(cues, a) => b = a
<1>1. SortedPlace(cues, b) \in Nat /\ SortedPlace(cues, a) \in Nat
  BY EarlierIs
<1>2. CASE b = a
  BY <1>1, <1>2, GoesBeforeIs
<1>3. CASE GoesBefore(cues, b, a)
  BY <1>1, <1>3, PlacesGrow, GoesBeforeIs
<1>4. CASE b # a /\ ~GoesBefore(cues, b, a)
  <2>1. GoesBefore(cues, a, b)
    BY <1>4, GoesBeforeIs
  <2>2. SortedPlace(cues, a) < SortedPlace(cues, b)
    BY <2>1, PlacesGrow
  <2> QED BY <1>1, <1>4, <2>2
<1> QED BY <1>2, <1>3, <1>4

\* Every place is taken by the cue that goes there.
LEMMA OrderIs ==
  ASSUME NEW cues \in Seq(Cue), NEW k \in 1..Len(cues)
  PROVE  Order(cues)[k] \in DOMAIN cues /\ SortedPlace(cues, Order(cues)[k]) = k
<1> DEFINE N == Len(cues)
           I == 1..N
           f == [a \in I |-> SortedPlace(cues, a)]
<1>1. DOMAIN cues = I /\ N \in Nat
  OBVIOUS
<1>2. \A a \in I : SortedPlace(cues, a) \in I
  BY <1>1, EarlierIs
<1>3. \A a, b \in I : SortedPlace(cues, a) = SortedPlace(cues, b) => a = b
  BY <1>1, PlacesCompare
<1>4. IsFiniteSet(I)
  BY <1>1, FS_Interval
<1> HIDE DEF I
<1>5. f \in Injection(I, I)
  <2>1. f \in [I -> I]
    BY <1>2
  <2>2. IsInjective(f)
    BY <1>3 DEF IsInjective
  <2> QED BY <2>1, <2>2 DEF Injection
<1> HIDE DEF f
<1>6. f \in Surjection(I, I)
  BY <1>4, <1>5, FS_Injection
<1>7. \E a \in I : f[a] = k
  BY <1>6 DEF Surjection, I
<1>8. \E a \in DOMAIN cues : SortedPlace(cues, a) = k
  BY <1>1, <1>7 DEF f
<1>9. Order(cues)[k] = CHOOSE a \in DOMAIN cues : SortedPlace(cues, a) = k
  BY <1>1 DEF Order, I
<1> QED BY <1>8, <1>9

-----------------------------------------------------------------------------
(* Subtitles: the document.                                                *)

Document == [idx : Nat, lines : Seq(Line)]

LEMMA ShownSpeaks ==
  ASSUME NEW cue \in Cue, IsShown(cue)
  PROVE  /\ cue.start \in Int /\ cue.end \in Int /\ cue.text \in Seq(STRING)
         /\ \E c \in DOMAIN cue.text : cue.text[c] # NewLine
<1>1. ~is_blank(cue.text)
  BY DEF IsShown
<1> QED BY <1>1 DEF is_blank, Cue

\* f holds the document after each of n places.
Composes(f, cues, n) ==
  /\ f[0] = [idx |-> 1, lines |-> <<>>]
  /\ \A k \in 0..(n - 1) : f[k + 1] = Composed(f[k], cues[Order(cues)[k + 1]])

LEMMA ComposedType ==
  ASSUME NEW r \in Document, NEW cue \in Cue
  PROVE  Composed(r, cue) \in Document
<1>1. r.idx \in Nat /\ r.lines \in Seq(Line)
  BY DEF Document
<1>2. CASE ~IsShown(cue)
  BY <1>2 DEF Composed
<1>3. CASE IsShown(cue)
  <2>1. Block(r.idx, cue) \in Seq(Line)
    <3> DEFINE words == Shown(cue.text)
    <3>1. /\ cue.start \in Int /\ cue.end \in Int /\ cue.text \in Seq(STRING)
          /\ \E c \in DOMAIN cue.text : cue.text[c] # NewLine
      BY <1>3, ShownSpeaks
    <3>2. LinesOf(make_legal_content(cue.text)) = words /\ words \in Filling
      BY <3>1, LinesAreShown DEF Filling
    <3> HIDE DEF words
    <3> QED BY <1>1, <3>1, <3>2, BlockIs
  <2>2. r.lines \o Block(r.idx, cue) \in Seq(Line)
    BY <1>1, <2>1, JoinIs
  <2>3. Composed(r, cue) = [idx |-> r.idx + 1, lines |-> r.lines \o Block(r.idx, cue)]
    BY <1>3 DEF Composed
  <2> QED BY <1>1, <2>2, <2>3 DEF Document
<1> QED BY <1>2, <1>3

LEMMA ComposeRounds ==
  ASSUME NEW cues \in Seq(Cue)
  PROVE  \E f : /\ compose(cues) = f[Len(cues)].lines /\ Composes(f, cues, Len(cues))
                /\ \A k \in 0..Len(cues) : f[k] \in Document
<1> DEFINE N == Len(cues)
           P == Document
           d == [idx |-> 1, lines |-> <<>>]
           order == Order(cues)
           step == [p \in (0..(N - 1)) \X P |-> Composed(p[2], cues[order[p[1] + 1]])]
           Body(h) == [n \in 0..Len(cues) |->
                         IF n = 0 THEN [idx |-> 1, lines |-> <<>>]
                         ELSE Composed(h[n - 1], cues[order[n]])]
<1> HIDE DEF order
<1>1. N \in Nat /\ \A k \in 0..(N - 1) : cues[order[k + 1]] \in Cue
  <2>1. N \in Nat
    OBVIOUS
  <2>2. ASSUME NEW k \in 0..(N - 1) PROVE cues[order[k + 1]] \in Cue
    <3>1. k + 1 \in 1..Len(cues)
      BY <2>1
    <3>2. order[k + 1] \in DOMAIN cues
      BY <3>1, OrderIs DEF order
    <3> QED BY <3>2
  <2> QED BY <2>1, <2>2
<1>2. d \in P
  <2>1. <<>> \in Seq(Line)
    OBVIOUS
  <2> QED BY <2>1 DEF Document
<1> HIDE DEF d
<1>3. step \in [(0..(N - 1)) \X P -> P]
  <2>1. \A k \in 0..(N - 1), r \in P : Composed(r, cues[order[k + 1]]) \in P
    BY <1>1, ComposedType
  <2> HIDE DEF P, N
  <2> QED BY <2>1
<1>4. \A k \in 0..(N - 1), r \in P : step[<<k, r>>] = Composed(r, cues[order[k + 1]])
  <2> HIDE DEF P, N
  <2> QED OBVIOUS
<1>5. PICK g \in [0..N -> P] : Loops(g, N, d, step)
  <2> HIDE DEF P, N, step
  <2> QED BY <1>1, <1>2, <1>3, LoopExists
<1> HIDE DEF step
<1>6. ASSUME NEW i \in 0..N
      PROVE  g[i] = IF i = 0 THEN d ELSE Composed(g[i - 1], cues[order[i]])
  <2>1. g[i] = IF i = 0 THEN d ELSE step[<<i - 1, g[i - 1]>>]
    BY <1>5 DEF Loops
  <2>2. CASE i = 0
    BY <2>1, <2>2
  <2>3. CASE i # 0
    <3>1. i - 1 \in 0..(N - 1) /\ i - 1 \in 0..N /\ (i - 1) + 1 = i
      BY <1>1, <2>3
    <3>2. g[i - 1] \in P
      BY <3>1
    <3> HIDE DEF P, N
    <3> QED BY <1>4, <2>1, <2>3, <3>1, <3>2
  <2> QED BY <2>2, <2>3
<1>7. g = Body(g)
  <2>1. g = [i \in 0..N |-> g[i]]
    OBVIOUS
  <2> QED BY <1>6, <2>1 DEF d
<1> DEFINE a == CHOOSE h : h = Body(h)
<1>8. a = Body(a)
  <2> HIDE DEF Body
  <2> QED BY <1>7
<1>9. compose(cues) = a[Len(cues)].lines
  BY DEF compose, order
<1> HIDE DEF a
<1>10. a[0] = d
  BY <1>1, <1>8 DEF d
<1>11. ASSUME NEW k \in 0..(N - 1) PROVE a[k + 1] = Composed(a[k], cues[order[k + 1]])
  <2>1. k + 1 \in 0..N /\ k + 1 # 0 /\ (k + 1) - 1 = k
    BY <1>1
  <2> QED BY <1>8, <2>1
<1>12. \A k \in 0..N : a[k] \in P
  <2> DEFINE S == {i \in Nat : i <= N => a[i] \in P}
  <2>1. 0 \in S
    BY <1>2, <1>10
  <2>2. ASSUME NEW k \in Nat, k \in S PROVE k + 1 \in S
    <3>1. SUFFICES ASSUME k + 1 <= N PROVE a[k + 1] \in P
      OBVIOUS
    <3>2. k \in 0..(N - 1) /\ a[k] \in P /\ cues[order[k + 1]] \in Cue
      BY <1>1, <2>2, <3>1
    <3> HIDE DEF N
    <3> QED BY <1>11, <3>2, ComposedType
  <2> HIDE DEF S
  <2>3. \A k \in Nat : k \in S
    BY <2>1, <2>2, Induction
  <2> QED BY <1>1, <2>3 DEF S
<1> QED BY <1>9, <1>10, <1>11, <1>12 DEF Composes, order, d

\* The cues that are shown; those of them on the first n places; those before a.
ShownCues(cues) == {a \in DOMAIN cues : IsShown(cues[a])}
OnPlaces(cues, n) == {a \in ShownCues(cues) : SortedPlace(cues, a) <= n}
ShownBefore(cues, a) == {b \in ShownCues(cues) : GoesBefore(cues, b, a)}

Number(cues, a) == Cardinality(ShownBefore(cues, a)) + 1

LEMMA OnPlacesIs ==
  ASSUME NEW cues \in Seq(Cue), NEW n \in Nat, n < Len(cues),
         NEW a, a = Order(cues)[n + 1]
  PROVE  /\ a \in DOMAIN cues
         /\ ShownBefore(cues, a) = OnPlaces(cues, n) /\ a \notin OnPlaces(cues, n)
         /\ OnPlaces(cues, n + 1) =
              IF IsShown(cues[a]) THEN OnPlaces(cues, n) \cup {a} ELSE OnPlaces(cues, n)
<1>1. a \in DOMAIN cues /\ SortedPlace(cues, a) = n + 1
  <2>1. n + 1 \in 1..Len(cues)
    OBVIOUS
  <2> QED BY <2>1, OrderIs
<1>2. \A b \in DOMAIN cues : SortedPlace(cues, b) \in Nat
  BY EarlierIs
<1>3. \A b \in DOMAIN cues : GoesBefore(cues, b, a) <=> SortedPlace(cues, b) < n + 1
  BY <1>1, PlacesCompare
<1>4. \A b \in DOMAIN cues : SortedPlace(cues, b) = n + 1 => b = a
  BY <1>1, PlacesCompare
<1> DEFINE P(b) == SortedPlace(cues, b)
<1>5. \A b \in DOMAIN cues : /\ P(b) < n + 1 <=> P(b) <= n
                             /\ P(b) <= n + 1 <=> P(b) <= n \/ P(b) = n + 1
  <2>1. \A p \in Nat : (p < n + 1 <=> p <= n) /\ (p <= n + 1 <=> p <= n \/ p = n + 1)
    OBVIOUS
  <2> HIDE DEF P
  <2> QED BY <1>2, <2>1 DEF P
<1>6. ShownBefore(cues, a) = OnPlaces(cues, n)
  BY <1>3, <1>5 DEF ShownBefore, OnPlaces, ShownCues
<1>7. a \notin OnPlaces(cues, n)
  <2>1. ~(n + 1 <= n)
    OBVIOUS
  <2> QED BY <1>1, <2>1 DEF OnPlaces
<1>8. OnPlaces(cues, n + 1) =
        IF IsShown(cues[a]) THEN OnPlaces(cues, n) \cup {a} ELSE OnPlaces(cues, n)
  BY <1>1, <1>4, <1>5 DEF OnPlaces, ShownCues
<1> QED BY <1>1, <1>6, <1>7, <1>8

LEMMA ShownAreFinite ==
  ASSUME NEW cues \in Seq(Cue), NEW n \in Nat
  PROVE  /\ IsFiniteSet(OnPlaces(cues, n)) /\ Cardinality(OnPlaces(cues, n)) \in Nat
         /\ \A a \in OnPlaces(cues, n) : Number(cues, a) \in 1..Cardinality(OnPlaces(cues, n))
<1> DEFINE O == OnPlaces(cues, n)
           c == Cardinality(O)
<1>1. IsFiniteSet(O) /\ c \in Nat
  <2>1. Len(cues) \in Nat /\ DOMAIN cues = 1..Len(cues)
    OBVIOUS
  <2>2. IsFiniteSet(1..Len(cues))
    BY <2>1, FS_Interval
  <2>3. O \in SUBSET (1..Len(cues))
    BY <2>1 DEF OnPlaces, ShownCues
  <2> HIDE DEF O
  <2>4. IsFiniteSet(O)
    BY <2>2, <2>3, FS_Subset
  <2> QED BY <2>4, FS_CardinalityType
<1>2. ASSUME NEW a \in O PROVE Number(cues, a) \in 1..c
  <2> DEFINE B == ShownBefore(cues, a)
  <2>1. a \in DOMAIN cues /\ \A b \in DOMAIN cues : SortedPlace(cues, b) \in Nat
    BY EarlierIs DEF OnPlaces, ShownCues
  <2>2. B \subseteq O /\ a \notin B
    <3>1. \A b \in B : b \in ShownCues(cues) /\ b \in DOMAIN cues /\ GoesBefore(cues, b, a)
      BY DEF ShownBefore, ShownCues
    <3>2. \A b \in B : SortedPlace(cues, b) < SortedPlace(cues, a)
      BY <2>1, <3>1, PlacesCompare
    <3>3. SortedPlace(cues, a) <= n
      BY DEF OnPlaces
    <3>4. \A b \in B : SortedPlace(cues, b) <= n
      BY <2>1, <3>1, <3>2, <3>3
    <3>5. a \notin B
      BY <2>1, <3>2
    <3> QED BY <3>1, <3>4, <3>5 DEF OnPlaces
  <2>3. Number(cues, a) = Cardinality(B) + 1
    BY DEF Number
  <2> HIDE DEF O, B
  <2>4. IsFiniteSet(B) /\ Cardinality(B) <= c /\ (Cardinality(O) = Cardinality(B) => O = B)
    BY <1>1, <2>2, FS_Subset
  <2>5. Cardinality(B) \in Nat
    BY <2>4, FS_CardinalityType
  <2>6. Cardinality(B) # c
    BY <2>2, <2>4
  <2> QED BY <1>1, <2>3, <2>4, <2>5, <2>6
<1> QED BY <1>1, <1>2

\* What a reader finds in the document after n places.
Written(cues, n, r) ==
  /\ r \in Document /\ Split(r.lines, EmptyLine).open = <<>>
  /\ Len(Blocks(r.lines)) = Cardinality(OnPlaces(cues, n))
  /\ r.idx = Cardinality(OnPlaces(cues, n)) + 1
  /\ \A a \in OnPlaces(cues, n) :
       IsBlock(Blocks(r.lines)[Number(cues, a)], Number(cues, a),
               cues[a].start, cues[a].end, Shown(cues[a].text))

LEMMA OneMoreBlock ==
  ASSUME NEW S, NEW s \in Seq(S), NEW b \in S, NEW t, t = Append(s, b)
  PROVE  Len(t) = Len(s) + 1 /\ t[Len(s) + 1] = b /\ \A j \in 1..Len(s) : t[j] = s[j]
OBVIOUS

LEMMA WrittenStep ==
  ASSUME NEW cues \in Seq(Cue), NEW n \in Nat, n < Len(cues), NEW r, Written(cues, n, r)
  PROVE  Written(cues, n + 1, Composed(r, cues[Order(cues)[n + 1]]))
<1> DEFINE a == Order(cues)[n + 1]
           cue == cues[a]
           O == OnPlaces(cues, n)
           P == OnPlaces(cues, n + 1)
           c == Cardinality(O)
           new == Composed(r, cue)
<1>1. /\ a \in DOMAIN cues /\ ShownBefore(cues, a) = O /\ a \notin O
      /\ P = IF IsShown(cue) THEN O \cup {a} ELSE O
  BY OnPlacesIs
<1> HIDE DEF a
<1>2. cue \in Cue
  BY <1>1
<1>3. r \in Document /\ r.idx \in Nat /\ r.lines \in Seq(Line)
  BY DEF Written, Document
<1>4. new \in Document
  BY <1>2, <1>3, ComposedType
<1>5. CASE ~IsShown(cue)
  <2>1. new = r /\ P = O
    BY <1>1, <1>5 DEF Composed
  <2> HIDE DEF new, cue
  <2> QED BY <2>1 DEF Written, new, cue, a
<1>6. CASE IsShown(cue)
  <2> DEFINE k == r.idx
             lines == r.lines
             blocks == Blocks(lines)
             after == Blocks(new.lines)
  <2>1. IsFiniteSet(O) /\ c \in Nat /\ \A d \in O : Number(cues, d) \in 1..c
    BY ShownAreFinite
  <2>2. Len(blocks) = c /\ k = c + 1 /\ Split(lines, EmptyLine).open = <<>>
    BY DEF Written
  <2>3. \A d \in O : IsBlock(blocks[Number(cues, d)], Number(cues, d),
                             cues[d].start, cues[d].end, Shown(cues[d].text))
    BY DEF Written
  <2>4. Number(cues, a) = k
    BY <1>1, <2>2 DEF Number
  <2>5. Cardinality(P) = c + 1 /\ P = O \cup {a}
    <3> HIDE DEF O, P
    <3> QED BY <1>1, <1>6, <2>1, FS_AddElement
  <2>6. new.idx = k + 1 /\ new.lines = lines \o Block(k, cue)
    <3>1. new = [idx |-> r.idx + 1, lines |-> r.lines \o Block(r.idx, cue)]
      BY <1>6 DEF Composed
    <3> HIDE DEF new
    <3> QED BY <3>1
  <2>7. /\ cue.start \in Int /\ cue.end \in Int /\ cue.text \in Seq(STRING)
        /\ \E x \in DOMAIN cue.text : cue.text[x] # NewLine
    BY <1>2, <1>6, ShownSpeaks
  <2>8. blocks \in Seq(Seq(Line))
    <3>1. Split(lines, EmptyLine) \in Parts(Line)
      BY <1>3, SplitType
    <3> QED BY <3>1 DEF Blocks, Parts
  <2>9. /\ Split(new.lines, EmptyLine).open = <<>>
        /\ \E b : /\ IsBlock(b, k, cue.start, cue.end, Shown(cue.text))
                  /\ b \in Seq(Line) /\ after = Append(blocks, b)
    <3>1. /\ Split(lines \o Block(k, cue), EmptyLine).open = <<>>
          /\ \E b : /\ IsBlock(b, k, cue.start, cue.end, Shown(cue.text))
                    /\ b \in Seq(Line)
                    /\ Blocks(lines \o Block(k, cue)) = Append(Blocks(lines), b)
      <4>1. k \in Nat /\ lines \in Seq(Line) /\ Split(lines, EmptyLine).open = <<>>
        BY <1>3, <2>2
      <4> HIDE DEF k, lines, cue
      <4> QED BY <2>7, <4>1, BlockIsRead
    <3> QED BY <2>6, <3>1
  <2>10. PICK b : /\ IsBlock(b, k, cue.start, cue.end, Shown(cue.text))
                  /\ b \in Seq(Line) /\ after = Append(blocks, b)
    BY <2>9
  <2> HIDE DEF blocks, after, k, lines, c, O, P, new
  <2>11. Len(after) = c + 1 /\ after[c + 1] = b /\ \A j \in 1..c : after[j] = blocks[j]
    <3> DEFINE L == Seq(Line)
    <3>1. blocks \in Seq(L) /\ b \in L
      BY <2>8, <2>10
    <3> HIDE DEF L
    <3>2. Len(after) = Len(blocks) + 1 /\ after[Len(blocks) + 1] = b
          /\ \A j \in 1..Len(blocks) : after[j] = blocks[j]
      BY <2>10, <3>1, OneMoreBlock
    <3> QED BY <2>2, <3>2
  <2>12. ASSUME NEW d \in P
         PROVE  IsBlock(after[Number(cues, d)], Number(cues, d),
                        cues[d].start, cues[d].end, Shown(cues[d].text))
    <3>1. CASE d \in O
      <4>1. after[Number(cues, d)] = blocks[Number(cues, d)]
        BY <2>1, <2>11, <3>1
      <4> QED BY <2>3, <3>1, <4>1
    <3>2. CASE d = a
      BY <2>2, <2>4, <2>10, <2>11, <3>2
    <3> QED BY <2>5, <3>1, <3>2
  <2>13. new.idx = Cardinality(P) + 1 /\ Len(after) = Cardinality(P)
    BY <2>2, <2>5, <2>6, <2>11
  <2> QED BY <1>4, <2>9, <2>12, <2>13 DEF Written, after, P, new, a
<1> QED BY <1>5, <1>6

LEMMA DocumentIs ==
  ASSUME NEW cues \in Seq(Cue)
  PROVE  /\ Len(Blocks(compose(cues))) = Cardinality(ShownCues(cues))
         /\ \A a \in ShownCues(cues) :
              IsBlock(Blocks(compose(cues))[Number(cues, a)], Number(cues, a),
                      cues[a].start, cues[a].end, Shown(cues[a].text))
<1> DEFINE N == Len(cues)
<1>1. PICK f : /\ compose(cues) = f[N].lines /\ Composes(f, cues, N)
               /\ \A k \in 0..N : f[k] \in Document
  BY ComposeRounds
<1>2. N \in Nat
  OBVIOUS
<1> DEFINE S == {n \in Nat : n <= N => Written(cues, n, f[n])}
<1>3. 0 \in S
  <2>1. f[0] = [idx |-> 1, lines |-> <<>>] /\ f[0] \in Document
    BY <1>1, <1>2 DEF Composes
  <2>2. f[0].idx = 1 /\ f[0].lines = <<>>
    BY <2>1
  <2>3. Split(f[0].lines, EmptyLine) = NothingRead
    BY <2>2, SplitNone
  <2>4. Split(f[0].lines, EmptyLine).open = <<>> /\ Blocks(f[0].lines) = <<>>
    BY <2>3 DEF Blocks, NothingRead
  <2>5. OnPlaces(cues, 0) = {}
    <3>1. \A a \in DOMAIN cues : SortedPlace(cues, a) \in 1..Len(cues)
      BY EarlierIs
    <3>2. \A p \in 1..Len(cues) : ~(p <= 0)
      OBVIOUS
    <3> QED BY <3>1, <3>2 DEF OnPlaces, ShownCues
  <2>6. Cardinality(OnPlaces(cues, 0)) = 0
    BY <2>5, FS_EmptySet
  <2>7. Len(Blocks(f[0].lines)) = 0
    BY <2>4
  <2> QED BY <2>1, <2>2, <2>4, <2>5, <2>6, <2>7 DEF Written
<1>4. ASSUME NEW n \in Nat, n \in S PROVE n + 1 \in S
  <2>1. SUFFICES ASSUME n + 1 <= N PROVE Written(cues, n + 1, f[n + 1])
    OBVIOUS
  <2>2. n \in 0..(N - 1) /\ n < Len(cues) /\ n <= N
    BY <1>2, <2>1
  <2>3. f[n + 1] = Composed(f[n], cues[Order(cues)[n + 1]])
    BY <1>1, <2>2 DEF Composes
  <2>4. Written(cues, n, f[n])
    BY <1>4, <2>2
  <2> QED BY <2>2, <2>3, <2>4, WrittenStep
<1> HIDE DEF S
<1>5. N \in S
  BY <1>2, <1>3, <1>4, Induction
<1>6. Written(cues, N, f[N])
  BY <1>2, <1>5 DEF S
<1>7. OnPlaces(cues, N) = ShownCues(cues)
  <2>1. \A a \in DOMAIN cues : SortedPlace(cues, a) \in 1..N
    BY EarlierIs
  <2>2. \A p \in 1..N : p <= N
    OBVIOUS
  <2> QED BY <2>1, <2>2 DEF OnPlaces, ShownCues
<1> QED BY <1>1, <1>6, <1>7 DEF Written

\* What was fed and what the document is about.
LEMMA WantedIs ==
  ASSUME NEW bs \in Seq(Boundary), NEW cues \in Seq(Cue), Len(cues) = Len(bs),
         \A i \in 1..Len(bs) : cues[i] = CueOf(bs[i])
  PROVE  /\ Wanted(bs) = ShownCues(cues)
         /\ \A i \in DOMAIN cues : /\ cues[i].start = bs[i].offset \div TicksPerMs
                                   /\ cues[i].end = (bs[i].offset + bs[i].duration) \div TicksPerMs
                                   /\ cues[i].text = bs[i].text
         /\ \A i, j \in DOMAIN cues : Precedes(bs, j, i) <=> GoesBefore(cues, j, i)
<1>1. DOMAIN cues = DOMAIN bs /\ \A i \in DOMAIN bs : cues[i] = CueOf(bs[i])
  OBVIOUS
<1>2. \A i \in DOMAIN bs : /\ cues[i].start = bs[i].offset \div TicksPerMs
                           /\ cues[i].end = (bs[i].offset + bs[i].duration) \div TicksPerMs
                           /\ cues[i].text = bs[i].text
  BY <1>1 DEF CueOf
<1>3. Wanted(bs) = ShownCues(cues)
  BY <1>1, <1>2 DEF Wanted, ShownCues, IsShown, is_blank
<1>4. ASSUME NEW i \in DOMAIN bs, NEW j \in DOMAIN bs
      PROVE  Precedes(bs, j, i) <=> GoesBefore(cues, j, i)
  <2> DEFINE Time(x) == <<bs[x].offset \div TicksPerMs,
                          (bs[x].offset + bs[x].duration) \div TicksPerMs, x>>
             p == Time(j)
             q == Time(i)
  <2>1. Precedes(bs, j, i) <=>
          \E k \in 1..3 : p[k] < q[k] /\ \A l \in 1..(k - 1) : p[l] = q[l]
    BY DEF Precedes
  <2>2. /\ p[1] = cues[j].start /\ p[2] = cues[j].end /\ p[3] = j
        /\ q[1] = cues[i].start /\ q[2] = cues[i].end /\ q[3] = i
    BY <1>2
  <2> HIDE DEF p, q
  <2>3. /\ 1..3 = {1, 2, 3} /\ 1..(1 - 1) = {} /\ 1..(2 - 1) = {1} /\ 1..(3 - 1) = {1, 2}
    OBVIOUS
  <2>4. (\E k \in 1..3 : p[k] < q[k] /\ \A l \in 1..(k - 1) : p[l] = q[l]) <=>
          \/ p[1] < q[1]
          \/ p[2] < q[2] /\ p[1] = q[1]
          \/ p[3] < q[3] /\ p[1] = q[1] /\ p[2] = q[2]
    BY <2>3
  <2> QED BY <2>1, <2>2, <2>4 DEF GoesBefore
<1> QED BY <1>1, <1>2, <1>3, <1>4

\* The reader of a document finds a block for every cue that lasts a millisecond
\* and says something, numbered, in order, with its times and all its words
\* (SubtitleBuilder.cpp:12-47, SrtComposer.cpp:15-82).
THEOREM SubtitlesAreReadBack == Spec => []SubtitlesReadBack
<1>1. Answered => SubtitlesReadBack
  <2> DEFINE blocks == Blocks(outcome.lines)
             W == Wanted(input)
             k(i) == Cardinality({j \in W : Precedes(input, j, i)}) + 1
             words(i) == Shown(input[i].text)
  <2> SUFFICES ASSUME Answered, of = "subtitles", done, outcome.ok
               PROVE  /\ Len(blocks) = Cardinality(W)
                      /\ \A i \in W :
                           /\ Len(blocks[k(i)]) = 2 + Len(words(i))
                           /\ blocks[k(i)][1] = IndexLine(k(i))
                           /\ Millis(blocks[k(i)][2].from) = input[i].offset \div TicksPerMs
                           /\ Millis(blocks[k(i)][2].to)
                                = (input[i].offset + input[i].duration) \div TicksPerMs
                           /\ \A l \in DOMAIN words(i) :
                                blocks[k(i)][l + 2] = TextLine(words(i)[l])
    BY DEF SubtitlesReadBack
  <2>1. input \in Seq(Boundary) /\ outcome = to_srt(input)
    BY BoundariesAssumption DEF Answered, Boundary
  <2> DEFINE cues == FeedAll(input).cues
  <2>2. FeedAll(input).ok /\ outcome.lines = compose(cues)
    BY <2>1 DEF to_srt
  <2>3. cues \in Seq(Cue) /\ Len(cues) = Len(input)
        /\ \A i \in 1..Len(input) : cues[i] = CueOf(input[i])
    BY <2>1, <2>2, FedIs
  <2> HIDE DEF cues
  <2>4. /\ W = ShownCues(cues)
        /\ \A i \in DOMAIN cues :
             /\ cues[i].start = input[i].offset \div TicksPerMs
             /\ cues[i].end = (input[i].offset + input[i].duration) \div TicksPerMs
             /\ cues[i].text = input[i].text
        /\ \A i, j \in DOMAIN cues : Precedes(input, j, i) <=> GoesBefore(cues, j, i)
    BY <2>1, <2>3, WantedIs
  <2>5. \A i \in W : i \in DOMAIN cues
    BY <2>4 DEF ShownCues
  <2>6. \A i \in W : k(i) = Number(cues, i)
    <3>1. ASSUME NEW i \in W
          PROVE  {j \in W : Precedes(input, j, i)} = ShownBefore(cues, i)
      BY <2>4, <2>5 DEF ShownBefore
    <3> QED BY <3>1 DEF Number
  <2>7. /\ Len(blocks) = Cardinality(W)
        /\ \A i \in W : IsBlock(blocks[Number(cues, i)], Number(cues, i),
                                cues[i].start, cues[i].end, Shown(cues[i].text))
    BY <2>2, <2>3, <2>4, DocumentIs
  <2> HIDE DEF W, blocks
  <2>8. ASSUME NEW i \in W
        PROVE  IsBlock(blocks[k(i)], k(i), input[i].offset \div TicksPerMs,
                       (input[i].offset + input[i].duration) \div TicksPerMs, words(i))
    <3>1. /\ cues[i].start = input[i].offset \div TicksPerMs
          /\ cues[i].end = (input[i].offset + input[i].duration) \div TicksPerMs
          /\ cues[i].text = input[i].text
      BY <2>4, <2>5
    <3>2. k(i) = Number(cues, i)
      BY <2>6
    <3> HIDE DEF k
    <3> QED BY <2>7, <3>1, <3>2
  <2> HIDE DEF k, words
  <2> QED BY <2>7, <2>8 DEF IsBlock
<1> QED BY <1>1, AnsweredAlways, PTL
=============================================================================
