-------------------------- MODULE ConversionProofs --------------------------
(***************************************************************************)
(* Theorems about the pure functions: the days of mjd.c, without the bound *)
(* of 16 bits; the comparison functions and the sorting of tf_util.c, for  *)
(* an int of any width and directories of any length; its file names, for  *)
(* paths of any length; and the packets of tf_io.c and crc16.c, for names, *)
(* data and pages of every length that a packet has room for.              *)
(***************************************************************************)
EXTENDS MCConversions, FoldProofs, SequenceTheorems, FiniteSetTheorems, TLAPS

-----------------------------------------------------------------------------
(* Days and dates.                                                         *)

\* Dates that the calendar has, from 1 March 1900.
Dates ==
    {date \in [year: Nat, month: 1..12, day: 1..31] :
        /\ date.day <= DaysIn(date.year, date.month)
        /\ date.year > 0 \/ date.month > 2}

\* The year and the month of the formulas, which begin in March.
FormulaYear(mjd) == (100 * mjd - 1507820) \div 36525
FormulaMonth(mjd) == (10000 * (mjd - YearDays(FormulaYear(mjd))) - 149561000) \div 306001

\* The month that the formulas compute is one of the twelve.
LEMMA FormulaRange ==
    ASSUME NEW mjd \in Nat, mjd >= FirstDay
    PROVE  FormulaYear(mjd) \in Nat /\ FormulaMonth(mjd) \in 4..15
  BY SMT DEF FirstDay, FormulaYear, FormulaMonth, YearDays

\* What time_to_tfdt() makes of what tfdt_to_time() made of a day is the day.
THEOREM DayComesBack ==
    ASSUME NEW mjd \in Nat, mjd >= FirstDay
    PROVE  FromDate(ToDate(mjd)) = mjd
  <1> DEFINE y == FormulaYear(mjd)
             m == FormulaMonth(mjd)
             d == mjd - 14956 - YearDays(y) - MonthDays(m)
  <1>1. y \in Nat /\ m \in 4..15
    BY FormulaRange
  <1>2. ToDate(mjd) = [year |-> y + JanFeb(m), month |-> m - 1 - 12 * JanFeb(m), day |-> d]
    BY DEF ToDate, FormulaYear, FormulaMonth
  <1>3. YearDays(y) \in Int /\ MonthDays(m) \in Int
    BY <1>1 DEF YearDays, MonthDays
  <1> QED
    BY <1>1, <1>2, <1>3 DEF FromDate, JanFeb

\* Every date has a day, and the date of that day is the date.
LEMMA DateComesBack ==
    ASSUME NEW date \in Dates
    PROVE  FromDate(date) \in Nat /\ FromDate(date) >= FirstDay /\ ToDate(FromDate(date)) = date
  <1> DEFINE k == IF date.month \in {1, 2} THEN 1 ELSE 0
             y == date.year - k
             m == date.month + 1 + 12 * k
             mjd == FromDate(date)
  <1>1. /\ date.year \in Nat /\ date.month \in 1..12 /\ date.day \in 1..31
        /\ date.day <= DaysIn(date.year, date.month)
        /\ date.year > 0 \/ date.month > 2
        /\ date = [year |-> date.year, month |-> date.month, day |-> date.day]
    BY DEF Dates
  <1>2. y \in Nat /\ m \in 4..15 /\ k = JanFeb(m)
    BY <1>1 DEF JanFeb
  <1>3. mjd = 14956 + date.day + YearDays(y) + MonthDays(m)
    BY DEF FromDate
  <1>4. /\ m \in {4, 6, 8, 9, 11, 13, 14} => date.day <= 31
        /\ m \in {5, 7, 10, 12} => date.day <= 30
        /\ m = 15 => date.day <= IF Leap(y + 1) THEN 29 ELSE 28
    BY <1>1 DEF DaysIn
  <1>5. mjd \in Nat /\ mjd >= FirstDay
    BY <1>1, <1>2, <1>3 DEF YearDays, MonthDays, FirstDay
  <1>6. FormulaYear(mjd) = y
    <2> DEFINE n == 14956 + date.day + MonthDays(m)
    <2>1. n \in 15079..15444 /\ (n = 15444 => Leap(y + 1))
      <3>1. CASE m = 15
        BY <1>1, <1>2, <1>4, <3>1 DEF MonthDays
      <3>2. CASE m # 15
        BY <1>1, <1>2, <1>4, <3>2 DEF MonthDays
      <3> QED
        BY <3>1, <3>2
    <2>2. mjd = n + YearDays(y)
      BY <1>1, <1>2, <1>3 DEF MonthDays, YearDays
    <2> HIDE DEF y, m, mjd, n
    <2>3. PICK q \in Nat, r \in 0..3 : y = 4 * q + r /\ (Leap(y + 1) => r = 3)
      <3>1. y \div 4 \in Nat /\ y % 4 \in 0..3 /\ y = 4 * (y \div 4) + (y % 4)
        BY <1>2
      <3> QED
        BY <1>2, <3>1 DEF Leap
    <2>4. YearDays(y) = 1461 * q + 365 * r
      BY <2>3 DEF YearDays
    <2>5. 100 * mjd - 1507820 >= 36525 * y /\ 100 * mjd - 1507820 < 36525 * y + 36525
      BY <1>2, <2>1, <2>2, <2>3, <2>4
    <2> QED
      BY <1>2, <1>5, <2>5 DEF FormulaYear
  <1>7. FormulaMonth(mjd) = m
    <2>1. mjd - YearDays(y) = 14956 + date.day + MonthDays(m)
      BY <1>1, <1>2, <1>3 DEF MonthDays, YearDays
    <2>2. date.day \in 1..31 /\ (m = 15 => date.day <= 29)
            /\ (m \in {5, 7, 10, 12} => date.day <= 30)
      BY <1>1, <1>4
    <2> HIDE DEF y, m, mjd
    <2> QED
      BY <1>2, <1>6, <2>1, <2>2 DEF FormulaMonth, MonthDays
  <1>8. ToDate(mjd) = [year |-> y + JanFeb(m), month |-> m - 1 - 12 * JanFeb(m),
                       day |-> mjd - 14956 - YearDays(y) - MonthDays(m)]
    BY <1>6, <1>7 DEF ToDate, FormulaYear, FormulaMonth
  <1>9. mjd - 14956 - YearDays(y) - MonthDays(m) = date.day
    BY <1>1, <1>2, <1>3 DEF YearDays, MonthDays
  <1> QED
    BY <1>1, <1>2, <1>5, <1>8, <1>9

\* Every day is a date of the calendar.
LEMMA DayIsDate ==
    ASSUME NEW mjd \in Nat, mjd >= FirstDay
    PROVE  ToDate(mjd) \in Dates
  <1> DEFINE y == FormulaYear(mjd)
             m == FormulaMonth(mjd)
             d == mjd - 14956 - YearDays(y) - MonthDays(m)
  <1>1. y \in Nat /\ m \in 4..15
    BY FormulaRange
  <1>2. ToDate(mjd) = [year |-> y + JanFeb(m), month |-> m - 1 - 12 * JanFeb(m), day |-> d]
    BY DEF ToDate, FormulaYear, FormulaMonth
  <1>3. PICK q \in Nat, r \in 0..3 : y = 4 * q + r /\ (r = 3 => Leap(y + 1))
    <2>1. y \div 4 \in Nat /\ y % 4 \in 0..3 /\ y = 4 * (y \div 4) + (y % 4)
      BY <1>1
    <2> QED
      BY <1>1, <2>1 DEF Leap
  <1>4. YearDays(y) = 1461 * q + 365 * r
    BY <1>3 DEF YearDays
  <1>5. 100 * mjd - 1507820 >= 36525 * y /\ 100 * mjd - 1507820 < 36525 * y + 36525
    BY <1>1 DEF FormulaYear
  <1>6. /\ 10000 * (mjd - YearDays(y)) - 149561000 >= 306001 * m
        /\ 10000 * (mjd - YearDays(y)) - 149561000 < 306001 * m + 306001
    BY <1>1, <1>4 DEF FormulaMonth
  <1> HIDE DEF y, m
  <1>7. d \in 1..31 /\ (m \in {5, 7, 10, 12} => d <= 30)
    BY <1>1, <1>3, <1>4, <1>6 DEF MonthDays
  <1>8. m = 15 => d <= IF Leap(y + 1) THEN 29 ELSE 28
    BY <1>1, <1>3, <1>4, <1>5 DEF MonthDays
  <1>9. DaysIn(y + JanFeb(m), m - 1 - 12 * JanFeb(m)) >= d
    BY <1>1, <1>7, <1>8 DEF DaysIn, JanFeb
  <1> QED
    BY <1>1, <1>2, <1>7, <1>9 DEF Dates, JanFeb

\* The quarter days of the formulas add up to leap years.
LEMMA YearLength ==
    ASSUME NEW y \in Nat, y > 0
    PROVE  YearDays(y) = YearDays(y - 1) + IF Leap(y) THEN 366 ELSE 365
  <1>1. PICK q \in Nat, r \in 0..3 : y = 4 * q + r /\ (r = 0 <=> Leap(y))
    <2>1. y \div 4 \in Nat /\ y % 4 \in 0..3 /\ y = 4 * (y \div 4) + (y % 4)
      OBVIOUS
    <2> QED
      BY <2>1 DEF Leap
  <1>2. YearDays(y) = 1461 * q + 365 * r
    BY <1>1 DEF YearDays
  <1>3. CASE r = 0
    <2>1. YearDays(y - 1) = 1461 * q - 366
      BY <1>1, <1>3 DEF YearDays
    <2> QED
      BY <1>1, <1>2, <1>3, <2>1
  <1>4. CASE r # 0
    <2>1. YearDays(y - 1) = 1461 * q + 365 * (r - 1)
      BY <1>1, <1>4 DEF YearDays
    <2> QED
      BY <1>1, <1>2, <1>4, <2>1
  <1> QED
    BY <1>3, <1>4

\* The date after a date is one of the calendar, and its day is the next day.
LEMMA NextDate ==
    ASSUME NEW date \in Dates
    PROVE  NextDay(date) \in Dates /\ FromDate(NextDay(date)) = FromDate(date) + 1
  <1>1. PICK y \in Nat, m \in 1..12, d \in 1..31 :
            /\ date = [year |-> y, month |-> m, day |-> d]
            /\ d <= DaysIn(y, m)
            /\ y > 0 \/ m > 2
    BY DEF Dates
  <1>2. YearDays(y) \in Int /\ YearDays(y - 1) \in Int /\ DaysIn(y, m) \in 28..31
    BY DEF YearDays, DaysIn
  <1>3. FromDate(date) = IF m \in {1, 2} THEN 14956 + d + YearDays(y - 1) + MonthDays(m + 13)
                         ELSE 14956 + d + YearDays(y) + MonthDays(m + 1)
    BY <1>1, <1>2 DEF FromDate, MonthDays
  <1>4. CASE d < DaysIn(y, m)
    <2>1. NextDay(date) = [year |-> y, month |-> m, day |-> d + 1]
      BY <1>1, <1>4 DEF NextDay
    <2>2. NextDay(date) \in Dates
      BY <1>1, <1>2, <1>4, <2>1 DEF Dates
    <2>3. FromDate(NextDay(date)) =
            IF m \in {1, 2} THEN 14956 + d + 1 + YearDays(y - 1) + MonthDays(m + 13)
            ELSE 14956 + d + 1 + YearDays(y) + MonthDays(m + 1)
      BY <1>2, <2>1 DEF FromDate, MonthDays
    <2> QED
      BY <1>2, <1>3, <2>2, <2>3 DEF MonthDays
  <1>5. CASE d = DaysIn(y, m) /\ m < 12
    <2>1. NextDay(date) = [year |-> y, month |-> m + 1, day |-> 1]
      <3>1. date.day = d /\ date.month = m /\ date.year = y
        BY <1>1
      <3>2. ~(date.day < DaysIn(date.year, date.month)) /\ date.month < 12
        BY <3>1, <1>2, <1>5
      <3> QED
        BY <1>1, <3>1, <3>2 DEF NextDay
    <2>2. NextDay(date) \in Dates
      <3>1. DaysIn(y, m + 1) >= 1 /\ (y > 0 \/ m + 1 > 2)
        BY <1>1, <1>5 DEF DaysIn
      <3> QED
        BY <1>1, <1>5, <2>1, <3>1 DEF Dates
    <2>3. FromDate(NextDay(date)) = IF m = 1 THEN 14957 + YearDays(y - 1) + MonthDays(15)
                                    ELSE 14957 + YearDays(y) + MonthDays(m + 2)
      BY <1>2, <1>5, <2>1 DEF FromDate, MonthDays
    <2>4. CASE m = 2
      <3>1. YearDays(y) = YearDays(y - 1) + IF Leap(y) THEN 366 ELSE 365
        BY <1>1, <2>4, YearLength
      <3> QED
        BY <1>2, <1>3, <1>5, <2>2, <2>3, <2>4, <3>1 DEF MonthDays, DaysIn
    <2>5. CASE m # 2
      BY <1>2, <1>3, <1>5, <2>2, <2>3, <2>5 DEF MonthDays, DaysIn
    <2> QED
      BY <2>4, <2>5
  <1>6. CASE d = DaysIn(y, m) /\ m = 12
    <2>1. NextDay(date) = [year |-> y + 1, month |-> 1, day |-> 1]
      BY <1>1, <1>6 DEF NextDay
    <2>2. NextDay(date) \in Dates
      BY <2>1 DEF Dates, DaysIn
    <2>3. FromDate(NextDay(date)) = 14957 + YearDays(y) + MonthDays(14)
      BY <1>2, <2>1 DEF FromDate, MonthDays
    <2> QED
      BY <1>2, <1>3, <1>6, <2>2, <2>3 DEF MonthDays, DaysIn
  <1> QED
    BY <1>1, <1>4, <1>5, <1>6 DEF DaysIn

\* Day after day is date after date, for as long as one cares to count.
THEOREM DaysAreDates ==
    ASSUME NEW mjd \in Nat, mjd >= FirstDay
    PROVE  ToDate(mjd + 1) = NextDay(ToDate(mjd))
  <1>1. ToDate(mjd) \in Dates /\ FromDate(ToDate(mjd)) = mjd
    BY DayIsDate, DayComesBack
  <1>2. NextDay(ToDate(mjd)) \in Dates /\ FromDate(NextDay(ToDate(mjd))) = mjd + 1
    BY <1>1, NextDate
  <1> QED
    BY <1>2, DateComesBack

\* The calendar begins with the first day of the formulas, goes from day to day
\* and comes back to each: what the run checks to the end of the 16 bits.
THEOREM CalendarOfDays ==
    ASSUME NEW mjd \in Nat, mjd >= FirstDay
    PROVE  DayByDay(mjd)
  <1>1. \A d \in Nat : tfdt_to_time(d, "noon") = ToDate(d)
    BY DEF tfdt_to_time
  <1>2. mjd = FirstDay => ToDate(mjd) = [year |-> 0, month |-> 3, day |-> 1]
    BY DEF FirstDay, ToDate, YearDays, MonthDays, JanFeb
  <1> QED
    BY <1>1, <1>2, DayComesBack, DaysAreDates DEF DayByDay

-----------------------------------------------------------------------------
(* Sorting.                                                                *)

\* Entries as the comparison functions see them.
EntrySet == [type: {"d", "f"}, stamp: Int, size: Nat, name: Nat]

\* The stamps of two entries are no further apart than an int can say.
Close(e1, e2) == e1.stamp - e2.stamp \in -IntMax..IntMax

\* Every comparison function puts one entry before another, or as equal to it,
\* exactly when the order that was asked for lets it come first.
THEOREM ComparesByOrder ==
    ASSUME NEW e1 \in EntrySet, NEW e2 \in EntrySet, Close(e1, e2),
           NEW sort_type \in SortTypes
    PROVE  Compare(sort_type, e1, e2) <= 0 <=> Follows(sort_type, e1, e2)
  <1>1. e1.type \in {"d", "f"} /\ e2.type \in {"d", "f"}
    BY DEF EntrySet
  <1>2. /\ e1.stamp \in Int /\ e1.size \in Nat /\ e1.name \in Nat
        /\ e2.stamp \in Int /\ e2.size \in Nat /\ e2.name \in Nat
    BY DEF EntrySet
  <1>3. ToInt(e1.stamp - e2.stamp) = e1.stamp - e2.stamp /\ ToInt(e2.stamp - e1.stamp) = e2.stamp - e1.stamp
    BY <1>2, IntMaxAssumption DEF Close, ToInt
  <1>4. /\ e1.type = e2.type => ByType(e1, e2) = 0
        /\ e1.type = "d" /\ e2.type = "f" => ByType(e1, e2) = -2
        /\ e1.type = "f" /\ e2.type = "d" => ByType(e1, e2) = 2
    BY DEF ByType, Type
  <1>5. CASE sort_type = "name"
    BY <1>1, <1>2, <1>4, <1>5 DEF Compare, Follows, ByName, Sign
  <1>6. CASE sort_type = "-name"
    BY <1>1, <1>2, <1>4, <1>6 DEF Compare, Follows, ByReverseName, Sign
  <1>7. CASE sort_type = "size"
    BY <1>1, <1>2, <1>4, <1>7 DEF Compare, Follows, BySize, Sign
  <1>8. CASE sort_type = "-size"
    BY <1>1, <1>2, <1>4, <1>8 DEF Compare, Follows, ByReverseSize, Sign
  <1>9. CASE sort_type = "time"
    BY <1>1, <1>2, <1>3, <1>4, <1>9 DEF Compare, Follows, ByTime
  <1>10. CASE sort_type = "-time"
    BY <1>1, <1>2, <1>3, <1>4, <1>10 DEF Compare, Follows, ByReverseTime
  <1> QED
    BY <1>5, <1>6, <1>7, <1>8, <1>9, <1>10 DEF SortTypes

\* The comparison functions of qsort() are a total order of any entries whose
\* stamps are close: of two one may come first, and what may come before one
\* may come before all that this one may come before.
THEOREM ComparisonIsOrder ==
    ASSUME NEW e1 \in EntrySet, NEW e2 \in EntrySet, NEW e3 \in EntrySet,
           Close(e1, e2), Close(e2, e1), Close(e2, e3), Close(e1, e3),
           NEW sort_type \in SortTypes
    PROVE  /\ Compare(sort_type, e1, e2) <= 0 \/ Compare(sort_type, e2, e1) <= 0
           /\ Compare(sort_type, e1, e2) <= 0 /\ Compare(sort_type, e2, e3) <= 0
                => Compare(sort_type, e1, e3) <= 0
  <1>1. Follows(sort_type, e1, e2) \/ Follows(sort_type, e2, e1)
    BY DEF Follows, EntrySet, SortTypes
  <1>2. Follows(sort_type, e1, e2) /\ Follows(sort_type, e2, e3) => Follows(sort_type, e1, e3)
    BY DEF Follows, EntrySet, SortTypes
  <1> QED
    BY <1>1, <1>2, ComparesByOrder

\* What follows is about a directory of n entries with near stamps.
Directory(n, entries) == entries \in [1..n -> EntrySet] /\ Near(entries)

\* The order that was asked for is a total one.
LEMMA FollowsIsOrder ==
    ASSUME NEW e1 \in EntrySet, NEW e2 \in EntrySet, NEW e3 \in EntrySet,
           NEW sort_type \in SortTypes
    PROVE  /\ Follows(sort_type, e1, e2) \/ Follows(sort_type, e2, e1)
           /\ Follows(sort_type, e1, e2) /\ Follows(sort_type, e2, e3)
                => Follows(sort_type, e1, e3)
  BY DEF Follows, EntrySet, SortTypes

\* A rearrangement of the entries of a directory is a directory.
LEMMA Rearranged ==
    ASSUME NEW n \in Nat, NEW entries, Directory(n, entries), NEW out \in Rearrangements(entries)
    PROVE  /\ out \in [1..n -> EntrySet] /\ Len(out) = n
           /\ \A i, j \in 1..n : Close(out[i], out[j])
  <1>1. DOMAIN entries = 1..n
    BY DEF Directory
  <1>2. PICK p \in [1..n -> 1..n] : out = [i \in 1..n |-> entries[p[i]]]
    BY <1>1 DEF Rearrangements
  <1>3. out \in [1..n -> EntrySet]
    BY <1>2 DEF Directory
  <1>4. out \in Seq(EntrySet) /\ Len(out) = n
    BY <1>3
  <1>5. ASSUME NEW i \in 1..n, NEW j \in 1..n PROVE Close(out[i], out[j])
    <2>1. p[i] \in 1..n /\ p[j] \in 1..n /\ out[i] = entries[p[i]] /\ out[j] = entries[p[j]]
      BY <1>2
    <2>2. entries[p[i]].stamp \in Int /\ entries[p[j]].stamp \in Int
      BY <2>1 DEF Directory, EntrySet
    <2>3. /\ entries[p[i]].stamp - entries[p[j]].stamp <= IntMax
          /\ entries[p[j]].stamp - entries[p[i]].stamp <= IntMax
      BY <1>1, <2>1 DEF Directory, Near
    <2> QED
      BY <2>1, <2>2, <2>3, IntMaxAssumption DEF Close
  <1> QED
    BY <1>3, <1>4, <1>5

\* What qsort() leaves, in which no entry is after one that it is less than, is
\* in order as a whole.
LEMMA SortedIsOrdered ==
    ASSUME NEW n \in Nat, NEW entries, Directory(n, entries), NEW sort_type \in SortTypes,
           NEW out \in tf_sort_dirents(entries, sort_type), NEW i \in 1..n, NEW j \in 1..n, i < j
    PROVE  Follows(sort_type, out[i], out[j])
  <1>1. /\ out \in [1..n -> EntrySet] /\ Len(out) = n
        /\ \A a, b \in 1..n : Close(out[a], out[b])
    BY Rearranged DEF tf_sort_dirents
  <1>2. ASSUME NEW a \in 1..(n - 1) PROVE Follows(sort_type, out[a], out[a + 1])
    <2>1. Compare(sort_type, out[a], out[a + 1]) <= 0
      BY <1>1 DEF tf_sort_dirents
    <2>2. a \in 1..n /\ a + 1 \in 1..n
      OBVIOUS
    <2> QED
      BY <1>1, <2>1, <2>2, ComparesByOrder
  <1> DEFINE T == {k \in 1..n : i < k /\ ~Follows(sort_type, out[i], out[k])}
  <1>3. SUFFICES ASSUME T # {} PROVE FALSE
    OBVIOUS
  <1>4. PICK k \in T : \A b \in T : k <= b
    <2>1. T \in SUBSET Nat
      OBVIOUS
    <2> HIDE DEF T
    <2> QED
      BY <1>3, <2>1, LeastOf
  <1>5. k \in 1..n /\ k - 1 \in 1..n /\ k - 1 \in 1..(n - 1) /\ (k - 1) + 1 = k /\ i <= k - 1
    BY <1>4
  <1>6. Follows(sort_type, out[k - 1], out[k])
    BY <1>2, <1>5
  <1>7. i # k - 1
    BY <1>4, <1>6
  <1>8. Follows(sort_type, out[i], out[k - 1])
    BY <1>4, <1>5, <1>7
  <1>9. Follows(sort_type, out[i], out[k])
    BY <1>1, <1>5, <1>6, <1>8, FollowsIsOrder
  <1> QED
    BY <1>4, <1>9

\* Two names for a place: p leads from the first m places to entries, no two to
\* the same, so that each entry may come before the next.
Arranges(p, m, entries, sort_type) ==
    /\ p \in [1..m -> 1..m]
    /\ \A i, j \in 1..m : p[i] = p[j] => i = j
    /\ \A i \in 1..(m - 1) : Follows(sort_type, entries[p[i]], entries[p[i + 1]])

\* One more entry has its place among those that are in order: before the first
\* of them that it may come before.
LEMMA Insertion ==
    ASSUME NEW n \in Nat, NEW entries \in [1..n -> EntrySet], NEW sort_type \in SortTypes,
           NEW m \in 1..n, NEW p, Arranges(p, m - 1, entries, sort_type)
    PROVE  \E q : Arranges(q, m, entries, sort_type)
  <1> DEFINE Later == {i \in 1..(m - 1) : Follows(sort_type, entries[m], entries[p[i]])} \cup {m}
  <1>1. PICK k \in Later : \A i \in Later : k <= i
    <2>1. Later \in SUBSET Nat /\ Later # {}
      OBVIOUS
    <2> HIDE DEF Later
    <2> QED
      BY <2>1, LeastOf
  <1>2. k \in 1..m
    BY <1>1
  <1> DEFINE q == [i \in 1..m |-> IF i < k THEN p[i] ELSE IF i = k THEN m ELSE p[i - 1]]
  <1>3. /\ \A i \in 1..m : i < k => i \in 1..(m - 1) /\ q[i] = p[i]
        /\ q[k] = m
        /\ \A i \in 1..m : i > k => i - 1 \in 1..(m - 1) /\ q[i] = p[i - 1]
    BY <1>2
  <1>4. p \in [1..(m - 1) -> 1..(m - 1)] /\ \A i, j \in 1..(m - 1) : p[i] = p[j] => i = j
    BY DEF Arranges
  <1>5. q \in [1..m -> 1..m]
    <2>1. ASSUME NEW i \in 1..m PROVE q[i] \in 1..m
      <3>0. m - 1 <= m /\ m \in Nat /\ k \in Nat
        BY <1>2
      <3>1. CASE i < k
        <4>1. q[i] = p[i] /\ p[i] \in 1..(m - 1)
          BY <1>3, <1>4, <3>1
        <4> QED
          BY <4>1
      <3>2. CASE i = k
        BY <1>3, <3>2
      <3>3. CASE i > k
        <4>1. q[i] = p[i - 1] /\ p[i - 1] \in 1..(m - 1)
          BY <1>3, <1>4, <3>3
        <4> QED
          BY <4>1
      <3> QED
        BY <3>0, <3>1, <3>2, <3>3
    <2>2. q = [i \in 1..m |-> q[i]]
      OBVIOUS
    <2> HIDE DEF q
    <2> QED
      BY <2>1, <2>2
  <1> HIDE DEF q
  <1>6. ASSUME NEW i \in 1..m, NEW j \in 1..m, q[i] = q[j] PROVE i = j
    <2>1. ASSUME NEW b \in 1..m, b # k PROVE q[b] # m
      <3>1. CASE b < k
        <4>1. q[b] = p[b] /\ p[b] \in 1..(m - 1)
          BY <1>3, <1>4, <3>1
        <4> QED
          BY <4>1
      <3>2. CASE b > k
        <4>1. q[b] = p[b - 1] /\ p[b - 1] \in 1..(m - 1)
          BY <1>3, <1>4, <3>2
        <4> QED
          BY <4>1
      <3> QED
        BY <1>2, <2>1, <3>1, <3>2
    <2>2. CASE i = k \/ j = k
      BY <1>3, <1>6, <2>1, <2>2
    <2>3. CASE i # k /\ j # k
      BY <1>2, <1>3, <1>4, <1>6, <2>3
    <2> QED
      BY <2>2, <2>3
  <1>7. ASSUME NEW i \in 1..(m - 1)
        PROVE  Follows(sort_type, entries[q[i]], entries[q[i + 1]])
    <2>1. i \in 1..m /\ i + 1 \in 1..m
      OBVIOUS
    <2>2. CASE i + 1 < k
      <3>1. q[i] = p[i] /\ q[i + 1] = p[i + 1] /\ i \in 1..((m - 1) - 1)
        BY <1>2, <1>3, <2>1, <2>2
      <3> QED
        BY <3>1 DEF Arranges
    <2>3. CASE i + 1 = k
      <3>1. q[i] = p[i] /\ q[i + 1] = m /\ i \notin Later
        BY <1>1, <1>2, <1>3, <2>1, <2>3
      <3>2. p[i] \in 1..n /\ m \in 1..n /\ ~Follows(sort_type, entries[m], entries[p[i]])
        BY <1>4, <3>1
      <3> QED
        BY <3>1, <3>2, FollowsIsOrder
    <2>4. CASE i = k
      <3>1. q[i] = m /\ q[i + 1] = p[i] /\ i \in Later /\ i # m
        BY <1>1, <1>2, <1>3, <2>1, <2>4
      <3> QED
        BY <3>1
    <2>5. CASE i > k
      <3>1. q[i] = p[i - 1] /\ q[i + 1] = p[(i - 1) + 1] /\ i - 1 \in 1..((m - 1) - 1)
        BY <1>2, <1>3, <2>1, <2>5
      <3> QED
        BY <3>1 DEF Arranges
    <2> QED
      BY <1>2, <2>2, <2>3, <2>4, <2>5
  <1> QED
    BY <1>5, <1>6, <1>7 DEF Arranges

\* So there is an order of any number of entries.
LEMMA OrderExists ==
    ASSUME NEW n \in Nat, NEW entries \in [1..n -> EntrySet], NEW sort_type \in SortTypes
    PROVE  \E p : Arranges(p, n, entries, sort_type)
  <1> DEFINE T == {m \in 0..n : ~\E p : Arranges(p, m, entries, sort_type)}
  <1>1. SUFFICES ASSUME ~\E p : Arranges(p, n, entries, sort_type) PROVE FALSE
    OBVIOUS
  <1>2. PICK m \in T : \A b \in T : m <= b
    <2>1. T \in SUBSET Nat /\ n \in T
      BY <1>1
    <2> HIDE DEF T
    <2> QED
      BY <2>1, LeastOf
  <1>3. m # 0
    <2>1. [i \in 1..0 |-> i] \in [1..0 -> 1..0] /\ 1..0 = {} /\ 1..(0 - 1) = {}
      OBVIOUS
    <2>2. Arranges([i \in 1..0 |-> i], 0, entries, sort_type)
      BY <2>1 DEF Arranges
    <2> QED
      BY <1>2, <2>2
  <1>4. m \in 1..n /\ m - 1 \in 0..n /\ m - 1 \notin T
    BY <1>2, <1>3
  <1>5. PICK p : Arranges(p, m - 1, entries, sort_type)
    BY <1>4
  <1> QED
    BY <1>2, <1>4, <1>5, Insertion

\* tf_sort_dirents() sorts: whatever qsort() does to get there, the comparison
\* functions let it find an order, and every order that they let it find is the
\* one that tf_util.h asks for.
THEOREM DirectoriesAreSorted ==
    ASSUME NEW n \in Nat, NEW entries \in [1..n -> EntrySet], NEW sort_type \in SortTypes
    PROVE  Sorts(entries, sort_type)
  <1> SUFFICES ASSUME Near(entries)
               PROVE  /\ tf_sort_dirents(entries, sort_type) # {}
                      /\ \A out \in tf_sort_dirents(entries, sort_type) :
                            \A i, j \in DOMAIN out : i < j => Follows(sort_type, out[i], out[j])
    BY DEF Sorts
  <1>1. Directory(n, entries) /\ DOMAIN entries = 1..n
    BY DEF Directory
  <1>2. tf_sort_dirents(entries, sort_type) # {}
    <2>1. PICK p : Arranges(p, n, entries, sort_type)
      BY OrderExists
    <2> DEFINE out == [i \in 1..n |-> entries[p[i]]]
    <2>2. p \in [1..n -> 1..n] /\ \A i, j \in 1..n : p[i] = p[j] => i = j
      BY <2>1 DEF Arranges
    <2>3. out \in Rearrangements(entries)
      BY <1>1, <2>2 DEF Rearrangements
    <2>4. /\ out \in [1..n -> EntrySet] /\ Len(out) = n
          /\ \A i, j \in 1..n : Close(out[i], out[j])
      BY <1>1, <2>3, Rearranged
    <2>5. ASSUME NEW i \in 1..(n - 1) PROVE Compare(sort_type, out[i], out[i + 1]) <= 0
      <3>1. i \in 1..n /\ i + 1 \in 1..n
        OBVIOUS
      <3>2. Follows(sort_type, out[i], out[i + 1])
        BY <2>1, <3>1 DEF Arranges
      <3> HIDE DEF out
      <3> QED
        BY <2>4, <3>1, <3>2, ComparesByOrder
    <2> QED
      BY <2>3, <2>4, <2>5 DEF tf_sort_dirents
  <1>3. ASSUME NEW out \in tf_sort_dirents(entries, sort_type)
        PROVE  \A i, j \in DOMAIN out : i < j => Follows(sort_type, out[i], out[j])
    <2>1. DOMAIN out = 1..n
      BY <1>1, Rearranged DEF tf_sort_dirents
    <2> QED
      BY <1>1, <2>1, SortedIsOrdered
  <1> QED
    BY <1>2, <1>3

-----------------------------------------------------------------------------
(* Paths.  Both loops of tf_makename() are a fold over the tokens of one,  *)
(* and so is where a path leads: what the buffer has after each token is   *)
(* the name of the directory that the path has led to.                     *)

\* R is the states in which a loop of tf_makename() is after each token.
Copying(R, n, base, path) ==
    /\ R[0] = base
    /\ \A k \in 1..n : R[k] = Step(R[k - 1], path[k])
    /\ FoldLeft(Step, base, path) = R[n]

CopyStays(V, n, path) == \A s \in V, i \in 1..n : Step(s, path[i]) \in V

\* The loop goes from token to token, as long as it stays in V.
LEMMA CopyTrace ==
    ASSUME NEW V, NEW path, NEW n \in Nat, DOMAIN path = 1..n, NEW base \in V, CopyStays(V, n, path)
    PROVE  \E R \in [0..n -> V] : Copying(R, n, base, path)
  <1> DEFINE g == [x \in (1..n) \X V |-> Step(x[2], path[x[1]])]
             Rec(f) == f = [s \in SUBSET (1..n) |->
                               IF s = {} THEN base ELSE Step(f[s \ {Max(s)}], path[Max(s)])]
             f == CHOOSE f : Rec(f)
  <1>1. g \in [(1..n) \X V -> V] /\ \A k \in 1..n, s \in V : g[<<k, s>>] = Step(s, path[k])
    BY DEF CopyStays
  <1> HIDE DEF g
  <1>2. PICK h \in [SUBSET (1..n) -> V] : Folds(h, n, g, base)
    BY <1>1, FoldExists
  <1>3. Rec(h)
    <2>1. ASSUME NEW s \in SUBSET (1..n), s # {}
          PROVE  g[<<Max(s), h[s \ {Max(s)}]>>] = Step(h[s \ {Max(s)}], path[Max(s)])
      <3>1. Max(s) \in 1..n /\ s \ {Max(s)} \in SUBSET (1..n)
        BY <2>1, LastOf
      <3> QED
        BY <1>1, <1>2, <3>1
    <2> QED
      BY <1>2, <2>1 DEF Folds
  <1>4. Rec(f)
    <2> HIDE DEF Rec
    <2> QED
      BY <1>3
  <1>5. FoldLeft(Step, base, path) = f[1..n]
    BY DEF FoldLeft, MapThenFoldSet
  <1> HIDE DEF f
  <1>6. f[{}] = base
    BY <1>4
  <1>7. ASSUME NEW k \in 1..n, f[1..(k - 1)] \in V PROVE f[1..k] = g[<<k, f[1..(k - 1)]>>]
    <2>1. /\ 1..k \in SUBSET (1..n) /\ 1..k # {} /\ Max(1..k) = k
          /\ (1..k) \ {k} = 1..(k - 1)
      BY FirstPlaces
    <2>2. \A s \in SUBSET (1..n) : s # {} => f[s] = Step(f[s \ {Max(s)}], path[Max(s)])
      BY <1>4
    <2>3. f[1..k] = Step(f[(1..k) \ {k}], path[k])
      BY <2>1, <2>2
    <2> QED
      BY <1>1, <1>7, <2>1, <2>3
  <1>8. Follow(f, V, n, g, base)
    BY <1>6, <1>7 DEF Follow
  <1>9. Ends(f[1..n], V, n, g, base)
    BY <1>1, <1>8, FoldGoes
  <1>10. PICK R \in [0..n -> V] : Goes(R, n, g, base) /\ f[1..n] = R[n]
    BY <1>9 DEF Ends
  <1>11. \A k \in 1..n : R[k] = Step(R[k - 1], path[k])
    <2>1. \A k \in 1..n : k - 1 \in 0..n
      OBVIOUS
    <2> QED
      BY <1>1, <1>10, <2>1 DEF Goes
  <1> QED
    BY <1>5, <1>10, <1>11 DEF Copying, Goes

\* R is the directories that a path has led to after each token.
Resolving(R, n, base, path) ==
    /\ R[0] = base
    /\ \A k \in 1..n : R[k] = Enter(R[k - 1], path[k])
    /\ FoldLeft(Enter, base, path) = R[n]

ResolveStays(V, n, path) == \A s \in V, i \in 1..n : Enter(s, path[i]) \in V

\* A path leads from token to token.
LEMMA ResolveTrace ==
    ASSUME NEW V, NEW path, NEW n \in Nat, DOMAIN path = 1..n, NEW base \in V, ResolveStays(V, n, path)
    PROVE  \E R \in [0..n -> V] : Resolving(R, n, base, path)
  <1> DEFINE g == [x \in (1..n) \X V |-> Enter(x[2], path[x[1]])]
             Rec(f) == f = [s \in SUBSET (1..n) |->
                               IF s = {} THEN base ELSE Enter(f[s \ {Max(s)}], path[Max(s)])]
             f == CHOOSE f : Rec(f)
  <1>1. g \in [(1..n) \X V -> V] /\ \A k \in 1..n, s \in V : g[<<k, s>>] = Enter(s, path[k])
    BY DEF ResolveStays
  <1> HIDE DEF g
  <1>2. PICK h \in [SUBSET (1..n) -> V] : Folds(h, n, g, base)
    BY <1>1, FoldExists
  <1>3. Rec(h)
    <2>1. ASSUME NEW s \in SUBSET (1..n), s # {}
          PROVE  g[<<Max(s), h[s \ {Max(s)}]>>] = Enter(h[s \ {Max(s)}], path[Max(s)])
      <3>1. Max(s) \in 1..n /\ s \ {Max(s)} \in SUBSET (1..n)
        BY <2>1, LastOf
      <3> QED
        BY <1>1, <1>2, <3>1
    <2> QED
      BY <1>2, <2>1 DEF Folds
  <1>4. Rec(f)
    <2> HIDE DEF Rec
    <2> QED
      BY <1>3
  <1>5. FoldLeft(Enter, base, path) = f[1..n]
    BY DEF FoldLeft, MapThenFoldSet
  <1> HIDE DEF f
  <1>6. f[{}] = base
    BY <1>4
  <1>7. ASSUME NEW k \in 1..n, f[1..(k - 1)] \in V PROVE f[1..k] = g[<<k, f[1..(k - 1)]>>]
    <2>1. /\ 1..k \in SUBSET (1..n) /\ 1..k # {} /\ Max(1..k) = k
          /\ (1..k) \ {k} = 1..(k - 1)
      BY FirstPlaces
    <2>2. \A s \in SUBSET (1..n) : s # {} => f[s] = Enter(f[s \ {Max(s)}], path[Max(s)])
      BY <1>4
    <2>3. f[1..k] = Enter(f[(1..k) \ {k}], path[k])
      BY <2>1, <2>2
    <2> QED
      BY <1>1, <1>7, <2>1, <2>3
  <1>8. Follow(f, V, n, g, base)
    BY <1>6, <1>7 DEF Follow
  <1>9. Ends(f[1..n], V, n, g, base)
    BY <1>1, <1>8, FoldGoes
  <1>10. PICK R \in [0..n -> V] : Goes(R, n, g, base) /\ f[1..n] = R[n]
    BY <1>9 DEF Ends
  <1>11. \A k \in 1..n : R[k] = Enter(R[k - 1], path[k])
    <2>1. \A k \in 1..n : k - 1 \in 0..n
      OBVIOUS
    <2> QED
      BY <1>1, <1>10, <2>1 DEF Goes
  <1> QED
    BY <1>5, <1>10, <1>11 DEF Resolving, Goes

\* A canonical name with a slash at its end, which the root has anyway.
Slashed(dirs) == [i \in 1..(2 * Len(dirs) + 1) |-> IF i % 2 = 1 THEN "/" ELSE dirs[i \div 2]]

\* Every second token is a slash.
LEMMA Half ==
    ASSUME NEW i \in Nat
    PROVE  /\ (2 * i) % 2 = 0 /\ (2 * i) \div 2 = i /\ (2 * i + 1) % 2 = 1
  OBVIOUS

\* Sequences with the same elements are the same.
LEMMA SequenceIsFunction ==
    ASSUME NEW S, NEW s \in Seq(S) PROVE Len(s) \in Nat /\ s = [i \in 1..Len(s) |-> s[i]]
  OBVIOUS

\* What is left without the last element.
LEMMA FrontOf ==
    ASSUME NEW S, NEW s \in Seq(S), s # <<>>
    PROVE  /\ Front(s) \in Seq(S) /\ Len(Front(s)) = Len(s) - 1
           /\ \A i \in 1..(Len(s) - 1) : Front(s)[i] = s[i]
  <1>1. Len(s) \in Nat /\ Len(s) > 0 /\ \A i \in 1..Len(s) : s[i] \in S
    OBVIOUS
  <1>2. Front(s) = [i \in 1..(Len(s) - 1) |-> s[i]]
    BY <1>1 DEF Front
  <1>3. Front(s) \in [1..(Len(s) - 1) -> S] /\ Len(s) - 1 \in Nat
    BY <1>1, <1>2
  <1> QED
    BY <1>2, <1>3

\* The root has one name only.
LEMMA SlashedRoot == Slashed(<<>>) = Root /\ Canonical(<<>>) = Root
  <1>1. Slashed(<<>>) = [i \in 1..1 |-> IF i % 2 = 1 THEN "/" ELSE <<>>[i \div 2]]
    BY DEF Slashed
  <1>2. \A i \in 1..1 : i = 1 /\ i % 2 = 1
    OBVIOUS
  <1>3. Slashed(<<>>) = [i \in 1..1 |-> "/"]
    BY <1>1, <1>2
  <1> QED
    BY <1>3 DEF Root, Canonical

\* The two shapes that the buffer has between tokens.
LEMMA Shapes ==
    ASSUME NEW Parts, "/" \notin Parts, NEW dirs \in Seq(Parts)
    PROVE  /\ Slashed(dirs) \in Seq(Parts \cup {"/"})
           /\ Len(Slashed(dirs)) = 2 * Len(dirs) + 1
           /\ \A i \in 1..(2 * Len(dirs) + 1) : Slashed(dirs)[i] = "/" <=> i % 2 = 1
           /\ dirs # <<>> => /\ Canonical(dirs) \in Seq(Parts \cup {"/"})
                             /\ Len(Canonical(dirs)) = 2 * Len(dirs)
                             /\ Canonical(dirs)[2 * Len(dirs)] # "/"
  <1>1. Len(dirs) \in Nat /\ \A i \in 1..Len(dirs) : dirs[i] \in Parts
    OBVIOUS
  <1>2. \A i \in 1..(2 * Len(dirs) + 1) : i % 2 \in {0, 1} /\ (i % 2 = 0 => i \div 2 \in 1..Len(dirs))
    BY <1>1
  <1>3. /\ Slashed(dirs) \in [1..(2 * Len(dirs) + 1) -> Parts \cup {"/"}]
        /\ \A i \in 1..(2 * Len(dirs) + 1) : Slashed(dirs)[i] = "/" <=> i % 2 = 1
    BY <1>1, <1>2 DEF Slashed
  <1>4. Slashed(dirs) \in Seq(Parts \cup {"/"}) /\ Len(Slashed(dirs)) = 2 * Len(dirs) + 1
    BY <1>1, <1>3
  <1>5. ASSUME dirs # <<>>
        PROVE  /\ Canonical(dirs) \in [1..(2 * Len(dirs)) -> Parts \cup {"/"}]
               /\ Canonical(dirs)[2 * Len(dirs)] # "/"
    <2>1. Canonical(dirs) = [i \in 1..(2 * Len(dirs)) |-> IF i % 2 = 1 THEN "/" ELSE dirs[i \div 2]]
      BY <1>5 DEF Canonical
    <2>2. Canonical(dirs) \in [1..(2 * Len(dirs)) -> Parts \cup {"/"}]
      BY <1>1, <1>2, <2>1
    <2>3. Len(dirs) \in 1..Len(dirs) /\ 2 * Len(dirs) \in 1..(2 * Len(dirs))
      BY <1>1, <1>5
    <2>4. Canonical(dirs)[2 * Len(dirs)] = dirs[Len(dirs)]
      BY <1>1, <2>1, <2>3, Half
    <2> QED
      BY <1>1, <2>2, <2>3, <2>4
  <1>6. dirs # <<>> => Canonical(dirs) \in Seq(Parts \cup {"/"}) /\ Len(Canonical(dirs)) = 2 * Len(dirs)
    BY <1>1, <1>5
  <1> QED
    BY <1>3, <1>4, <1>5, <1>6

\* The test of tf_makename() for the slash before "..".
LEMMA EndsWithSlash ==
    ASSUME NEW Parts, "/" \notin Parts, NEW dirs \in Seq(Parts)
    PROVE  Last(Slashed(dirs)) = "/"
  <1> DEFINE n == Len(dirs)
  <1>1. n \in Nat
    OBVIOUS
  <1>2. Len(Slashed(dirs)) = 2 * n + 1
    BY Shapes
  <1>3. Slashed(dirs)[2 * n + 1] = "/"
    BY <1>1, Half DEF Slashed
  <1> QED
    BY <1>2, <1>3 DEF Last

\* A name that is copied behind a slash.
LEMMA AddName ==
    ASSUME NEW Parts, "/" \notin Parts, NEW dirs \in Seq(Parts), NEW name \in Parts
    PROVE  Append(Slashed(dirs), name) = Canonical(Append(dirs, name))
  <1> DEFINE n == Len(dirs)
             more == Append(dirs, name)
  <1>1. n \in Nat /\ more \in Seq(Parts) /\ Len(more) = n + 1 /\ more # <<>>
        /\ more[n + 1] = name /\ \A i \in 1..n : more[i] = dirs[i]
    OBVIOUS
  <1>2. Canonical(more) = [i \in 1..(2 * n + 2) |-> IF i % 2 = 1 THEN "/" ELSE more[i \div 2]]
    <2>1. 2 * (n + 1) = 2 * n + 2
      BY <1>1
    <2> HIDE DEF more, n
    <2> QED
      BY <1>1, <2>1 DEF Canonical
  <1>3. Slashed(dirs) \in Seq(Parts \cup {"/"}) /\ Len(Slashed(dirs)) = 2 * n + 1
    BY Shapes
  <1> DEFINE left == Append(Slashed(dirs), name)
             right == Canonical(more)
  <1>4. left \in Seq(Parts \cup {"/"}) /\ Len(left) = 2 * n + 2 /\ left[2 * n + 2] = name
        /\ \A i \in 1..(2 * n + 1) : left[i] = Slashed(dirs)[i]
    BY <1>1, <1>3
  <1>5. left = [i \in 1..(2 * n + 2) |-> left[i]]
    <2> HIDE DEF left
    <2> QED
      BY <1>4, SequenceIsFunction
  <1>6. ASSUME NEW i \in 1..(2 * n + 2) PROVE left[i] = right[i]
    <2>1. CASE i = 2 * n + 2
      <3>1. i % 2 = 0 /\ i \div 2 = n + 1
        BY <1>1, <2>1
      <3> QED
        BY <1>1, <1>2, <1>4, <2>1, <3>1
    <2>2. CASE i # 2 * n + 2
      <3>1. i \in 1..(2 * n + 1) /\ (i % 2 # 1 => i \div 2 \in 1..n)
        BY <1>1, <2>2
      <3>2. left[i] = IF i % 2 = 1 THEN "/" ELSE dirs[i \div 2]
        BY <1>4, <3>1 DEF Slashed
      <3> HIDE DEF left, more
      <3> QED
        BY <1>1, <1>2, <3>1, <3>2
    <2> QED
      BY <2>1, <2>2
  <1> HIDE DEF left, right
  <1> QED
    BY <1>2, <1>5, <1>6 DEF left, right

\* After a name it is not the root.
LEMMA NameAdded ==
    ASSUME NEW Parts, NEW dirs \in Seq(Parts), NEW name \in Parts PROVE Append(dirs, name) # <<>>
  <1>1. Len(Append(dirs, name)) = Len(dirs) + 1 /\ Len(dirs) \in Nat
    OBVIOUS
  <1> QED
    BY <1>1

\* A slash that is copied behind a name, and one that is dropped at the end.
LEMMA AddSlash ==
    ASSUME NEW Parts, "/" \notin Parts, NEW dirs \in Seq(Parts), dirs # <<>>
    PROVE  /\ Append(Canonical(dirs), "/") = Slashed(dirs)
           /\ Front(Slashed(dirs)) = Canonical(dirs)
  <1> DEFINE n == Len(dirs)
  <1>1. n \in Nat
    OBVIOUS
  <1>2. /\ Canonical(dirs) \in Seq(Parts \cup {"/"}) /\ Len(Canonical(dirs)) = 2 * n
        /\ Slashed(dirs) \in Seq(Parts \cup {"/"}) /\ Len(Slashed(dirs)) = 2 * n + 1
    BY Shapes
  <1>3. \A i \in 1..(2 * n) : Canonical(dirs)[i] = Slashed(dirs)[i]
    BY <1>1 DEF Canonical, Slashed
  <1>4. Slashed(dirs)[2 * n + 1] = "/"
    BY <1>1, Half DEF Slashed
  <1> HIDE DEF n
  <1>5. Append(Canonical(dirs), "/") = Slashed(dirs)
    BY <1>1, <1>2, <1>3, <1>4
  <1>6. Front(Slashed(dirs)) = Canonical(dirs)
    BY <1>1, <1>2, <1>3 DEF Front
  <1> QED
    BY <1>5, <1>6

\* The loop that looks for the slash before the directory to leave finds it.
LEMMA BacksUp ==
    ASSUME NEW Parts, "/" \notin Parts, NEW dirs \in Seq(Parts)
    PROVE  BackUp(Slashed(dirs)) = Slashed(Enter(dirs, ".."))
  <1> DEFINE n == Len(dirs)
             buf == Slashed(dirs)
             slashes == {i \in 1..(Len(buf) - 1) : buf[i] = "/"}
  <1>1. n \in Nat /\ buf \in Seq(Parts \cup {"/"}) /\ Len(buf) = 2 * n + 1
        /\ \A i \in 1..(2 * n + 1) : buf[i] = "/" <=> i % 2 = 1
    <2>1. n \in Nat
      OBVIOUS
    <2> QED
      BY <2>1, Shapes
  <1>2. CASE dirs = <<>>
    <2>1. n = 0 /\ Len(buf) = 1
      BY <1>1, <1>2
    <2>2. slashes = {}
      <3> HIDE DEF buf
      <3>1. 1..(Len(buf) - 1) = {}
        BY <2>1
      <3> QED
        BY <3>1
    <2>3. BackUp(buf) = Root
      BY <2>2 DEF BackUp
    <2> QED
      BY <1>2, <2>3, SlashedRoot DEF Enter
  <1>3. CASE dirs # <<>>
    <2>1. n > 0
      BY <1>1, <1>3
    <2>2. 2 * n - 1 \in slashes
      <3>1. 2 * n - 1 \in 1..(Len(buf) - 1) /\ (2 * n - 1) % 2 = 1 /\ 2 * n - 1 \in 1..(2 * n + 1)
        BY <1>1, <2>1
      <3> HIDE DEF buf
      <3> QED
        BY <1>1, <3>1
    <2>3. \A i \in slashes : i <= 2 * n - 1 /\ i \in Int
      <3>1. ASSUME NEW i \in slashes PROVE i \in 1..(2 * n) /\ i % 2 = 1
        BY <1>1
      <3> HIDE DEF slashes
      <3> QED
        BY <1>1, <3>1
    <2>4. Max(slashes) = 2 * n - 1
      <3>1. \A i \in slashes : (\A j \in slashes : i >= j) => i = 2 * n - 1
        BY <1>1, <2>2, <2>3
      <3> HIDE DEF slashes
      <3> QED
        BY <2>2, <2>3, <3>1 DEF Max
    <2>5. BackUp(buf) = SubSeq(buf, 1, 2 * n - 1)
      BY <2>2, <2>4 DEF BackUp
    <2>6. Enter(dirs, "..") = Front(dirs) /\ Front(dirs) \in Seq(Parts) /\ Len(Front(dirs)) = n - 1
          /\ \A i \in 1..(n - 1) : Front(dirs)[i] = dirs[i]
      BY <1>3, FrontOf DEF Enter
    <2>7. SubSeq(buf, 1, 2 * n - 1) = [i \in 1..(2 * n - 1) |-> buf[i]]
      <3> HIDE DEF buf
      <3> QED
        BY <1>1, <2>1
    <2>8. ASSUME NEW i \in 1..(2 * n - 1)
          PROVE  buf[i] = IF i % 2 = 1 THEN "/" ELSE Front(dirs)[i \div 2]
      <3>1. i \in 1..(2 * n + 1) /\ (i % 2 # 1 => i \div 2 \in 1..(n - 1))
        BY <1>1
      <3> QED
        BY <2>6, <3>1 DEF Slashed
    <2>9. Slashed(Front(dirs)) = [i \in 1..(2 * n - 1) |-> IF i % 2 = 1 THEN "/" ELSE Front(dirs)[i \div 2]]
      <3>1. 2 * (n - 1) + 1 = 2 * n - 1
        BY <1>1
      <3> QED
        BY <2>6, <3>1 DEF Slashed
    <2> HIDE DEF buf
    <2>10. BackUp(buf) = Slashed(Front(dirs))
      BY <2>5, <2>7, <2>8, <2>9
    <2> QED
      BY <2>6, <2>10 DEF buf
  <1> QED
    BY <1>2, <1>3

\* The states of the loops.
State(buf, skip) == [buf |-> buf, skip |-> skip]
StateSet(Parts) == [buf: Seq(Parts \cup {"/"}), skip: BOOLEAN]

\* What is left of the buffer is of the tokens it had.
LEMMA BackUpTyped ==
    ASSUME NEW Parts, NEW buf \in Seq(Parts \cup {"/"}) PROVE BackUp(buf) \in Seq(Parts \cup {"/"})
  <1> DEFINE slashes == {i \in 1..(Len(buf) - 1) : buf[i] = "/"}
  <1>1. Len(buf) \in Nat /\ Root \in Seq(Parts \cup {"/"})
    BY DEF Root
  <1>2. CASE slashes = {}
    BY <1>1, <1>2 DEF BackUp
  <1>3. CASE slashes # {}
    <2>1. slashes \in SUBSET (1..Len(buf))
      BY <1>1
    <2>2. Max(slashes) \in 1..Len(buf)
      <3> HIDE DEF slashes
      <3> QED
        BY <1>1, <1>3, <2>1, LastOf
    <2>3. BackUp(buf) = SubSeq(buf, 1, Max(slashes))
      BY <1>3 DEF BackUp
    <2> HIDE DEF slashes
    <2> QED
      BY <1>1, <2>2, <2>3
  <1> QED
    BY <1>2, <1>3

\* And so is what a loop makes of it.
LEMMA StepTyped ==
    ASSUME NEW Parts, NEW s \in StateSet(Parts), NEW token \in Parts \cup {"/"}
    PROVE  Step(s, token) \in StateSet(Parts)
  <1>1. s.buf \in Seq(Parts \cup {"/"}) /\ s.skip \in BOOLEAN
    BY DEF StateSet
  <1>2. BackUp(s.buf) \in Seq(Parts \cup {"/"})
    BY <1>1, BackUpTyped
  <1>3. Append(s.buf, token) \in Seq(Parts \cup {"/"})
    BY <1>1
  <1> QED
    BY <1>1, <1>2, <1>3 DEF Step, StateSet

\* The three things that a loop does with a token.
LEMMA Steps ==
    ASSUME NEW buf, NEW token
    PROVE  /\ Step(State(buf, TRUE), token) = State(buf, FALSE)
           /\ token = ".." /\ Last(buf) = "/" => Step(State(buf, FALSE), token) = State(BackUp(buf), TRUE)
           /\ token # ".." => Step(State(buf, FALSE), token) = State(Append(buf, token), FALSE)
  BY DEF Step, State

\* A path of n tokens, the directories that it leads to, and what tf_makename()
\* has of them: with a slash at the end or without.
PathOf(Parts, n, path) ==
    /\ n \in Nat /\ Len(path) = n /\ DOMAIN path = 1..n
    /\ \A i \in 1..n : path[i] \in Parts \cup {"/"}
Leads(D, n, path) == \A k \in 1..n : D[k] = Enter(D[k - 1], path[k])
IsName(named, dirs) == named = Slashed(dirs) \/ (dirs # <<>> /\ named = Canonical(dirs))

\* Both loops of tf_makename(): when the buffer has where the path has led to so
\* far, and a slash, then at the end it has where all of it leads to; its last
\* slash is there unless the last token was a name.
LEMMA Copies ==
    ASSUME NEW Parts, "/" \notin Parts, ".." \in Parts,
           NEW n, NEW path, PathOf(Parts, n, path), Alternates(path), n > 0 => path[1] # "/",
           NEW D \in [0..n -> Seq(Parts)], Leads(D, n, path)
    PROVE  IsName(Copy(Slashed(D[0]), path), D[n])
  <1>0. /\ n \in Nat /\ Len(path) = n /\ DOMAIN path = 1..n
        /\ \A i \in 1..n : path[i] \in Parts \cup {"/"}
        /\ \A k \in 1..n : D[k] = Enter(D[k - 1], path[k])
    BY DEF PathOf, Leads
  <1> DEFINE V == StateSet(Parts)
             base == State(Slashed(D[0]), FALSE)
             At(R, k) ==
                /\ k = 0 \/ path[k] = "/" => R[k] = State(Slashed(D[k]), FALSE)
                /\ k > 0 /\ path[k] = ".." => R[k] = State(Slashed(D[k]), TRUE)
                /\ k > 0 /\ path[k] \notin {"/", ".."} =>
                       D[k] # <<>> /\ R[k] = State(Canonical(D[k]), FALSE)
  <1>1. PICK R : Copying(R, n, base, path)
    <2>1. base \in V
      <3>1. D[0] \in Seq(Parts)
        BY <1>0
      <3> QED
        BY <3>1, Shapes DEF State, StateSet
    <2>2. CopyStays(V, n, path)
      BY <1>0, StepTyped DEF CopyStays
    <2> HIDE DEF base, V
    <2> QED
      BY <1>0, <2>1, <2>2, CopyTrace
  <1>2. At(R, 0)
    BY <1>0, <1>1 DEF Copying
  <1>3. ASSUME NEW k \in 1..n, At(R, k - 1) PROVE At(R, k)
    <2> DEFINE dirs == D[k - 1]
    <2>1. /\ k - 1 \in 0..n /\ dirs \in Seq(Parts) /\ path[k] \in Parts \cup {"/"}
          /\ R[k] = Step(R[k - 1], path[k]) /\ D[k] = Enter(dirs, path[k])
      BY <1>0, <1>1 DEF Copying
    <2>2. k > 1 => k - 1 \in 1..n /\ ((path[k - 1] = "/") # (path[k] = "/"))
      <3>1. k > 1 => k - 1 \in 1..(n - 1) /\ (k - 1) + 1 = k
        BY <1>0
      <3> QED
        BY <1>0, <3>1 DEF Alternates
    <2>3. CASE path[k] = "/"
      <3>1. k > 1 /\ k - 1 > 0 /\ path[k - 1] # "/" /\ D[k] = dirs
        <4>1. k # 1
          BY <1>0, <2>3
        <4>2. k > 1 /\ k - 1 > 0
          BY <1>0, <4>1
        <4> QED
          BY <2>1, <2>2, <2>3, <4>2 DEF Enter
      <3>2. CASE path[k - 1] = ".."
        <4>1. R[k - 1] = State(Slashed(dirs), TRUE)
          BY <1>3, <3>1, <3>2
        <4>2. R[k] = State(Slashed(D[k]), FALSE)
          BY <2>1, <3>1, <4>1, Steps
        <4> QED
          BY <2>3, <4>2
      <3>3. CASE path[k - 1] # ".."
        <4>1. dirs # <<>> /\ R[k - 1] = State(Canonical(dirs), FALSE)
          BY <1>3, <3>1, <3>3
        <4>2. R[k] = State(Append(Canonical(dirs), "/"), FALSE)
          BY <2>1, <2>3, <4>1, Steps
        <4>3. Append(Canonical(dirs), "/") = Slashed(dirs)
          BY <2>1, <4>1, AddSlash
        <4> QED
          BY <2>3, <3>1, <4>2, <4>3
      <3> QED
        BY <3>2, <3>3
    <2>4. CASE path[k] # "/"
      <3>1. k - 1 = 0 \/ path[k - 1] = "/"
        BY <1>0, <2>2, <2>4
      <3>2. R[k - 1] = State(Slashed(dirs), FALSE)
        BY <1>3, <3>1
      <3>3. CASE path[k] = ".."
        <4>1. Last(Slashed(dirs)) = "/"
          BY <2>1, EndsWithSlash
        <4>2. R[k] = State(BackUp(Slashed(dirs)), TRUE)
          BY <2>1, <3>2, <3>3, <4>1, Steps
        <4>3. BackUp(Slashed(dirs)) = Slashed(D[k])
          BY <2>1, <3>3, BacksUp
        <4>4. R[k] = State(Slashed(D[k]), TRUE)
          BY <4>2, <4>3
        <4>5. k # 0 /\ ".." # "/"
          BY <1>0
        <4> QED
          BY <3>3, <4>4, <4>5, Zenon
      <3>4. CASE path[k] # ".."
        <4>1. R[k] = State(Append(Slashed(dirs), path[k]), FALSE)
          BY <2>1, <3>2, <3>4, Steps
        <4>2. D[k] = Append(dirs, path[k]) /\ path[k] \in Parts
          BY <2>1, <2>4, <3>4 DEF Enter
        <4>3. Append(Slashed(dirs), path[k]) = Canonical(D[k]) /\ D[k] # <<>>
          <5>1. \A d \in Seq(Parts), x \in Parts : Append(Slashed(d), x) = Canonical(Append(d, x))
            BY AddName, Zenon
          <5>2. \A d \in Seq(Parts), x \in Parts : Append(d, x) # <<>>
            BY NameAdded, Zenon
          <5> QED
            BY <2>1, <4>2, <5>1, <5>2, Zenon
        <4>4. R[k] = State(Canonical(D[k]), FALSE)
          BY <4>1, <4>3
        <4>5. k # 0
          BY <1>0
        <4> QED
          BY <2>4, <3>4, <4>3, <4>4, <4>5, Zenon
      <3> QED
        BY <3>3, <3>4
    <2> QED
      BY <2>3, <2>4
  <1>4. At(R, n)
    <2> DEFINE Good == {k \in 0..n : At(R, k)}
    <2> HIDE DEF At
    <2>1. 0 \in Good
      BY <1>0, <1>2
    <2>2. ASSUME NEW k \in 1..n, k - 1 \in Good PROVE k \in Good
      BY <1>3, <2>2
    <2> HIDE DEF Good
    <2>3. 0..n \subseteq Good
      BY <1>0, <2>1, <2>2, UpTo
    <2> QED
      BY <1>0, <2>3 DEF Good
  <1>5. Copy(Slashed(D[0]), path) = R[n].buf
    BY <1>1 DEF Copying, Copy, State
  <1> QED
    BY <1>0, <1>4, <1>5 DEF State, IsName

\* Resolve() is where the last token of a path has led to.
LEMMA Resolves ==
    ASSUME NEW Parts, NEW n, NEW path, PathOf(Parts, n, path)
    PROVE  \E D \in [0..n -> Seq(Parts)] : D[0] = <<>> /\ Leads(D, n, path) /\ Resolve(path) = D[n]
  <1>0. n \in Nat /\ DOMAIN path = 1..n /\ \A i \in 1..n : path[i] \in Parts \cup {"/"}
    BY DEF PathOf
  <1>1. <<>> \in Seq(Parts)
    OBVIOUS
  <1>2. ASSUME NEW dirs \in Seq(Parts), NEW token \in Parts \cup {"/"}
        PROVE  Enter(dirs, token) \in Seq(Parts)
    <2>1. dirs # <<>> => Front(dirs) \in Seq(Parts)
      BY FrontOf
    <2>2. token # "/" => Append(dirs, token) \in Seq(Parts)
      OBVIOUS
    <2> QED
      BY <2>1, <2>2 DEF Enter
  <1> DEFINE V == Seq(Parts)
  <1>3. <<>> \in V /\ ResolveStays(V, n, path)
    BY <1>0, <1>1, <1>2 DEF ResolveStays
  <1> HIDE DEF V
  <1>4. PICK D \in [0..n -> V] : Resolving(D, n, <<>>, path)
    BY <1>0, <1>3, ResolveTrace
  <1> QED
    BY <1>4 DEF V, Resolving, Resolve, Leads

\* What the slash at the end does not change, and what is done about it.
LEMMA Trimmed ==
    ASSUME NEW Parts, "/" \notin Parts, NEW dirs \in Seq(Parts), NEW named,
           IsName(named, dirs)
    PROVE  /\ (IF Last(named) = "/" THEN named ELSE Append(named, "/")) = Slashed(dirs)
           /\ (IF Len(named) > 1 /\ Last(named) = "/" THEN Front(named) ELSE named) = Canonical(dirs)
  <1>1. Len(dirs) \in Nat /\ (dirs # <<>> => Len(dirs) > 0)
    OBVIOUS
  <1>2. CASE dirs # <<>> /\ named = Canonical(dirs)
    <2>1. Last(named) # "/"
      BY <1>2, Shapes DEF Last
    <2> QED
      BY <1>2, <2>1, AddSlash
  <1>3. CASE named = Slashed(dirs)
    <2>1. Last(named) = "/" /\ Len(named) = 2 * Len(dirs) + 1
      BY <1>3, Shapes, EndsWithSlash
    <2>2. CASE dirs = <<>>
      <3>1. ~(Len(named) > 1)
        BY <2>1, <2>2
      <3>2. named = Canonical(dirs)
        BY <1>3, <2>2, SlashedRoot
      <3> QED
        BY <1>3, <2>1, <3>1, <3>2, Zenon
    <2>3. CASE dirs # <<>>
      <3>1. Len(named) > 1
        BY <1>1, <2>1, <2>3
      <3> QED
        BY <1>3, <2>1, <2>3, <3>1, AddSlash
    <2> QED
      BY <2>2, <2>3
  <1> QED
    BY <1>2, <1>3 DEF IsName

\* A path from the root leads to the same place without its first slash.
LEMMA CopiesFirst ==
    ASSUME NEW Parts, "/" \notin Parts, ".." \in Parts,
           NEW path \in Seq(Parts \cup {"/"}), Alternates(path),
           NEW n, PathOf(Parts, n, path), NEW D \in [0..n -> Seq(Parts)], D[0] = <<>>, Leads(D, n, path)
    PROVE  IsName(Copy(Root, IF Slash(path) THEN Tail(path) ELSE path), D[n])
  <1>1. /\ n \in Nat /\ Len(path) = n /\ DOMAIN path = 1..n
        /\ \A i \in 1..n : path[i] \in Parts \cup {"/"}
        /\ \A k \in 1..n : D[k] = Enter(D[k - 1], path[k])
    BY DEF PathOf, Leads
  <1>0. n \in Nat
    BY <1>1
  <1>2. Root = Slashed(D[0])
    BY SlashedRoot
  <1>3. CASE ~Slash(path)
    <2>1. n > 0 => path[1] # "/"
      BY <1>1, <1>3 DEF Slash
    <2> QED
      BY <1>1, <1>2, <1>3, <2>1, Copies
  <1>4. CASE Slash(path)
    <2> DEFINE tail == Tail(path)
               m == n - 1
               E == [k \in 0..m |-> D[k + 1]]
    <2>1. n > 0 /\ path[1] = "/" /\ m \in Nat
      BY <1>1, <1>4 DEF Slash
    <2>2. /\ Len(tail) = m /\ DOMAIN tail = 1..m
          /\ \A i \in 1..m : tail[i] = path[i + 1] /\ i + 1 \in 1..n
      BY <1>1, <2>1
    <2> HIDE DEF tail
    <2>3. \A i \in 1..m : tail[i] \in Parts \cup {"/"}
      BY <1>1, <2>2
    <2>4. Alternates(tail)
      <3>1. \A i \in 1..(n - 1) : (path[i] = "/") # (path[i + 1] = "/")
        BY <1>1 DEF Alternates
      <3>2. ASSUME NEW i \in 1..(m - 1) PROVE (tail[i] = "/") # (tail[i + 1] = "/")
        <4>1. i + 1 \in 1..(n - 1) /\ i \in 1..m /\ i + 1 \in 1..m
          BY <2>1
        <4> QED
          BY <2>2, <3>1, <4>1
      <3> QED
        BY <2>2, <3>2 DEF Alternates
    <2>5. m > 0 => tail[1] # "/"
      <3>1. m > 0 => 1 \in 1..(n - 1) /\ 1 \in 1..m
        BY <2>1
      <3> QED
        BY <1>1, <2>1, <2>2, <3>1 DEF Alternates
    <2>6. E \in [0..m -> Seq(Parts)] /\ E[0] = D[1] /\ E[m] = D[n]
      BY <1>1, <2>1
    <2>7. \A k \in 1..m : E[k] = Enter(E[k - 1], tail[k])
      <3>1. ASSUME NEW k \in 1..m PROVE E[k] = Enter(E[k - 1], tail[k])
        <4>1. k + 1 \in 1..n /\ (k + 1) - 1 = k /\ k \in 0..m /\ k - 1 \in 0..m /\ (k - 1) + 1 = k
          BY <2>1, <1>0
        <4>2. D[k + 1] = Enter(D[k], path[k + 1])
          <5>1. \A j \in 1..n : D[j] = Enter(D[j - 1], path[j])
            BY <1>1
          <5>2. D[k + 1] = Enter(D[(k + 1) - 1], path[k + 1])
            BY <4>1, <5>1, Zenon
          <5> QED
            BY <4>1, <5>2
        <4> QED
          BY <2>2, <4>1, <4>2
      <3> QED
        BY <3>1
    <2>8. D[1] = <<>>
      <3>1. D[1] = Enter(D[0], path[1])
        BY <1>1, <2>1
      <3> QED
        BY <2>1, <3>1 DEF Enter
    <2> HIDE DEF E, m
    <2>9. IsName(Copy(Slashed(E[0]), tail), E[m])
      <3>1. PathOf(Parts, m, tail) /\ Leads(E, m, tail)
        BY <2>1, <2>2, <2>3, <2>7 DEF PathOf, Leads
      <3> QED
        BY <2>4, <2>5, <2>6, <3>1, Copies
    <2> QED
      BY <1>2, <1>4, <2>6, <2>8, <2>9 DEF tail
  <1> QED
    BY <1>3, <1>4

\* tf_makename() gives the canonical name of where the directory and then the
\* file name lead, for paths of any length.
THEOREM NamesAreResolved ==
    ASSUME NEW Parts, "/" \notin Parts, ".." \in Parts,
           NEW dir \in Seq(Parts \cup {"/"}), Alternates(dir), NEW filename,
           filename # NULL => filename \in Seq(Parts \cup {"/"}) /\ Alternates(filename)
    PROVE  ChdirIsResolved(dir, filename)
  <1> DEFINE Plain(path) == Copy(Root, IF Slash(path) THEN Tail(path) ELSE path)
             Trim(named) == IF Len(named) > 1 /\ Last(named) = "/" THEN Front(named) ELSE named
  <1>1. ASSUME NEW path \in Seq(Parts \cup {"/"}), Alternates(path)
        PROVE  Trim(Plain(path)) = Canonical(Resolve(path))
    <2> DEFINE n == Len(path)
    <2>1. n \in Nat /\ PathOf(Parts, n, path)
      BY DEF PathOf
    <2> HIDE DEF n
    <2>2. PICK D \in [0..n -> Seq(Parts)] : D[0] = <<>> /\ Leads(D, n, path) /\ Resolve(path) = D[n]
      BY <2>1, Resolves
    <2>3. IsName(Plain(path), D[n])
      BY <1>1, <2>1, <2>2, CopiesFirst
    <2>4. D[n] \in Seq(Parts)
      BY <2>1
    <2> HIDE DEF Plain
    <2> QED
      BY <2>2, <2>3, <2>4, Trimmed
  <1>2. CASE filename = NULL
    <2>1. tf_makename(dir, filename) = Trim(Plain(dir))
      BY <1>2 DEF tf_makename
    <2> QED
      BY <1>1, <1>2, <2>1 DEF ChdirIsResolved
  <1>3. CASE filename # NULL /\ Slash(filename)
    <2>1. tf_makename(dir, filename) = Trim(Plain(filename))
      BY <1>3 DEF tf_makename
    <2> QED
      BY <1>1, <1>3, <2>1 DEF ChdirIsResolved
  <1>4. CASE filename # NULL /\ ~Slash(filename)
    <2> DEFINE l == Len(dir)
               m == Len(filename)
               path == dir \o <<"/">> \o filename
               slashed == IF Last(Plain(dir)) = "/" THEN Plain(dir) ELSE Append(Plain(dir), "/")
               named == Copy(slashed, filename)
    <2>1. tf_makename(dir, filename) = Trim(named)
      BY <1>4 DEF tf_makename
    <2>2. filename \in Seq(Parts \cup {"/"}) /\ Alternates(filename)
      BY <1>4
    <2>3. /\ l \in Nat /\ m \in Nat /\ DOMAIN path = 1..(l + 1 + m) /\ DOMAIN filename = 1..m
          /\ \A i \in 1..l : path[i] = dir[i] /\ dir[i] \in Parts \cup {"/"}
          /\ path[l + 1] = "/"
          /\ \A i \in 1..m : path[l + 1 + i] = filename[i] /\ filename[i] \in Parts \cup {"/"}
      BY <2>2
    <2> HIDE DEF path, l, m
    <2> DEFINE n == l + 1 + m
    <2>4. ASSUME NEW i \in 1..n PROVE path[i] \in Parts \cup {"/"}
      <3>1. CASE i \in 1..l
        BY <2>3, <3>1
      <3>2. CASE i = l + 1
        BY <2>3, <3>2
      <3>3. CASE i > l + 1
        <4>1. i - (l + 1) \in 1..m /\ l + 1 + (i - (l + 1)) = i
          BY <2>3, <3>3
        <4> QED
          BY <2>3, <4>1
      <3> QED
        BY <2>3, <3>1, <3>2, <3>3
    <2>5. PathOf(Parts, n, path)
      <3>1. Len(path) = n
        BY <2>2, <2>3 DEF path, l, m
      <3> QED
        BY <2>3, <2>4, <3>1 DEF PathOf
    <2>6. PICK D \in [0..n -> Seq(Parts)] : D[0] = <<>> /\ Leads(D, n, path) /\ Resolve(path) = D[n]
      <3> HIDE DEF n
      <3> QED
        BY <2>5, Resolves
    <2>7. \A k \in 1..n : D[k] = Enter(D[k - 1], path[k])
      BY <2>6 DEF Leads
    <2>8. slashed = Slashed(D[l]) /\ D[l] \in Seq(Parts)
      <3> DEFINE E == [k \in 0..l |-> D[k]]
      <3>1. E \in [0..l -> Seq(Parts)] /\ E[0] = <<>> /\ E[l] = D[l]
        BY <2>3, <2>6
      <3>2. ASSUME NEW k \in 1..l PROVE E[k] = Enter(E[k - 1], dir[k])
        <4>1. k \in 1..(l + 1 + m) /\ k \in 0..l /\ k - 1 \in 0..l
          BY <2>3
        <4>2. D[k] = Enter(D[k - 1], path[k])
          BY <2>7, <4>1
        <4> QED
          BY <2>3, <4>1, <4>2
      <3> HIDE DEF E
      <3>3. IsName(Plain(dir), E[l])
        <4>1. PathOf(Parts, l, dir) /\ Leads(E, l, dir)
          BY <2>3, <3>2 DEF PathOf, Leads, l
        <4> QED
          BY <3>1, <4>1, CopiesFirst
      <3>4. E[l] \in Seq(Parts)
        BY <2>3, <3>1
      <3> HIDE DEF Plain
      <3> QED
        BY <3>1, <3>3, <3>4, Trimmed
    <2>9. D[l + 1] = D[l]
      <3>1. l + 1 \in 1..(l + 1 + m) /\ (l + 1) - 1 = l
        BY <2>3
      <3>2. D[l + 1] = Enter(D[l], path[l + 1])
        BY <2>7, <3>1
      <3> QED
        BY <2>3, <3>2 DEF Enter
    <2>10. IsName(named, D[n])
      <3> DEFINE E == [k \in 0..m |-> D[l + 1 + k]]
      <3>1. E \in [0..m -> Seq(Parts)] /\ E[0] = D[l] /\ E[m] = D[n]
        BY <2>3, <2>9
      <3>2. ASSUME NEW k \in 1..m PROVE E[k] = Enter(E[k - 1], filename[k])
        <4>1. /\ l + 1 + k \in 1..(l + 1 + m) /\ (l + 1 + k) - 1 = l + 1 + (k - 1)
              /\ k \in 0..m /\ k - 1 \in 0..m
          BY <2>3
        <4>2. D[l + 1 + k] = Enter(D[l + 1 + (k - 1)], path[l + 1 + k])
          BY <2>7, <4>1
        <4> QED
          BY <2>3, <4>1, <4>2
      <3>3. m > 0 => filename[1] # "/"
        BY <1>4, <2>2, <2>3 DEF Slash, m
      <3>4. Len(filename) = m /\ \A i \in 1..m : filename[i] \in Parts \cup {"/"}
        BY <2>3 DEF m
      <3> HIDE DEF E, slashed
      <3>5. PathOf(Parts, m, filename) /\ Leads(E, m, filename)
        BY <2>3, <3>2, <3>4 DEF PathOf, Leads
      <3>6. IsName(Copy(Slashed(E[0]), filename), E[m])
        BY <2>2, <3>1, <3>3, <3>5, Copies
      <3> QED
        BY <2>8, <3>1, <3>6
    <2>11. D[n] \in Seq(Parts)
      BY <2>3
    <2>12. Trim(named) = Canonical(D[n])
      <3> HIDE DEF named
      <3> QED
        BY <2>10, <2>11, Trimmed
    <2> QED
      BY <1>4, <2>1, <2>6, <2>12 DEF ChdirIsResolved, path
  <1> QED
    BY <1>2, <1>3, <1>4

-----------------------------------------------------------------------------
(* Parts of sequences.                                                     *)

\* What stands where in two sequences, one after the other.
LEMMA Joined ==
    ASSUME NEW S, NEW a \in Seq(S), NEW b \in Seq(S)
    PROVE  /\ a \o b \in Seq(S) /\ Len(a \o b) = Len(a) + Len(b)
           /\ \A i \in 1..Len(a) : (a \o b)[i] = a[i]
           /\ \A i \in 1..Len(b) : (a \o b)[Len(a) + i] = b[i]
  <1>1. Len(a) \in Nat /\ Len(b) \in Nat
    OBVIOUS
  <1>2. /\ a \o b \in Seq(S) /\ Len(a \o b) = Len(a) + Len(b)
        /\ \A i \in 1..(Len(a) + Len(b)) : (a \o b)[i] = IF i <= Len(a) THEN a[i] ELSE b[i - Len(a)]
    BY ConcatProperties
  <1>3. \A i \in 1..Len(a) : i \in 1..(Len(a) + Len(b)) /\ i <= Len(a)
    BY <1>1
  <1>4. \A i \in 1..Len(b) : /\ Len(a) + i \in 1..(Len(a) + Len(b))
                             /\ ~(Len(a) + i <= Len(a)) /\ Len(a) + i - Len(a) = i
    BY <1>1
  <1> QED
    BY <1>2, <1>3, <1>4

\* What stands where in a part of a sequence.
LEMMA PartOf ==
    ASSUME NEW S, NEW p \in Seq(S), NEW at \in Nat, NEW n \in Nat, at + n <= Len(p)
    PROVE  /\ Bytes(p, at, n) \in Seq(S) /\ Len(Bytes(p, at, n)) = n
           /\ \A i \in 1..n : Bytes(p, at, n)[i] = p[at + i]
  <1>1. Len(p) \in Nat /\ \A i \in 1..Len(p) : p[i] \in S
    OBVIOUS
  <1>2. at + 1 \in Int /\ at + n \in Int /\ \A i \in (at + 1)..(at + n) : p[i] \in S
    BY <1>1
  <1>3. /\ Bytes(p, at, n) \in Seq(S)
        /\ Len(Bytes(p, at, n)) = IF at + 1 <= at + n THEN at + n - (at + 1) + 1 ELSE 0
        /\ \A i \in 1..(at + n - (at + 1) + 1) : Bytes(p, at, n)[i] = p[at + 1 + i - 1]
    BY <1>2, SubSeqProperties DEF Bytes
  <1>4. /\ at + n - (at + 1) + 1 = n /\ \A i \in 1..n : at + 1 + i - 1 = at + i
        /\ n = IF at + 1 <= at + n THEN at + n - (at + 1) + 1 ELSE 0
    OBVIOUS
  <1> QED
    BY <1>3, <1>4

\* Sequences of one length with the same elements are the same.
LEMMA SameBytes ==
    ASSUME NEW S, NEW a \in Seq(S), NEW b \in Seq(S), Len(a) = Len(b),
           \A i \in 1..Len(a) : a[i] = b[i]
    PROVE  a = b
  BY SeqEqual

-----------------------------------------------------------------------------
(* Numbers and their bytes.                                                *)

Byte == 0..255

\* What put() does for one byte.
Peel(s) == [left |-> s.left \div 256, out |-> Append(s.out, s.left % 256)]

\* R is the states of put() after each byte.
Peeling(R, n, val) ==
    /\ R[0] = [left |-> val, out |-> <<>>]
    /\ \A k \in 1..n : R[k] = Peel(R[k - 1])
    /\ put(n, val) = Reverse(R[n].out)

\* put() goes from byte to byte.
LEMMA PutTrace ==
    ASSUME NEW n \in Nat, NEW val \in Nat
    PROVE  \E R \in [0..n -> [left: Nat, out: Seq(Byte)]] : Peeling(R, n, val)
  <1> DEFINE V == [left: Nat, out: Seq(Byte)]
             base == [left |-> val, out |-> <<>>]
             g == [x \in (1..n) \X V |-> Peel(x[2])]
             S == DOMAIN [i \in 1..n |-> i]
             Rec(f) == f = [s \in SUBSET S |->
                               IF s = {} THEN base ELSE Peel(f[s \ {Max(s)}])]
             f == CHOOSE f : Rec(f)
  <1>0. S = 1..n
    OBVIOUS
  <1>1. g \in [(1..n) \X V -> V] /\ \A k \in 1..n, s \in V : g[<<k, s>>] = Peel(s)
    <2>1. \A s \in V : Peel(s) \in V
      <3>1. \A x \in Nat : x \div 256 \in Nat /\ x % 256 \in Byte
        BY DEF Byte
      <3> QED
        BY <3>1 DEF Peel
    <2> HIDE DEF V
    <2> QED
      BY <2>1
  <1>1a. base \in V
    OBVIOUS
  <1> HIDE DEF g, V, base
  <1>2. PICK h \in [SUBSET (1..n) -> V] : Folds(h, n, g, base)
    BY <1>1, <1>1a, FoldExists
  <1> HIDE DEF S
  <1>3. Rec(h)
    <2>1. ASSUME NEW s \in SUBSET (1..n), s # {}
          PROVE  g[<<Max(s), h[s \ {Max(s)}]>>] = Peel(h[s \ {Max(s)}])
      <3>1. Max(s) \in 1..n /\ s \ {Max(s)} \in SUBSET (1..n)
        BY <2>1, LastOf
      <3> QED
        BY <1>1, <1>2, <3>1
    <2> QED
      BY <1>0, <1>2, <2>1 DEF Folds
  <1>4. Rec(f)
    <2> HIDE DEF Rec
    <2> QED
      BY <1>3
  <1>5. put(n, val) = Reverse(f[S].out)
    BY DEF put, FoldLeft, MapThenFoldSet, S, base, Peel
  <1> HIDE DEF f
  <1>6. f[{}] = base
    BY <1>4
  <1>7. ASSUME NEW k \in 1..n, f[1..(k - 1)] \in V PROVE f[1..k] = g[<<k, f[1..(k - 1)]>>]
    <2>1. /\ 1..k \in SUBSET (1..n) /\ 1..k # {} /\ Max(1..k) = k
          /\ (1..k) \ {k} = 1..(k - 1)
      BY FirstPlaces
    <2>2. \A s \in SUBSET (1..n) : s # {} => f[s] = Peel(f[s \ {Max(s)}])
      BY <1>0, <1>4
    <2>3. f[1..k] = Peel(f[(1..k) \ {k}])
      BY <2>1, <2>2
    <2> QED
      BY <1>1, <1>7, <2>1, <2>3
  <1>8. Follow(f, V, n, g, base)
    BY <1>6, <1>7 DEF Follow
  <1>9. Ends(f[1..n], V, n, g, base)
    BY <1>1, <1>1a, <1>8, FoldGoes
  <1>10. PICK R \in [0..n -> V] : Goes(R, n, g, base) /\ f[1..n] = R[n]
    BY <1>9 DEF Ends
  <1>11. \A k \in 1..n : R[k] = Peel(R[k - 1])
    <2> TAKE k \in 1..n
    <2>1. k - 1 \in 0..n
      OBVIOUS
    <2>2. R[k - 1] \in V
      BY <2>1
    <2> QED
      BY <1>1, <1>10, <2>2 DEF Goes
  <1>12. Peeling(R, n, val)
    BY <1>0, <1>5, <1>10, <1>11 DEF Peeling, Goes, base
  <1> QED
    BY <1>10, <1>12 DEF V

\* R is the values that get() has after each byte.
Adding(R, n, bytes) ==
    /\ R[0] = 0
    /\ \A k \in 1..n : R[k] = R[k - 1] * 256 + bytes[k]
    /\ get(bytes) = R[n]

\* get() goes from byte to byte.
LEMMA GetTrace ==
    ASSUME NEW n \in Nat, NEW bytes \in [1..n -> Byte]
    PROVE  \E R \in [0..n -> Nat] : Adding(R, n, bytes)
  <1> DEFINE g == [x \in (1..n) \X Nat |-> x[2] * 256 + bytes[x[1]]]
             Rec(f) == f = [s \in SUBSET (1..n) |->
                               IF s = {} THEN 0 ELSE f[s \ {Max(s)}] * 256 + bytes[Max(s)]]
             f == CHOOSE f : Rec(f)
  <1>1. g \in [(1..n) \X Nat -> Nat] /\ \A k \in 1..n, s \in Nat : g[<<k, s>>] = s * 256 + bytes[k]
    <2>1. ASSUME NEW k \in 1..n, NEW s \in Nat PROVE s * 256 + bytes[k] \in Nat
      <3>1. bytes[k] \in Byte
        OBVIOUS
      <3>2. \A b \in Byte : s * 256 + b \in Nat
        BY DEF Byte
      <3> QED
        BY <3>1, <3>2
    <2> QED
      BY <2>1
  <1> HIDE DEF g
  <1>2. PICK h \in [SUBSET (1..n) -> Nat] : Folds(h, n, g, 0)
    BY <1>1, FoldExists
  <1>3. Rec(h)
    <2>1. ASSUME NEW s \in SUBSET (1..n), s # {}
          PROVE  g[<<Max(s), h[s \ {Max(s)}]>>] = h[s \ {Max(s)}] * 256 + bytes[Max(s)]
      <3>1. Max(s) \in 1..n /\ s \ {Max(s)} \in SUBSET (1..n)
        BY <2>1, LastOf
      <3>2. h[s \ {Max(s)}] \in Nat
        BY <3>1
      <3> QED
        BY <1>1, <3>1, <3>2
    <2> QED
      BY <1>2, <2>1 DEF Folds
  <1>4. Rec(f)
    <2> HIDE DEF Rec
    <2> QED
      BY <1>3
  <1>5. get(bytes) = f[1..n]
    <2>1. DOMAIN bytes = 1..n
      OBVIOUS
    <2> QED
      BY <2>1 DEF get, FoldLeft, MapThenFoldSet
  <1> HIDE DEF f
  <1>6. f[{}] = 0
    BY <1>4
  <1>7. ASSUME NEW k \in 1..n, f[1..(k - 1)] \in Nat PROVE f[1..k] = g[<<k, f[1..(k - 1)]>>]
    <2>1. /\ 1..k \in SUBSET (1..n) /\ 1..k # {} /\ Max(1..k) = k
          /\ (1..k) \ {k} = 1..(k - 1)
      BY FirstPlaces
    <2>2. \A s \in SUBSET (1..n) : s # {} => f[s] = f[s \ {Max(s)}] * 256 + bytes[Max(s)]
      BY <1>4
    <2>3. f[1..k] = f[(1..k) \ {k}] * 256 + bytes[k]
      BY <2>1, <2>2
    <2>4. f[1..k] = f[1..(k - 1)] * 256 + bytes[k]
      BY <2>1, <2>3
    <2>5. g[<<k, f[1..(k - 1)]>>] = f[1..(k - 1)] * 256 + bytes[k]
      BY <1>1, <1>7
    <2> QED
      BY <2>4, <2>5
  <1>8. Follow(f, Nat, n, g, 0)
    BY <1>6, <1>7 DEF Follow
  <1>9. Ends(f[1..n], Nat, n, g, 0)
    BY <1>1, <1>8, FoldGoes
  <1>10. PICK R \in [0..n -> Nat] : Goes(R, n, g, 0) /\ f[1..n] = R[n]
    BY <1>9 DEF Ends
  <1>11. \A k \in 1..n : R[k] = R[k - 1] * 256 + bytes[k]
    <2> TAKE k \in 1..n
    <2>1. k - 1 \in 0..n
      OBVIOUS
    <2>2. R[k - 1] \in Nat
      BY <2>1
    <2> QED
      BY <1>1, <1>10, <2>2 DEF Goes
  <1>12. Adding(R, n, bytes)
    BY <1>5, <1>10, <1>11 DEF Adding, Goes
  <1> QED
    BY <1>10, <1>12

\* What is left of val after each of its bytes has been put.
Lefts(L, n, val) ==
    /\ L \in [0..n -> Nat] /\ L[0] = val
    /\ \A k \in 1..n : L[k] = L[k - 1] \div 256

\* L is what is left of the value, and its last bytes are what is put.
Digits(L, n, val) ==
    Lefts(L, n, val) /\ \A i \in 1..n : put(n, val)[i] = L[n - i] % 256

\* The bytes that put() puts, from the last to the first.
LEMMA PutBytes ==
    ASSUME NEW n \in Nat, NEW val \in Nat
    PROVE  /\ put(n, val) \in Seq(Byte) /\ Len(put(n, val)) = n
           /\ \E L : Digits(L, n, val)
  <1>1. PICK R \in [0..n -> [left: Nat, out: Seq(Byte)]] : Peeling(R, n, val)
    BY PutTrace
  <1> DEFINE L == [k \in 0..n |-> R[k].left]
             Good == {k \in 0..n : Len(R[k].out) = k /\ \A i \in 1..k : R[k].out[i] = L[i - 1] % 256}
  <1>2. R[0] = [left |-> val, out |-> <<>>] /\ put(n, val) = Reverse(R[n].out)
    BY <1>1 DEF Peeling
  <1>2a. ASSUME NEW k \in 1..n
         PROVE  /\ R[k].left = R[k - 1].left \div 256
                /\ R[k].out = Append(R[k - 1].out, R[k - 1].left % 256)
    <2> DEFINE s == R[k - 1]
    <2>1. R[k] = Peel(s)
      BY <1>1 DEF Peeling
    <2>2. Peel(s) = [left |-> s.left \div 256, out |-> Append(s.out, s.left % 256)]
      BY DEF Peel
    <2> HIDE DEF s
    <2>3. R[k].left = s.left \div 256 /\ R[k].out = Append(s.out, s.left % 256)
      BY <2>1, <2>2
    <2> QED
      BY <2>3 DEF s
  <1>3. Lefts(L, n, val)
    <2>1. ASSUME NEW k \in 1..n PROVE L[k] = L[k - 1] \div 256
      <3>1. k \in 0..n /\ k - 1 \in 0..n
        OBVIOUS
      <3>2. L[k] = R[k].left /\ L[k - 1] = R[k - 1].left
        BY <3>1
      <3> QED
        BY <1>2a, <3>2
    <2>2. L \in [0..n -> Nat] /\ L[0] = val
      BY <1>2
    <2> QED
      BY <2>1, <2>2 DEF Lefts
  <1>4. 0 \in Good
    BY <1>2
  <1>5. ASSUME NEW k \in 1..n, k - 1 \in Good PROVE k \in Good
    <2>1. k \in 0..n /\ k - 1 \in 0..n /\ L[k - 1] = R[k - 1].left
      OBVIOUS
    <2> DEFINE o == R[k - 1].out
               b == L[k - 1] % 256
    <2>2. o \in Seq(Byte) /\ Len(o) = k - 1 /\ \A i \in 1..(k - 1) : o[i] = L[i - 1] % 256
      BY <1>5, <2>1
    <2>3. R[k].out = Append(o, b)
      <3>1. R[k].out = Append(R[k - 1].out, R[k - 1].left % 256)
        BY <1>2a
      <3> QED
        BY <2>1, <3>1
    <2> HIDE DEF o, b
    <2>4. Len(Append(o, b)) = k /\ Append(o, b)[k] = b /\ \A i \in 1..(k - 1) : Append(o, b)[i] = o[i]
      <3>1. o \in Seq(Byte) /\ Len(o) = k - 1
        BY <2>2
      <3> HIDE DEF Good
      <3> QED
        BY <3>1
    <2>5. \A i \in 1..k : i = k \/ i \in 1..(k - 1)
      OBVIOUS
    <2>6. b = L[k - 1] % 256
      BY DEF b
    <2> HIDE DEF L
    <2>7. \A i \in 1..k : Append(o, b)[i] = L[i - 1] % 256
      <3> TAKE i \in 1..k
      <3>1. CASE i = k
        BY <2>4, <2>6, <3>1
      <3>2. CASE i \in 1..(k - 1)
        BY <2>2, <2>4, <3>2
      <3> QED
        BY <2>5, <3>1, <3>2
    <2> DEFINE r == R[k].out
               a == Append(o, b)
    <2>8. r = a /\ Len(a) = k /\ \A i \in 1..k : a[i] = L[i - 1] % 256
      BY <2>3, <2>4, <2>7
    <2> HIDE DEF a, r
    <2>9. Len(r) = k /\ \A i \in 1..k : r[i] = L[i - 1] % 256
      BY <2>8, Zenon
    <2> QED
      BY <2>1, <2>9 DEF r
  <1>6. 0..n \subseteq Good
    <2> HIDE DEF Good
    <2> QED
      BY <1>4, <1>5, UpTo
  <1> DEFINE o == R[n].out
  <1>7. o \in Seq(Byte) /\ Len(o) = n /\ \A i \in 1..n : o[i] = L[i - 1] % 256
    <2>1. n \in 0..n
      OBVIOUS
    <2> QED
      BY <1>6, <2>1
  <1> HIDE DEF o, L
  <1>8. put(n, val) = [i \in 1..n |-> o[n - i + 1]]
    BY <1>2, <1>7 DEF Reverse, o
  <1>9. \A i \in 1..n : n - i + 1 \in 1..n /\ o[n - i + 1] = L[n - i] % 256 /\ o[n - i + 1] \in Byte
    <2> TAKE i \in 1..n
    <2>1. n - i + 1 \in 1..n /\ n - i + 1 - 1 = n - i
      OBVIOUS
    <2> QED
      BY <1>7, <2>1
  <1>10. put(n, val) \in [1..n -> Byte]
    BY <1>8, <1>9
  <1>11. put(n, val) \in Seq(Byte) /\ Len(put(n, val)) = n
    <2> HIDE <1>8
    <2> QED
      BY <1>10
  <1>12. \A i \in 1..n : put(n, val)[i] = L[n - i] % 256
    BY <1>8, <1>9
  <1>13. Digits(L, n, val)
    BY <1>3, <1>12 DEF Digits
  <1> QED
    BY <1>11, <1>13

\* put() puts as many bytes as it should.
LEMMA PutLength ==
    ASSUME NEW n \in Nat, NEW val \in Nat
    PROVE  put(n, val) \in Seq(Byte) /\ Len(put(n, val)) = n
  BY PutBytes

\* put() puts the digits of the value.
LEMMA PutDigits ==
    ASSUME NEW n \in Nat, NEW val \in Nat
    PROVE  \E L : Digits(L, n, val)
  BY PutBytes

\* get() brings back what put() put, if nothing of it was left.
LEMMA PutGet ==
    ASSUME NEW n \in Nat, NEW val \in Nat, \A L : Lefts(L, n, val) => L[n] = 0
    PROVE  get(put(n, val)) = val
  <1>0. PICK L : Digits(L, n, val)
    BY PutDigits
  <1>1. Lefts(L, n, val) /\ \A i \in 1..n : put(n, val)[i] = L[n - i] % 256
    BY <1>0 DEF Digits
  <1>2. put(n, val) \in [1..n -> Byte]
    BY PutLength
  <1> DEFINE p == put(n, val)
  <1> HIDE DEF p
  <1>3. PICK R \in [0..n -> Nat] : Adding(R, n, p)
    BY <1>2, GetTrace DEF p
  <1> DEFINE Good == {k \in 0..n : R[k] = L[n - k]}
  <1>4. 0 \in Good
    BY <1>1, <1>3 DEF Adding
  <1>5. ASSUME NEW k \in 1..n, k - 1 \in Good PROVE k \in Good
    <2>1. k \in 0..n /\ n - k \in 0..n /\ n - k + 1 \in 1..n /\ n - (k - 1) = n - k + 1 /\ n - k + 1 - 1 = n - k
      OBVIOUS
    <2>2. R[k] = L[n - k + 1] * 256 + (L[n - k] % 256)
      <3>1. R[k] = R[k - 1] * 256 + p[k]
        BY <1>3 DEF Adding
      <3>2. p[k] = L[n - k] % 256
        BY <1>1 DEF p
      <3>3. R[k - 1] = L[n - k + 1]
        BY <1>5, <2>1
      <3> QED
        BY <3>1, <3>2, <3>3
    <2>3. L[n - k + 1] = L[n - k] \div 256 /\ L[n - k] \in Nat
      BY <1>1, <2>1 DEF Lefts
    <2>4. \A x \in Nat : (x \div 256) * 256 + (x % 256) = x
      OBVIOUS
    <2>5. R[k] = L[n - k]
      BY <2>2, <2>3, <2>4
    <2> QED
      BY <2>1, <2>5
  <1>6. 0..n \subseteq Good
    <2> HIDE DEF Good
    <2> QED
      BY <1>4, <1>5, UpTo
  <1>7. R[n] = L[0] /\ L[0] = val
    <2>1. n \in 0..n /\ n - n = 0
      OBVIOUS
    <2> QED
      BY <1>1, <1>6, <2>1 DEF Lefts
  <1> QED
    BY <1>3, <1>7 DEF Adding, p

\* A number that n bytes can say.
Says(n, val) ==
    val \in Nat /\ val < (CASE n = 2 -> 65536 [] n = 4 -> 4294967296 [] n = 8 -> 18446744073709551616)

\* Two, four and eight bytes.
LEMMA NumberComesBack ==
    ASSUME NEW n \in {2, 4, 8}, NEW val, Says(n, val)
    PROVE  get(put(n, val)) = val
  <1>1. val \in Nat
    BY DEF Says
  <1> SUFFICES ASSUME NEW L, Lefts(L, n, val) PROVE L[n] = 0
    BY <1>1, PutGet
  <1>2. \A k \in 0..n : L[k] \in Nat
    BY DEF Lefts
  <1>3. \A k \in 0..(n - 1) : L[k + 1] = L[k] \div 256
    <2> TAKE k \in 0..(n - 1)
    <2>1. k + 1 \in 1..n /\ k + 1 - 1 = k
      OBVIOUS
    <2> QED
      BY <2>1 DEF Lefts
  <1>4. L[0] = val
    BY DEF Lefts
  <1>5. CASE n = 2
    BY <1>2, <1>3, <1>4, <1>5 DEF Says
  <1>6. CASE n = 4
    <2>1. L[0] \in Nat /\ L[0] < 4294967296
      BY <1>4, <1>6 DEF Says
    <2>2. L[1] = L[0] \div 256 /\ L[2] = L[1] \div 256 /\ L[3] = L[2] \div 256 /\ L[4] = L[3] \div 256
      BY <1>3, <1>6
    <2> QED
      BY <2>1, <2>2, <1>6
  <1>7. CASE n = 8
    <2>1. L[0] \in Nat /\ L[0] < 18446744073709551616
      BY <1>4, <1>7 DEF Says
    <2>2. L[1] = L[0] \div 256 /\ L[2] = L[1] \div 256 /\ L[3] = L[2] \div 256 /\ L[4] = L[3] \div 256
      BY <1>3, <1>7
    <2>3. L[5] = L[4] \div 256 /\ L[6] = L[5] \div 256 /\ L[7] = L[6] \div 256 /\ L[8] = L[7] \div 256
      BY <1>3, <1>7
    <2>4. L[4] \in Nat /\ L[4] < 4294967296
      BY <2>1, <2>2
    <2> QED
      BY <2>3, <2>4, <1>7
  <1> QED
    BY <1>5, <1>6, <1>7

-----------------------------------------------------------------------------
(* The bits of a byte, and the table of crc16.c.                           *)

\* The bits of a byte, one by one.
LEMMA BitValues ==
    /\ Bit(0) = 1 /\ Bit(1) = 2 /\ Bit(2) = 4 /\ Bit(3) = 8
    /\ Bit(4) = 16 /\ Bit(5) = 32 /\ Bit(6) = 64 /\ Bit(7) = 128
  BY DEF Bit

\* Whether a byte has a bit.
LEMMA BitsAre ==
    ASSUME NEW b \in Byte
    PROVE  /\ BitsOf[b] \in SUBSET (0..7)
           /\ 0 \in BitsOf[b] <=> b % 2 = 1
           /\ 1 \in BitsOf[b] <=> (b \div 2) % 2 = 1
           /\ 2 \in BitsOf[b] <=> (b \div 4) % 2 = 1
           /\ 3 \in BitsOf[b] <=> (b \div 8) % 2 = 1
           /\ 4 \in BitsOf[b] <=> (b \div 16) % 2 = 1
           /\ 5 \in BitsOf[b] <=> (b \div 32) % 2 = 1
           /\ 6 \in BitsOf[b] <=> (b \div 64) % 2 = 1
           /\ 7 \in BitsOf[b] <=> (b \div 128) % 2 = 1
  <1>1. BitsOf[b] = {i \in 0..7 : (b \div Bit(i)) % 2 = 1}
    BY DEF BitsOf, Byte
  <1>2. \A i \in 0..7 : i \in BitsOf[b] <=> (b \div Bit(i)) % 2 = 1
    BY <1>1
  <1>3. b \div 1 = b
    BY DEF Byte
  <1>4. BitsOf[b] \in SUBSET (0..7)
    BY <1>1
  <1>5. 0 \in 0..7 /\ 1 \in 0..7 /\ 2 \in 0..7 /\ 3 \in 0..7 /\ 4 \in 0..7 /\ 5 \in 0..7 /\ 6 \in 0..7 /\ 7 \in 0..7
    OBVIOUS
  <1> QED
    BY <1>2, <1>3, <1>4, <1>5, BitValues

\* A byte is the sum of its bits.
LEMMA SumOfBits ==
    ASSUME NEW b \in Byte
    PROVE  b = (b % 2) + 2 * ((b \div 2) % 2) + 4 * ((b \div 4) % 2) + 8 * ((b \div 8) % 2)
                + 16 * ((b \div 16) % 2) + 32 * ((b \div 32) % 2) + 64 * ((b \div 64) % 2)
                + 128 * ((b \div 128) % 2)
  BY DEF Byte

\* Bytes with the same bits are the same.
LEMMA BitsTell ==
    ASSUME NEW a \in Byte, NEW b \in Byte, BitsOf[a] = BitsOf[b]
    PROVE  a = b
  <1>1. \A x \in Nat : x % 2 = 0 \/ x % 2 = 1
    OBVIOUS
  <1>2. a \in Nat /\ b \in Nat
    BY DEF Byte
  <1>3. a % 2 = b % 2
    BY <1>1, <1>2, BitsAre
  <1>4. (a \div 2) % 2 = (b \div 2) % 2 /\ (a \div 4) % 2 = (b \div 4) % 2 /\ (a \div 8) % 2 = (b \div 8) % 2
    <2>1. a \div 2 \in Nat /\ b \div 2 \in Nat /\ a \div 4 \in Nat /\ b \div 4 \in Nat /\ a \div 8 \in Nat /\ b \div 8 \in Nat
      BY <1>2
    <2> QED
      BY <1>1, <2>1, BitsAre
  <1>5. (a \div 16) % 2 = (b \div 16) % 2 /\ (a \div 32) % 2 = (b \div 32) % 2
    <2>1. a \div 16 \in Nat /\ b \div 16 \in Nat /\ a \div 32 \in Nat /\ b \div 32 \in Nat
      BY <1>2
    <2> QED
      BY <1>1, <2>1, BitsAre
  <1>6. (a \div 64) % 2 = (b \div 64) % 2 /\ (a \div 128) % 2 = (b \div 128) % 2
    <2>1. a \div 64 \in Nat /\ b \div 64 \in Nat /\ a \div 128 \in Nat /\ b \div 128 \in Nat
      BY <1>2
    <2> QED
      BY <1>1, <2>1, BitsAre
  <1>7. a = (a % 2) + 2 * ((a \div 2) % 2) + 4 * ((a \div 4) % 2) + 8 * ((a \div 8) % 2)
                + 16 * ((a \div 16) % 2) + 32 * ((a \div 32) % 2) + 64 * ((a \div 64) % 2)
                + 128 * ((a \div 128) % 2)
    BY SumOfBits
  <1>8. b = (b % 2) + 2 * ((b \div 2) % 2) + 4 * ((b \div 4) % 2) + 8 * ((b \div 8) % 2)
                + 16 * ((b \div 16) % 2) + 32 * ((b \div 32) % 2) + 64 * ((b \div 64) % 2)
                + 128 * ((b \div 128) % 2)
    BY SumOfBits
  <1> QED
    BY <1>3, <1>4, <1>5, <1>6, <1>7, <1>8

\* There is a byte for every set of bits.
LEMMA ByteHasBits ==
    ASSUME NEW s \in SUBSET (0..7)
    PROVE  ByteOf[s] \in Byte /\ BitsOf[ByteOf[s]] = s
  <1> DEFINE x(i) == IF i \in s THEN 1 ELSE 0
             b == x(0) + 2 * x(1) + 4 * x(2) + 8 * x(3) + 16 * x(4) + 32 * x(5) + 64 * x(6) + 128 * x(7)
  <1>1. b \in Byte
    BY DEF Byte
  <1>2. /\ b % 2 = x(0) /\ (b \div 2) % 2 = x(1) /\ (b \div 4) % 2 = x(2) /\ (b \div 8) % 2 = x(3)
        /\ (b \div 16) % 2 = x(4) /\ (b \div 32) % 2 = x(5) /\ (b \div 64) % 2 = x(6) /\ (b \div 128) % 2 = x(7)
    <2>1. \A x0, x1, x2, x3, x4, x5, x6, x7 \in {0, 1} :
            LET y == x0 + 2 * x1 + 4 * x2 + 8 * x3 + 16 * x4 + 32 * x5 + 64 * x6 + 128 * x7
            IN  /\ y % 2 = x0 /\ (y \div 2) % 2 = x1 /\ (y \div 4) % 2 = x2 /\ (y \div 8) % 2 = x3
                /\ (y \div 16) % 2 = x4 /\ (y \div 32) % 2 = x5 /\ (y \div 64) % 2 = x6 /\ (y \div 128) % 2 = x7
      OBVIOUS
    <2>2. \A i \in 0..7 : x(i) \in {0, 1}
      OBVIOUS
    <2> QED
      BY <2>1, <2>2
  <1>3. \A i \in 0..7 : x(i) = 1 <=> i \in s
    OBVIOUS
  <1> HIDE DEF b, x
  <1>4. /\ 0 \in BitsOf[b] <=> 0 \in s
        /\ 1 \in BitsOf[b] <=> 1 \in s
        /\ 2 \in BitsOf[b] <=> 2 \in s
        /\ 3 \in BitsOf[b] <=> 3 \in s
        /\ 4 \in BitsOf[b] <=> 4 \in s
        /\ 5 \in BitsOf[b] <=> 5 \in s
        /\ 6 \in BitsOf[b] <=> 6 \in s
        /\ 7 \in BitsOf[b] <=> 7 \in s
    BY <1>1, <1>2, <1>3, BitsAre
  <1>5. \A i \in 0..7 : i \in BitsOf[b] <=> i \in s
    <2>1. \A i \in 0..7 : i \in {0, 1, 2, 3, 4, 5, 6, 7}
      OBVIOUS
    <2> QED
      BY <1>4, <2>1
  <1>6. BitsOf[b] = s
    <2>1. BitsOf[b] \in SUBSET (0..7)
      BY <1>1, BitsAre
    <2> QED
      BY <1>5, <2>1
  <1>7. ByteOf[s] = CHOOSE c \in Byte : BitsOf[c] = s
    BY DEF ByteOf, Byte
  <1> QED
    BY <1>1, <1>6, <1>7

\* The bits of s whose entries have bit j.
Having(s, j) == {i \in s : j \in PowerEntry[i + 1]}

\* Of the upper bits of the table, each belongs to two neighbours, and two to
\* all bits, or all but the last.
LEMMA UpperEntries ==
    ASSUME NEW s \in SUBSET (0..7)
    PROVE  /\ Having(s, 8) = s \cap {1, 2} /\ Having(s, 9) = s \cap {2, 3}
           /\ Having(s, 10) = s \cap {3, 4} /\ Having(s, 11) = s \cap {4, 5}
           /\ Having(s, 12) = s \cap {5, 6} /\ Having(s, 13) = s \cap {6, 7}
           /\ Having(s, 14) = s \ {7} /\ Having(s, 15) = s
  <1>1. /\ PowerEntry[1] = {0, 6, 7, 14, 15} /\ PowerEntry[2] = {0, 7, 8, 14, 15}
        /\ PowerEntry[3] = {0, 8, 9, 14, 15} /\ PowerEntry[4] = {0, 9, 10, 14, 15}
        /\ PowerEntry[5] = {0, 10, 11, 14, 15} /\ PowerEntry[6] = {0, 11, 12, 14, 15}
        /\ PowerEntry[7] = {0, 12, 13, 14, 15} /\ PowerEntry[8] = {0, 13, 15}
    BY DEF PowerEntry
  <1>2. \A i \in s : i \in {0, 1, 2, 3, 4, 5, 6, 7}
    OBVIOUS
  <1>3. /\ 0 + 1 = 1 /\ 1 + 1 = 2 /\ 2 + 1 = 3 /\ 3 + 1 = 4
        /\ 4 + 1 = 5 /\ 5 + 1 = 6 /\ 6 + 1 = 7 /\ 7 + 1 = 8
    OBVIOUS
  <1>4. \A i \in s : 8 \in PowerEntry[i + 1] <=> i \in {1, 2}
    BY <1>1, <1>2, <1>3
  <1>5. \A i \in s : 9 \in PowerEntry[i + 1] <=> i \in {2, 3}
    BY <1>1, <1>2, <1>3
  <1>6. \A i \in s : 10 \in PowerEntry[i + 1] <=> i \in {3, 4}
    BY <1>1, <1>2, <1>3
  <1>7. \A i \in s : 11 \in PowerEntry[i + 1] <=> i \in {4, 5}
    BY <1>1, <1>2, <1>3
  <1>8. \A i \in s : 12 \in PowerEntry[i + 1] <=> i \in {5, 6}
    BY <1>1, <1>2, <1>3
  <1>9. \A i \in s : 13 \in PowerEntry[i + 1] <=> i \in {6, 7}
    BY <1>1, <1>2, <1>3
  <1>10. \A i \in s : 14 \in PowerEntry[i + 1] <=> i # 7
    BY <1>1, <1>2, <1>3
  <1>11. \A i \in s : 15 \in PowerEntry[i + 1]
    BY <1>1, <1>2, <1>3
  <1>12. Having(s, 8) = s \cap {1, 2} /\ Having(s, 9) = s \cap {2, 3}
    BY <1>4, <1>5 DEF Having
  <1>13. Having(s, 10) = s \cap {3, 4} /\ Having(s, 11) = s \cap {4, 5}
    BY <1>6, <1>7 DEF Having
  <1>14. Having(s, 12) = s \cap {5, 6} /\ Having(s, 13) = s \cap {6, 7}
    BY <1>8, <1>9 DEF Having
  <1>15. Having(s, 14) = s \ {7} /\ Having(s, 15) = s
    BY <1>10, <1>11 DEF Having
  <1> QED
    BY <1>12, <1>13, <1>14, <1>15

Odd(s) == Cardinality(s) % 2 = 1

\* The entry for s has those bits that an odd number of the bits of s give it.
LEMMA EntryBits ==
    ASSUME NEW s \in SUBSET (0..7)
    PROVE  /\ crc_16_table[s] \in SUBSET (0..15)
           /\ \A j \in 0..15 : j \in crc_16_table[s] <=> Odd(Having(s, j))
  BY DEF crc_16_table, Having, Odd

\* Of two bits, an odd number are there if one is and the other is not.
LEMMA OddPair ==
    ASSUME NEW s, NEW a, NEW b, a # b
    PROVE  Odd(s \cap {a, b}) <=> ((a \in s) <=> (b \notin s))
  <1>1. Cardinality({}) = 0 /\ Cardinality({a}) = 1 /\ Cardinality({b}) = 1
    BY FS_EmptySet, FS_Singleton
  <1>2. Cardinality({a, b}) = 2
    <2>1. IsFiniteSet({a}) /\ b \notin {a} /\ {a} \cup {b} = {a, b}
      BY FS_Singleton
    <2> QED
      BY <1>1, <2>1, FS_AddElement
  <1>3. CASE a \in s /\ b \in s
    <2>1. s \cap {a, b} = {a, b}
      BY <1>3
    <2> QED
      BY <1>2, <1>3, <2>1 DEF Odd
  <1>4. CASE a \in s /\ b \notin s
    <2>1. s \cap {a, b} = {a}
      BY <1>4
    <2> QED
      BY <1>1, <1>4, <2>1 DEF Odd
  <1>5. CASE a \notin s /\ b \in s
    <2>1. s \cap {a, b} = {b}
      BY <1>5
    <2> QED
      BY <1>1, <1>5, <2>1 DEF Odd
  <1>6. CASE a \notin s /\ b \notin s
    <2>1. s \cap {a, b} = {}
      BY <1>6
    <2> QED
      BY <1>1, <1>6, <2>1 DEF Odd
  <1> QED
    BY <1>3, <1>4, <1>5, <1>6

\* One bit more, and an odd number becomes an even one.
LEMMA OddTurns ==
    ASSUME NEW s \in SUBSET (0..7), NEW i \in 0..7, i \notin s
    PROVE  Odd(s \cup {i}) <=> ~Odd(s)
  <1>1. IsFiniteSet(s) /\ Cardinality(s) \in Nat
    <2>1. IsFiniteSet(0..7)
      <3>1. 0 \in Int /\ 7 \in Int
        OBVIOUS
      <3> QED
        BY <3>1, FS_Interval
    <2>2. IsFiniteSet(s)
      BY <2>1, FS_Subset
    <2>3. Cardinality(s) \in Nat
      BY <2>2, FS_CardinalityType
    <2> QED
      BY <2>2, <2>3
  <1>2. Cardinality(s \cup {i}) = Cardinality(s) + 1
    BY <1>1, FS_AddElement
  <1> QED
    BY <1>1, <1>2 DEF Odd

\* The upper byte of an entry tells which one it is.
LEMMA UpperByteTells ==
    ASSUME NEW s \in SUBSET (0..7), NEW t \in SUBSET (0..7),
           \A j \in 8..15 : j \in crc_16_table[s] <=> j \in crc_16_table[t]
    PROVE  s = t
  <1>1. \A j \in 8..15 : Odd(Having(s, j)) <=> Odd(Having(t, j))
    <2>1. \A j \in 8..15 : j \in 0..15
      OBVIOUS
    <2> QED
      BY <2>1, EntryBits
  <1>2. \A a, b \in 0..7 : a # b =>
            /\ Odd(s \cap {a, b}) <=> ((a \in s) <=> (b \notin s))
            /\ Odd(t \cap {a, b}) <=> ((a \in t) <=> (b \notin t))
    BY OddPair
  <1>3. /\ Odd(s \cap {1, 2}) <=> Odd(t \cap {1, 2})
        /\ Odd(s \cap {2, 3}) <=> Odd(t \cap {2, 3})
        /\ Odd(s \cap {3, 4}) <=> Odd(t \cap {3, 4})
        /\ Odd(s \cap {4, 5}) <=> Odd(t \cap {4, 5})
        /\ Odd(s \cap {5, 6}) <=> Odd(t \cap {5, 6})
        /\ Odd(s \cap {6, 7}) <=> Odd(t \cap {6, 7})
        /\ Odd(s \ {7}) <=> Odd(t \ {7})
        /\ Odd(s) <=> Odd(t)
    <2>1. /\ Odd(Having(s, 8)) <=> Odd(Having(t, 8))
          /\ Odd(Having(s, 9)) <=> Odd(Having(t, 9))
          /\ Odd(Having(s, 10)) <=> Odd(Having(t, 10))
          /\ Odd(Having(s, 11)) <=> Odd(Having(t, 11))
          /\ Odd(Having(s, 12)) <=> Odd(Having(t, 12))
          /\ Odd(Having(s, 13)) <=> Odd(Having(t, 13))
          /\ Odd(Having(s, 14)) <=> Odd(Having(t, 14))
          /\ Odd(Having(s, 15)) <=> Odd(Having(t, 15))
      BY <1>1
    <2>2. /\ Having(s, 8) = s \cap {1, 2} /\ Having(s, 9) = s \cap {2, 3}
          /\ Having(s, 10) = s \cap {3, 4} /\ Having(s, 11) = s \cap {4, 5}
          /\ Having(s, 12) = s \cap {5, 6} /\ Having(s, 13) = s \cap {6, 7}
          /\ Having(s, 14) = s \ {7} /\ Having(s, 15) = s
      BY UpperEntries
    <2>3. /\ Having(t, 8) = t \cap {1, 2} /\ Having(t, 9) = t \cap {2, 3}
          /\ Having(t, 10) = t \cap {3, 4} /\ Having(t, 11) = t \cap {4, 5}
          /\ Having(t, 12) = t \cap {5, 6} /\ Having(t, 13) = t \cap {6, 7}
          /\ Having(t, 14) = t \ {7} /\ Having(t, 15) = t
      BY UpperEntries
    <2>4. Odd(s \cap {1, 2}) <=> Odd(t \cap {1, 2})
      BY <2>1, <2>2, <2>3
    <2>5. Odd(s \cap {2, 3}) <=> Odd(t \cap {2, 3})
      BY <2>1, <2>2, <2>3
    <2>6. Odd(s \cap {3, 4}) <=> Odd(t \cap {3, 4})
      BY <2>1, <2>2, <2>3
    <2>7. Odd(s \cap {4, 5}) <=> Odd(t \cap {4, 5})
      BY <2>1, <2>2, <2>3
    <2>8. Odd(s \cap {5, 6}) <=> Odd(t \cap {5, 6})
      BY <2>1, <2>2, <2>3
    <2>9. Odd(s \cap {6, 7}) <=> Odd(t \cap {6, 7})
      BY <2>1, <2>2, <2>3
    <2>10. Odd(s \ {7}) <=> Odd(t \ {7})
      BY <2>1, <2>2, <2>3
    <2>11. Odd(s) <=> Odd(t)
      BY <2>1, <2>2, <2>3
    <2> QED
      BY <2>4, <2>5, <2>6, <2>7, <2>8, <2>9, <2>10, <2>11
  <1>4. \A u \in SUBSET (0..7) : 7 \in u <=> ~(Odd(u) <=> Odd(u \ {7}))
    <2> TAKE u \in SUBSET (0..7)
    <2>1. CASE 7 \in u
      <3>1. u \ {7} \in SUBSET (0..7) /\ 7 \in 0..7 /\ 7 \notin u \ {7} /\ (u \ {7}) \cup {7} = u
        BY <2>1
      <3>2. Odd((u \ {7}) \cup {7}) <=> ~Odd(u \ {7})
        BY <3>1, OddTurns
      <3> QED
        BY <2>1, <3>1, <3>2
    <2>2. CASE 7 \notin u
      <3>1. u \ {7} = u
        BY <2>2
      <3> QED
        BY <2>2, <3>1
    <2> QED
      BY <2>1, <2>2
  <1>5. 7 \in s <=> 7 \in t
    BY <1>3, <1>4
  <1>6. 6 \in s <=> 6 \in t
    BY <1>2, <1>3, <1>5
  <1>7. 5 \in s <=> 5 \in t
    BY <1>2, <1>3, <1>6
  <1>8. 4 \in s <=> 4 \in t
    BY <1>2, <1>3, <1>7
  <1>9. 3 \in s <=> 3 \in t
    BY <1>2, <1>3, <1>8
  <1>10. 2 \in s <=> 2 \in t
    BY <1>2, <1>3, <1>9
  <1>11. 1 \in s <=> 1 \in t
    BY <1>2, <1>3, <1>10
  <1>12. \A i \in 1..7 : i \in s <=> i \in t
    <2>1. \A i \in 1..7 : i \in {1, 2, 3, 4, 5, 6, 7}
      OBVIOUS
    <2> QED
      BY <1>5, <1>6, <1>7, <1>8, <1>9, <1>10, <1>11, <2>1
  <1>13. \A u, v \in SUBSET (0..7) : (\A i \in 1..7 : i \in u <=> i \in v) /\ 0 \in u /\ 0 \notin v
                                        => (Odd(u) <=> ~Odd(v))
    <2> TAKE u, v \in SUBSET (0..7)
    <2> HAVE (\A i \in 1..7 : i \in u <=> i \in v) /\ 0 \in u /\ 0 \notin v
    <2>1. \A i \in 0..7 : i = 0 \/ i \in 1..7
      OBVIOUS
    <2>2. u = v \cup {0} /\ 0 \in 0..7
      BY <2>1
    <2> QED
      BY <2>2, OddTurns
  <1>14. 0 \in s <=> 0 \in t
    BY <1>3, <1>12, <1>13
  <1>15. \A i \in 0..7 : i \in s <=> i \in t
    <2>1. \A i \in 0..7 : i = 0 \/ i \in 1..7
      OBVIOUS
    <2> QED
      BY <1>12, <1>14, <2>1
  <1> QED
    BY <1>15

-----------------------------------------------------------------------------
(* The checksum of two sequences that differ in one byte differs.          *)

\* The states of the checksum.
Crcs == SUBSET (0..15)

\* The lower byte of the checksum, and the upper one moved down.
Lower(crc) == crc \cap (0..7)
Upper(crc) == {i - 8 : i \in crc \ (0..7)}

\* What an exclusive or has.
LEMMA XorHas ==
    ASSUME NEW s, NEW t
    PROVE  \A i : i \in Xor(s, t) <=> ~(i \in s <=> i \in t)
  BY DEF Xor

\* With the same operand, an exclusive or tells the other.
LEMMA XorTells ==
    ASSUME NEW s, NEW t, NEW u
    PROVE  /\ Xor(s, t) = Xor(s, u) => t = u
           /\ Xor(t, s) = Xor(u, s) => t = u
  <1>1. ASSUME Xor(s, t) = Xor(s, u) PROVE t = u
    <2>1. \A i : i \in t <=> i \in u
      BY <1>1, XorHas
    <2> QED
      BY <2>1
  <1>2. ASSUME Xor(t, s) = Xor(u, s) PROVE t = u
    <2>1. \A i : i \in t <=> i \in u
      BY <1>2, XorHas
    <2> QED
      BY <2>1
  <1> QED
    BY <1>1, <1>2

\* The two bytes of a checksum, and that they tell it.
LEMMA HalvesTell ==
    ASSUME NEW crc \in Crcs
    PROVE  /\ Lower(crc) \in SUBSET (0..7) /\ Upper(crc) \in SUBSET (0..7)
           /\ \A other \in Crcs : Lower(crc) = Lower(other) /\ Upper(crc) = Upper(other) => crc = other
  <1>1. \A c \in Crcs : Lower(c) \in SUBSET (0..7) /\ Upper(c) \in SUBSET (0..7)
    <2> TAKE c \in Crcs
    <2>1. \A i \in c \ (0..7) : i - 8 \in 0..7
      BY DEF Crcs
    <2> QED
      BY <2>1 DEF Lower, Upper
  <1>2. \A c \in Crcs, i \in 8..15 : i \in c <=> i - 8 \in Upper(c)
    <2> TAKE c \in Crcs, i \in 8..15
    <2>1. \A j \in c \ (0..7) : j - 8 = i - 8 => j = i
      BY DEF Crcs
    <2>2. i \notin 0..7
      OBVIOUS
    <2> QED
      BY <2>1, <2>2 DEF Upper
  <1>3. \A c \in Crcs, i \in 0..7 : i \in c <=> i \in Lower(c)
    BY DEF Lower
  <1>4. ASSUME NEW other \in Crcs, Lower(crc) = Lower(other), Upper(crc) = Upper(other) PROVE crc = other
    <2>1. \A i \in 0..15 : i \in 0..7 \/ i \in 8..15
      OBVIOUS
    <2>2. \A i \in 0..15 : i \in crc <=> i \in other
      BY <1>2, <1>3, <1>4, <2>1
    <2> QED
      BY <2>2 DEF Crcs
  <1> QED
    BY <1>1, <1>4

\* A step of the checksum, by its bits.
LEMMA StepBits ==
    ASSUME NEW crc \in Crcs, NEW d \in Byte
    PROVE  /\ CrcStep(crc, d) \in Crcs
           /\ CrcStep(crc, d) = Xor(crc_16_table[Xor(Lower(crc), BitsOf[d])], Upper(crc))
           /\ \A j \in 8..15 : j \in CrcStep(crc, d) <=> j \in crc_16_table[Xor(Lower(crc), BitsOf[d])]
           /\ Xor(Lower(crc), BitsOf[d]) \in SUBSET (0..7)
  <1>1. CrcStep(crc, d) = Xor(crc_16_table[Xor(Lower(crc), BitsOf[d])], Upper(crc))
    BY DEF CrcStep, Lower, Upper
  <1>2. Upper(crc) \in SUBSET (0..7) /\ Lower(crc) \in SUBSET (0..7) /\ BitsOf[d] \in SUBSET (0..7)
    BY HalvesTell, BitsAre
  <1>3. Xor(Lower(crc), BitsOf[d]) \in SUBSET (0..7)
    BY <1>2 DEF Xor
  <1> DEFINE entry == crc_16_table[Xor(Lower(crc), BitsOf[d])]
  <1>4. entry \in SUBSET (0..15)
    BY <1>3, EntryBits
  <1> HIDE DEF entry
  <1>5. \A j \in 8..15 : j \in Xor(entry, Upper(crc)) <=> j \in entry
    <2>1. \A j \in 8..15 : j \notin Upper(crc)
      BY <1>2
    <2> QED
      BY <2>1, XorHas
  <1>6. Xor(entry, Upper(crc)) \in Crcs
    <2>1. \A j \in 0..7 : j \in 0..15
      OBVIOUS
    <2> QED
      BY <1>2, <1>4, <2>1 DEF Xor, Crcs
  <1> QED
    BY <1>1, <1>3, <1>5, <1>6 DEF entry

\* The same byte keeps different checksums different, and of one checksum
\* different bytes make different ones.
LEMMA StepTells ==
    ASSUME NEW c1 \in Crcs, NEW c2 \in Crcs, NEW d1 \in Byte, NEW d2 \in Byte,
           CrcStep(c1, d1) = CrcStep(c2, d2)
    PROVE  /\ d1 = d2 => c1 = c2
           /\ c1 = c2 => d1 = d2
  <1> DEFINE s == Xor(Lower(c1), BitsOf[d1])
             t == Xor(Lower(c2), BitsOf[d2])
  <1>1. s \in SUBSET (0..7) /\ t \in SUBSET (0..7)
    BY StepBits
  <1>2. \A j \in 8..15 : j \in crc_16_table[s] <=> j \in crc_16_table[t]
    BY StepBits
  <1>3. Xor(crc_16_table[s], Upper(c1)) = Xor(crc_16_table[t], Upper(c2))
    BY StepBits
  <1>4. s = t
    <2> HIDE DEF s, t
    <2> QED
      BY <1>1, <1>2, UpperByteTells
  <1>5. Upper(c1) = Upper(c2)
    <2> HIDE DEF s, t
    <2> QED
      BY <1>3, <1>4, XorTells
  <1>6. ASSUME d1 = d2 PROVE c1 = c2
    <2>1. Lower(c1) = Lower(c2)
      BY <1>4, <1>6, XorTells
    <2> QED
      BY <1>5, <2>1, HalvesTell
  <1>7. ASSUME c1 = c2 PROVE d1 = d2
    <2>1. BitsOf[d1] = BitsOf[d2]
      BY <1>4, <1>7, XorTells
    <2> QED
      BY <2>1, BitsTell
  <1> QED
    BY <1>6, <1>7

\* R is the checksum after each byte.
Summing(R, n, data) ==
    /\ R[0] = {}
    /\ \A k \in 1..n : R[k] = CrcStep(R[k - 1], data[k])
    /\ CrcBits(data) = R[n]

\* The checksum goes from byte to byte.
LEMMA CrcTrace ==
    ASSUME NEW data \in Seq(Byte)
    PROVE  \E R \in [0..Len(data) -> Crcs] : Summing(R, Len(data), data)
  <1> DEFINE n == Len(data)
             g == [x \in (1..n) \X Crcs |-> CrcStep(x[2], data[x[1]])]
             Rec(f) == f = [k \in 0..n |->
                               IF k = 0 THEN {} ELSE [c \in SUBSET (0..15) |-> CrcStep(c, data[k])][f[k - 1]]]
             f == CHOOSE f : Rec(f)
  <1>1. n \in Nat /\ \A k \in 1..n : data[k] \in Byte
    OBVIOUS
  <1>2. {} \in Crcs
    BY DEF Crcs
  <1>3. CrcBits(data) = f[n]
    BY DEF CrcBits
  <1> HIDE DEF n
  <1>4. g \in [(1..n) \X Crcs -> Crcs] /\ \A k \in 1..n, c \in Crcs : g[<<k, c>>] = CrcStep(c, data[k])
    <2>1. ASSUME NEW k \in 1..n, NEW c \in Crcs PROVE CrcStep(c, data[k]) \in Crcs
      <3>1. data[k] \in Byte
        BY <1>1
      <3> QED
        BY <3>1, StepBits
    <2> QED
      BY <2>1
  <1> HIDE DEF g
  <1>5. PICK h \in [SUBSET (1..n) -> Crcs] : Folds(h, n, g, {})
    BY <1>1, <1>2, <1>4, FoldExists
  <1> DEFINE H == [k \in 0..n |-> h[1..k]]
  <1>6. H \in [0..n -> Crcs] /\ H[0] = {}
    <2>1. \A k \in 0..n : 1..k \in SUBSET (1..n)
      BY <1>1
    <2>2. 1..0 = {} /\ 0 \in 0..n /\ {} \in SUBSET (1..n)
      BY <1>1
    <2>3. h[{}] = {}
      BY <1>5, <2>2 DEF Folds
    <2> QED
      BY <2>1, <2>2, <2>3
  <1>7. ASSUME NEW k \in 1..n PROVE H[k - 1] \in Crcs /\ H[k] = CrcStep(H[k - 1], data[k])
    <2>1. /\ 1..k \in SUBSET (1..n) /\ 1..k # {} /\ Max(1..k) = k
          /\ (1..k) \ {k} = 1..(k - 1)
      BY <1>1, FirstPlaces
    <2>2. k \in 0..n /\ k - 1 \in 0..n
      BY <1>1
    <2>3. h[1..k] = g[<<k, h[1..(k - 1)]>>]
      <3>1. h[1..k] = g[<<Max(1..k), h[(1..k) \ {Max(1..k)}]>>]
        BY <1>5, <2>1 DEF Folds
      <3> QED
        BY <2>1, <3>1
    <2>4. H[k] = g[<<k, H[k - 1]>>] /\ H[k - 1] \in Crcs
      BY <1>6, <2>2, <2>3
    <2> HIDE DEF H
    <2> QED
      BY <1>4, <2>4
  <1>8. Rec(H)
    <2>1. ASSUME NEW k \in 0..n
          PROVE  H[k] = IF k = 0 THEN {} ELSE [c \in SUBSET (0..15) |-> CrcStep(c, data[k])][H[k - 1]]
      <3>1. CASE k = 0
        BY <1>6, <3>1
      <3>2. CASE k # 0
        <4>1. k \in 1..n
          BY <1>1, <3>2
        <4>2. H[k - 1] \in SUBSET (0..15) /\ H[k] = CrcStep(H[k - 1], data[k])
          BY <1>7, <4>1 DEF Crcs
        <4> HIDE DEF H
        <4> QED
          BY <3>2, <4>2
      <3> QED
        BY <3>1, <3>2
    <2>2. H = [k \in 0..n |-> H[k]]
      OBVIOUS
    <2> HIDE DEF H
    <2> QED
      BY <2>1, <2>2
  <1>9. Rec(f)
    <2> HIDE DEF Rec, H
    <2> QED
      BY <1>8
  <1> HIDE DEF f, H
  <1>10. f[0] = {}
    BY <1>1, <1>9
  <1>11. ASSUME NEW k \in 1..n, f[k - 1] \in Crcs PROVE f[k] = CrcStep(f[k - 1], data[k])
    <2>1. k \in 0..n /\ k # 0
      BY <1>1
    <2>2. f[k] = [c \in SUBSET (0..15) |-> CrcStep(c, data[k])][f[k - 1]]
      BY <1>9, <2>1
    <2> QED
      BY <1>11, <2>2 DEF Crcs
  <1> DEFINE Good == {k \in 0..n : f[k] \in Crcs}
  <1>12. 0 \in Good
    <2>1. 0 \in 0..n
      BY <1>1
    <2> QED
      BY <1>2, <1>10, <2>1
  <1>13. ASSUME NEW k \in 1..n, k - 1 \in Good PROVE k \in Good
    <2>1. k \in 0..n /\ f[k - 1] \in Crcs /\ data[k] \in Byte
      BY <1>1, <1>13
    <2>2. f[k] = CrcStep(f[k - 1], data[k])
      BY <1>11, <2>1
    <2>3. f[k] \in Crcs
      BY <2>1, <2>2, StepBits
    <2> QED
      BY <2>1, <2>3
  <1>14. 0..n \subseteq Good
    <2> HIDE DEF Good
    <2> QED
      BY <1>1, <1>12, <1>13, UpTo
  <1>15. \A k \in 0..n : f[k] \in Crcs
    BY <1>14
  <1>16. f \in [0..n -> Crcs]
    <2>1. f = [k \in 0..n |-> f[k]]
      BY <1>9
    <2> QED
      BY <1>15, <2>1
  <1>17. \A k \in 1..n : f[k] = CrcStep(f[k - 1], data[k])
    <2> TAKE k \in 1..n
    <2>1. k - 1 \in 0..n
      BY <1>1
    <2> QED
      BY <1>11, <1>15, <2>1
  <1>18. Summing(f, n, data)
    BY <1>3, <1>10, <1>17 DEF Summing
  <1> QED
    BY <1>16, <1>18 DEF n

\* Data that differ in one byte have different checksums.
LEMMA OneByteTells ==
    ASSUME NEW a \in Seq(Byte), NEW b \in Seq(Byte), Len(a) = Len(b),
           NEW j \in 1..Len(a), a[j] # b[j], \A i \in 1..Len(a) : i # j => a[i] = b[i]
    PROVE  CrcBits(a) # CrcBits(b)
  <1> DEFINE n == Len(a)
  <1>1. n \in Nat /\ \A k \in 1..n : a[k] \in Byte /\ b[k] \in Byte
    OBVIOUS
  <1>2. PICK A \in [0..n -> Crcs] : Summing(A, n, a)
    BY CrcTrace
  <1>3. PICK B \in [0..n -> Crcs] : Summing(B, n, b)
    BY CrcTrace
  <1> HIDE DEF n
  <1> DEFINE Good == {k \in 0..n : A[k] = B[k] <=> k < j}
  <1>4. j \in 1..n
    BY DEF n
  <1>5. 0 \in Good
    <2>1. 0 \in 0..n /\ 0 < j
      BY <1>1, <1>4
    <2>2. A[0] = B[0]
      BY <1>2, <1>3 DEF Summing
    <2> QED
      BY <2>1, <2>2
  <1>6. ASSUME NEW k \in 1..n, k - 1 \in Good PROVE k \in Good
    <2>1. k \in 0..n /\ k - 1 \in 0..n
      BY <1>1
    <2>2. /\ A[k - 1] \in Crcs /\ B[k - 1] \in Crcs /\ a[k] \in Byte /\ b[k] \in Byte
          /\ A[k] = CrcStep(A[k - 1], a[k]) /\ B[k] = CrcStep(B[k - 1], b[k])
      BY <1>1, <1>2, <1>3, <2>1 DEF Summing
    <2>3. A[k - 1] = B[k - 1] <=> k - 1 < j
      BY <1>6
    <2>4. CASE k < j
      <3>1. A[k - 1] = B[k - 1] /\ a[k] = b[k]
        BY <1>1, <1>4, <2>3, <2>4 DEF n
      <3> QED
        BY <2>1, <2>2, <2>4, <3>1
    <2>5. CASE k = j
      <3>1. A[k - 1] = B[k - 1] /\ a[k] # b[k]
        BY <1>1, <1>4, <2>3, <2>5
      <3>2. A[k] # B[k]
        BY <2>2, <3>1, StepTells
      <3> QED
        BY <1>1, <1>4, <2>1, <2>5, <3>2
    <2>6. CASE k > j
      <3>1. A[k - 1] # B[k - 1] /\ a[k] = b[k]
        BY <1>1, <1>4, <2>3, <2>6 DEF n
      <3>2. A[k] # B[k]
        BY <2>2, <3>1, StepTells
      <3> QED
        BY <1>1, <1>4, <2>1, <2>6, <3>2
    <2>7. k < j \/ k = j \/ k > j
      BY <1>1, <1>4
    <2> QED
      BY <2>4, <2>5, <2>6, <2>7
  <1>7. 0..n \subseteq Good
    <2> HIDE DEF Good
    <2> QED
      BY <1>1, <1>5, <1>6, UpTo
  <1>8. A[n] # B[n]
    <2>1. n \in 0..n /\ ~(n < j)
      BY <1>1, <1>4
    <2> QED
      BY <1>7, <2>1
  <1> QED
    BY <1>2, <1>3, <1>8 DEF Summing

\* The state of the checksum in the end.
LEMMA CrcTyped == \A d \in Seq(Byte) : CrcBits(d) \in Crcs
  <1> TAKE d \in Seq(Byte)
  <1>1. PICK R \in [0..Len(d) -> Crcs] : Summing(R, Len(d), d)
    BY CrcTrace
  <1>2. Len(d) \in 0..Len(d)
    OBVIOUS
  <1> QED
    BY <1>1, <1>2 DEF Summing

\* The number that is sent has the bits of the checksum in its two bytes.
LEMMA CrcHalves ==
    ASSUME NEW d \in Seq(Byte)
    PROVE  \E h, l \in Byte : /\ crc16_ansi(d) = 256 * h + l
                              /\ BitsOf[h] = Upper(CrcBits(d)) /\ BitsOf[l] = Lower(CrcBits(d))
  <1>1. crc16_ansi(d) = 256 * ByteOf[Upper(CrcBits(d))] + ByteOf[Lower(CrcBits(d))]
    BY DEF crc16_ansi, Upper, Lower
  <1>2. Upper(CrcBits(d)) \in SUBSET (0..7) /\ Lower(CrcBits(d)) \in SUBSET (0..7)
    BY CrcTyped, HalvesTell
  <1> QED
    BY <1>1, <1>2, ByteHasBits

\* It is of two bytes, and tells the checksum.
LEMMA CrcNumber ==
    ASSUME NEW a \in Seq(Byte)
    PROVE  /\ crc16_ansi(a) \in Nat /\ crc16_ansi(a) < 65536
           /\ \A b \in Seq(Byte) : crc16_ansi(a) = crc16_ansi(b) => CrcBits(a) = CrcBits(b)
  <1>1. \A h1, l1, h2, l2 \in Byte : /\ 256 * h1 + l1 \in Nat /\ 256 * h1 + l1 < 65536
                                     /\ 256 * h1 + l1 = 256 * h2 + l2 => h1 = h2 /\ l1 = l2
    BY DEF Byte
  <1>2. PICK h1, l1 \in Byte : /\ crc16_ansi(a) = 256 * h1 + l1
                               /\ BitsOf[h1] = Upper(CrcBits(a)) /\ BitsOf[l1] = Lower(CrcBits(a))
    BY CrcHalves
  <1>3. crc16_ansi(a) \in Nat /\ crc16_ansi(a) < 65536
    BY <1>1, <1>2
  <1>4. ASSUME NEW b \in Seq(Byte), crc16_ansi(a) = crc16_ansi(b) PROVE CrcBits(a) = CrcBits(b)
    <2>1. PICK h2, l2 \in Byte : /\ crc16_ansi(b) = 256 * h2 + l2
                                 /\ BitsOf[h2] = Upper(CrcBits(b)) /\ BitsOf[l2] = Lower(CrcBits(b))
      BY CrcHalves
    <2>2. h1 = h2 /\ l1 = l2
      BY <1>1, <1>2, <1>4, <2>1
    <2>3. Upper(CrcBits(a)) = Upper(CrcBits(b)) /\ Lower(CrcBits(a)) = Lower(CrcBits(b))
      BY <1>2, <2>1, <2>2
    <2>4. CrcBits(a) \in Crcs /\ CrcBits(b) \in Crcs
      BY CrcTyped
    <2> QED
      BY <2>3, <2>4, HalvesTell
  <1> QED
    BY <1>3, <1>4

-----------------------------------------------------------------------------
(* Packets as they are sealed, sent, and read.                             *)

\* Where the byte at i comes from.
Place(i) == IF i % 2 = 1 THEN i + 1 ELSE i - 1

\* Places go in pairs.
LEMMA Places ==
    ASSUME NEW i \in Nat, i > 0
    PROVE  /\ Place(i) \in Nat /\ Place(i) > 0 /\ Place(i) # i /\ Place(Place(i)) = i
           /\ \A n \in Nat : n % 2 = 0 /\ i <= n => Place(i) <= n
           /\ i >= 3 => Place(i) >= 3
           /\ i >= 5 => Place(i) >= 5
           /\ i <= 2 => Place(i) <= 2
           /\ \A n \in Nat : i < n => Place(i) <= n
  <1>1. PICK q \in Nat, r \in 0..1 : i = 2 * q + r
    <2>1. i \div 2 \in Nat /\ i % 2 \in 0..1 /\ i = 2 * (i \div 2) + (i % 2)
      OBVIOUS
    <2> QED
      BY <2>1
  <1>2. \A k \in Nat : (2 * k) % 2 = 0 /\ (2 * k + 1) % 2 = 1
    OBVIOUS
  <1>3. \A n \in Nat : n % 2 = 0 => n = 2 * (n \div 2) /\ n \div 2 \in Nat
    OBVIOUS
  <1>4. CASE r = 1
    <2>1. Place(i) = 2 * q + 2 /\ (2 * q + 2) % 2 = 0 /\ i = 2 * q + 1
      BY <1>1, <1>4 DEF Place
    <2>2. Place(Place(i)) = i
      BY <1>1, <2>1 DEF Place
    <2>3. \A n \in Nat : n % 2 = 0 /\ i <= n => Place(i) <= n
      BY <1>1, <1>3, <2>1
    <2> QED
      BY <1>1, <2>1, <2>2, <2>3
  <1>5. CASE r = 0
    <2>1. q > 0 /\ q - 1 \in Nat /\ 2 * q - 1 = 2 * (q - 1) + 1
      BY <1>1, <1>5
    <2>2. Place(i) = 2 * q - 1 /\ (2 * q - 1) % 2 = 1 /\ i = 2 * q
      BY <1>1, <1>2, <1>5, <2>1 DEF Place
    <2>3. Place(Place(i)) = i
      BY <1>1, <2>2 DEF Place
    <2> QED
      BY <1>1, <2>1, <2>2, <2>3
  <1> QED
    BY <1>1, <1>4, <1>5

\* byte_swap() takes every byte from its place.
LEMMA Swapped ==
    ASSUME NEW p \in Seq(Byte), NEW count \in Nat, count % 2 = 0, count <= Len(p)
    PROVE  /\ byte_swap(p, count) \in Seq(Byte) /\ Len(byte_swap(p, count)) = Len(p)
           /\ \A i \in 1..count : byte_swap(p, count)[i] = p[Place(i)]
  <1>1. Len(p) \in Nat /\ DOMAIN p = 1..Len(p) /\ \A i \in 1..Len(p) : p[i] \in Byte
    OBVIOUS
  <1>2. byte_swap(p, count) = [i \in 1..Len(p) |-> IF i > count THEN p[i] ELSE p[Place(i)]]
    <2>1. byte_swap(p, count) = [i \in 1..Len(p) |->
                IF i > count THEN p[i] ELSE IF i % 2 = 1 THEN p[i + 1] ELSE p[i - 1]]
      BY <1>1 DEF byte_swap
    <2>2. \A i \in 1..Len(p) : (IF i % 2 = 1 THEN p[i + 1] ELSE p[i - 1]) = p[Place(i)]
      BY DEF Place
    <2> QED
      BY <2>1, <2>2
  <1>3. ASSUME NEW i \in 1..Len(p)
        PROVE  (IF i > count THEN p[i] ELSE p[Place(i)]) \in Byte
    <2>1. CASE i > count
      BY <1>1, <2>1
    <2>2. CASE ~(i > count)
      <3>1. i \in Nat /\ i > 0 /\ i <= count
        BY <1>1, <2>2
      <3>2. Place(i) \in Nat /\ Place(i) > 0 /\ Place(i) <= count
        BY <3>1, Places
      <3>3. Place(i) \in 1..Len(p)
        BY <1>1, <3>2
      <3> QED
        BY <1>1, <2>2, <3>3
    <2> QED
      BY <2>1, <2>2
  <1>4. byte_swap(p, count) \in [1..Len(p) -> Byte]
    BY <1>2, <1>3
  <1>5. byte_swap(p, count) \in Seq(Byte) /\ Len(byte_swap(p, count)) = Len(p)
    <2> HIDE <1>2
    <2> QED
      BY <1>1, <1>4
  <1>6. \A i \in 1..count : i \in 1..Len(p) /\ ~(i > count)
    BY <1>1
  <1> QED
    BY <1>2, <1>5, <1>6

\* The checksum of a packet is that of its data.
Sound(p) == get(Bytes(p, 2, 2)) = crc16_ansi(Bytes(p, 4, Len(p) - 4))

\* Two bytes as a number.
LEMMA TwoBytes ==
    ASSUME NEW b \in Seq(Byte), Len(b) = 2
    PROVE  get(b) = 256 * b[1] + b[2]
  <1>1. b \in [1..2 -> Byte]
    BY LenProperties
  <1>2. PICK R \in [0..2 -> Nat] : Adding(R, 2, b)
    BY <1>1, GetTrace
  <1>3. R[0] = 0 /\ get(b) = R[2]
    BY <1>2 DEF Adding
  <1>4. \A k \in 1..2 : R[k] = R[k - 1] * 256 + b[k]
    BY <1>2 DEF Adding
  <1>5. 1 \in 1..2 /\ 2 \in 1..2 /\ 1 - 1 = 0 /\ 2 - 1 = 1
    OBVIOUS
  <1>6. R[1] = R[0] * 256 + b[1] /\ R[2] = R[1] * 256 + b[2]
    BY <1>4, <1>5
  <1>7. b[1] \in Nat /\ b[2] \in Nat
    <2>1. b[1] \in Byte /\ b[2] \in Byte
      BY <1>1, <1>5
    <2>2. \A x \in Byte : x \in Nat
      BY DEF Byte
    <2> QED
      BY <2>1, <2>2
  <1>8. R[1] = b[1]
    BY <1>3, <1>6, <1>7
  <1> QED
    BY <1>3, <1>6, <1>7, <1>8

\* The checksum and the data of a packet.
LEMMA CrcAndData ==
    ASSUME NEW p \in Seq(Byte), Len(p) >= 4
    PROVE  /\ Bytes(p, 4, Len(p) - 4) \in Seq(Byte) /\ Len(Bytes(p, 4, Len(p) - 4)) = Len(p) - 4
           /\ \A i \in 1..(Len(p) - 4) : Bytes(p, 4, Len(p) - 4)[i] = p[4 + i]
           /\ get(Bytes(p, 2, 2)) = 256 * p[3] + p[4]
  <1>1. Len(p) - 4 \in Nat /\ 4 + (Len(p) - 4) <= Len(p) /\ 2 + 2 <= Len(p) /\ 2 \in Nat /\ 4 \in Nat
    OBVIOUS
  <1>2. /\ Bytes(p, 4, Len(p) - 4) \in Seq(Byte) /\ Len(Bytes(p, 4, Len(p) - 4)) = Len(p) - 4
        /\ \A i \in 1..(Len(p) - 4) : Bytes(p, 4, Len(p) - 4)[i] = p[4 + i]
    <2> DEFINE n == Len(p) - 4
    <2>1. 4 \in Nat /\ n \in Nat /\ 4 + n <= Len(p)
      BY <1>1
    <2> HIDE DEF n
    <2>2. Bytes(p, 4, n) \in Seq(Byte) /\ Len(Bytes(p, 4, n)) = n /\ \A i \in 1..n : Bytes(p, 4, n)[i] = p[4 + i]
      BY <2>1, PartOf
    <2> QED
      BY <2>2 DEF n
  <1>3. /\ Bytes(p, 2, 2) \in Seq(Byte) /\ Len(Bytes(p, 2, 2)) = 2
        /\ \A i \in 1..2 : Bytes(p, 2, 2)[i] = p[2 + i]
    <2> DEFINE n == 2
    <2>1. n \in Nat /\ n + n <= Len(p)
      BY <1>1
    <2> HIDE DEF n
    <2>2. Bytes(p, n, n) \in Seq(Byte) /\ Len(Bytes(p, n, n)) = n /\ \A i \in 1..n : Bytes(p, n, n)[i] = p[n + i]
      BY <2>1, PartOf
    <2> QED
      BY <2>2 DEF n
  <1>4. get(Bytes(p, 2, 2)) = 256 * Bytes(p, 2, 2)[1] + Bytes(p, 2, 2)[2]
    BY <1>3, TwoBytes
  <1>5. 1 \in 1..2 /\ 2 \in 1..2 /\ 2 + 1 = 3 /\ 2 + 2 = 4
    OBVIOUS
  <1> QED
    BY <1>2, <1>3, <1>4, <1>5

\* A packet of which not more than one byte behind the length has changed is
\* noticed, or it is the same.
LEMMA ChangeIsNoticed ==
    ASSUME NEW s \in Seq(Byte), Len(s) >= 8, Sound(s), NEW q \in Seq(Byte), Len(q) = Len(s),
           NEW k \in Nat, k >= 3, \A i \in 1..Len(s) : i # k => q[i] = s[i], Sound(q)
    PROVE  q = s
  <1> SUFFICES ASSUME k <= Len(s), q[k] # s[k] PROVE FALSE
    <2>1. CASE k <= Len(s) /\ q[k] # s[k]
      BY <2>1
    <2>2. CASE k > Len(s) \/ q[k] = s[k]
      <3>1. \A i \in 1..Len(q) : q[i] = s[i]
        BY <2>2
      <3> QED
        BY <3>1, SameBytes
    <2>3. Len(s) \in Nat
      OBVIOUS
    <2> QED
      BY <2>1, <2>2, <2>3
  <1> DEFINE n == Len(s) - 4
             sd == Bytes(s, 4, n)
             qd == Bytes(q, 4, n)
  <1>1. n \in Nat /\ Len(s) \in Nat /\ Len(s) >= 4 /\ 4 + n = Len(s) /\ Len(q) - 4 = n
    OBVIOUS
  <1>2. /\ sd \in Seq(Byte) /\ Len(sd) = n /\ \A i \in 1..n : sd[i] = s[4 + i]
        /\ get(Bytes(s, 2, 2)) = 256 * s[3] + s[4]
    BY <1>1, CrcAndData
  <1>3. /\ qd \in Seq(Byte) /\ Len(qd) = n /\ \A i \in 1..n : qd[i] = q[4 + i]
        /\ get(Bytes(q, 2, 2)) = 256 * q[3] + q[4]
    <2>1. q \in Seq(Byte) /\ Len(q) >= 4 /\ Len(q) - 4 = n
      BY <1>1
    <2> HIDE DEF n
    <2>2. /\ Bytes(q, 4, Len(q) - 4) \in Seq(Byte) /\ Len(Bytes(q, 4, Len(q) - 4)) = Len(q) - 4
          /\ \A i \in 1..(Len(q) - 4) : Bytes(q, 4, Len(q) - 4)[i] = q[4 + i]
          /\ get(Bytes(q, 2, 2)) = 256 * q[3] + q[4]
      BY <2>1, CrcAndData
    <2> QED
      BY <2>1, <2>2
  <1>4. 256 * s[3] + s[4] = crc16_ansi(sd) /\ 256 * q[3] + q[4] = crc16_ansi(qd)
    BY <1>2, <1>3 DEF Sound
  <1> HIDE DEF n, sd, qd
  <1>5. CASE k <= 4
    <2>1. \A i \in 1..n : sd[i] = qd[i]
      <3> TAKE i \in 1..n
      <3>1. 4 + i \in 1..Len(s) /\ 4 + i # k
        BY <1>1, <1>5
      <3> QED
        BY <1>2, <1>3, <3>1
    <2>2. sd = qd
      BY <1>2, <1>3, <2>1, SameBytes
    <2>3. s[3] \in Byte /\ s[4] \in Byte /\ q[3] \in Byte /\ q[4] \in Byte
      BY <1>1
    <2>4. 256 * s[3] + s[4] = 256 * q[3] + q[4]
      BY <1>4, <2>2
    <2>5. s[3] = q[3] /\ s[4] = q[4]
      <3>1. \A a, b, c, d \in Byte : 256 * a + b = 256 * c + d => a = c /\ b = d
        BY DEF Byte
      <3> QED
        BY <2>3, <2>4, <3>1
    <2> QED
      BY <1>5, <2>5
  <1>6. CASE k > 4
    <2>1. s[3] = q[3] /\ s[4] = q[4]
      BY <1>1, <1>6
    <2>2. crc16_ansi(sd) = crc16_ansi(qd)
      BY <1>4, <2>1
    <2>3. CrcBits(sd) = CrcBits(qd)
      BY <1>2, <1>3, <2>2, CrcNumber
    <2>4. k - 4 \in 1..n /\ 4 + (k - 4) = k
      BY <1>1, <1>6
    <2>5. sd[k - 4] # qd[k - 4]
      BY <1>2, <1>3, <2>4
    <2>6. \A i \in 1..n : i # k - 4 => sd[i] = qd[i]
      <3> TAKE i \in 1..n
      <3> HAVE i # k - 4
      <3>1. 4 + i \in 1..Len(s) /\ 4 + i # k
        BY <1>1
      <3> QED
        BY <1>2, <1>3, <3>1
    <2> DEFINE j == k - 4
    <2>7. sd \in Seq(Byte) /\ qd \in Seq(Byte) /\ Len(sd) = Len(qd)
      BY <1>2, <1>3
    <2>8. j \in 1..Len(sd) /\ sd[j] # qd[j] /\ \A i \in 1..Len(sd) : i # j => sd[i] = qd[i]
      BY <1>2, <2>4, <2>5, <2>6
    <2> HIDE DEF j
    <2>9. CrcBits(sd) # CrcBits(qd)
      BY <2>7, <2>8, OneByteTells
    <2> QED
      BY <2>3, <2>9
  <1> QED
    BY <1>5, <1>6

\* A part of the beginning of a sequence.
LEMMA PartOfStart ==
    ASSUME NEW p \in Seq(Byte), NEW n \in Nat, n <= Len(p), NEW at \in Nat, NEW m \in Nat, at + m <= n
    PROVE  Bytes(Bytes(p, 0, n), at, m) = Bytes(p, at, m)
  <1> DEFINE q == Bytes(p, 0, n)
  <1>1. q \in Seq(Byte) /\ Len(q) = n /\ \A i \in 1..n : q[i] = p[i]
    <2>1. 0 \in Nat /\ 0 + n <= Len(p) /\ \A i \in 1..n : 0 + i = i
      OBVIOUS
    <2>2. q \in Seq(Byte) /\ Len(q) = n /\ \A i \in 1..n : q[i] = p[0 + i]
      BY <2>1, PartOf
    <2> QED
      BY <2>1, <2>2
  <1> HIDE DEF q
  <1>2. at + m <= Len(q) /\ at + m <= Len(p)
    BY <1>1
  <1>3. Bytes(q, at, m) \in Seq(Byte) /\ Len(Bytes(q, at, m)) = m /\ \A i \in 1..m : Bytes(q, at, m)[i] = q[at + i]
    BY <1>1, <1>2, PartOf
  <1>4. Bytes(p, at, m) \in Seq(Byte) /\ Len(Bytes(p, at, m)) = m /\ \A i \in 1..m : Bytes(p, at, m)[i] = p[at + i]
    BY <1>2, PartOf
  <1>5. \A i \in 1..m : at + i \in 1..n
    OBVIOUS
  <1>6. \A i \in 1..m : Bytes(q, at, m)[i] = Bytes(p, at, m)[i]
    BY <1>1, <1>3, <1>4, <1>5
  <1>7. Bytes(q, at, m) = Bytes(p, at, m)
    BY <1>3, <1>4, <1>6, SameBytes
  <1> QED
    BY <1>7 DEF q

\* What tf_get_response() makes of a packet of which as much was read as its
\* length says, or one byte less than is swapped.
LEMMA Response ==
    ASSUME NEW wire \in Seq(Byte), NEW beyond \in Byte, NEW len \in Nat, len = get_u16_raw(wire),
           len >= 8, len <= Len(wire)
    PROVE  \E q \in Seq(Byte) :
              /\ Len(q) = len
              /\ \A i \in 1..len : q[i] = Append(wire, beyond)[Place(i)]
              /\ tf_get_response(wire, beyond) = [error |-> IF Sound(q) THEN 0 ELSE -1, packet |-> q]
  <1> DEFINE count == len + (len % 2)
             all == Append(wire, beyond)
             swapped == byte_swap(all, count)
             q == Bytes(swapped, 0, len)
  <1>1. all \in Seq(Byte) /\ Len(all) = Len(wire) + 1 /\ Len(wire) \in Nat
    OBVIOUS
  <1>2. count \in Nat /\ count % 2 = 0 /\ len <= count /\ count <= len + 1
    OBVIOUS
  <1>3. tf_get_response(wire, beyond) =
            [error |-> IF get(Bytes(swapped, 2, 2)) = crc16_ansi(Bytes(swapped, 4, len - 4)) THEN 0 ELSE -1,
             packet |-> q]
    <2>1. ~(Len(wire) < PACKET_HEAD_SIZE \/ Len(wire) < len)
      BY <1>1 DEF PACKET_HEAD_SIZE
    <2> QED
      BY <2>1 DEF tf_get_response
  <1> HIDE DEF all, count
  <1>4. /\ swapped \in Seq(Byte) /\ Len(swapped) = Len(all)
        /\ \A i \in 1..count : swapped[i] = all[Place(i)]
    <2>1. count <= Len(all)
      BY <1>1, <1>2
    <2> QED
      BY <1>1, <1>2, <2>1, Swapped
  <1> HIDE DEF swapped
  <1>5. q \in Seq(Byte) /\ Len(q) = len /\ \A i \in 1..len : q[i] = swapped[i]
    <2>1. 0 \in Nat /\ 0 + len <= Len(swapped) /\ \A i \in 1..len : 0 + i = i
      BY <1>1, <1>4
    <2>2. q \in Seq(Byte) /\ Len(q) = len /\ \A i \in 1..len : q[i] = swapped[0 + i]
      BY <1>4, <2>1, PartOf
    <2> QED
      BY <2>1, <2>2
  <1>6. Bytes(q, 2, 2) = Bytes(swapped, 2, 2) /\ Bytes(q, 4, len - 4) = Bytes(swapped, 4, len - 4)
    <2>1. len <= Len(swapped) /\ 2 + 2 <= len /\ len - 4 \in Nat /\ 4 + (len - 4) <= len /\ 2 \in Nat /\ 4 \in Nat
      BY <1>1, <1>4
    <2>2. Bytes(q, 2, 2) = Bytes(swapped, 2, 2)
      BY <1>4, <2>1, PartOfStart
    <2>3. Bytes(q, 4, len - 4) = Bytes(swapped, 4, len - 4)
      BY <1>4, <2>1, PartOfStart
    <2> QED
      BY <2>2, <2>3
  <1> HIDE DEF q
  <1>7. tf_get_response(wire, beyond) = [error |-> IF Sound(q) THEN 0 ELSE -1, packet |-> q]
    BY <1>3, <1>5, <1>6 DEF Sound
  <1>8. \A i \in 1..len : q[i] = all[Place(i)]
    <2>1. \A i \in 1..len : i \in 1..count
      BY <1>2
    <2> QED
      BY <1>4, <1>5, <2>1
  <1> QED
    BY <1>5, <1>7, <1>8 DEF all

\* A request with its length and its checksum.
Sealed(req) ==
    LET data == Bytes(req, 4, Len(req) - 4)
    IN  put(2, Len(req)) \o put(2, crc16_ansi(data)) \o data

\* Requests that fit into a packet.
Requests == {req \in Seq(Byte) : Len(req) >= 8 /\ Len(req) < 65536}

\* The length and the checksum of a sealed request are its own.
LEMMA SealIsSound ==
    ASSUME NEW req \in Requests
    PROVE  /\ Sealed(req) \in Seq(Byte) /\ Len(Sealed(req)) = Len(req)
           /\ 256 * Sealed(req)[1] + Sealed(req)[2] = Len(req)
           /\ Sound(Sealed(req))
           /\ Bytes(Sealed(req), 4, Len(req) - 4) = Bytes(req, 4, Len(req) - 4)
  <1>0. req \in Seq(Byte) /\ Len(req) \in Nat /\ Len(req) >= 4 /\ Len(req) < 65536
    BY DEF Requests
  <1> DEFINE len == Len(req)
             data == Bytes(req, 4, len - 4)
             a == put(2, len)
             b == put(2, crc16_ansi(data))
             ab == a \o b
             s == ab \o data
  <1>1. data \in Seq(Byte) /\ Len(data) = len - 4
    BY <1>0, CrcAndData
  <1>2. crc16_ansi(data) \in Nat /\ crc16_ansi(data) < 65536
    BY <1>1, CrcNumber
  <1> HIDE DEF data, len
  <1>3. a \in Seq(Byte) /\ Len(a) = 2 /\ get(a) = len
    <2>1. len \in Nat /\ Says(2, len) /\ 2 \in Nat /\ 2 \in {2, 4, 8}
      BY <1>0 DEF Says, len
    <2>2. a \in Seq(Byte) /\ Len(a) = 2
      BY <2>1, PutLength
    <2>3. get(a) = len
      BY <2>1, NumberComesBack
    <2> QED
      BY <2>2, <2>3
  <1>4. b \in Seq(Byte) /\ Len(b) = 2 /\ get(b) = crc16_ansi(data)
    <2>1. crc16_ansi(data) \in Nat /\ Says(2, crc16_ansi(data)) /\ 2 \in Nat /\ 2 \in {2, 4, 8}
      BY <1>2 DEF Says
    <2>2. b \in Seq(Byte) /\ Len(b) = 2
      BY <2>1, PutLength
    <2>3. get(b) = crc16_ansi(data)
      BY <2>1, NumberComesBack
    <2> QED
      BY <2>2, <2>3
  <1>5. Sealed(req) = s
    BY DEF Sealed, len, data
  <1> HIDE DEF a, b
  <1>6. /\ ab \in Seq(Byte) /\ Len(ab) = 2 + 2
        /\ \A i \in 1..2 : ab[i] = a[i] /\ ab[2 + i] = b[i]
    <2>1. a \in Seq(Byte) /\ b \in Seq(Byte)
      BY <1>3, <1>4
    <2>2. /\ ab \in Seq(Byte) /\ Len(ab) = Len(a) + Len(b)
          /\ \A i \in 1..Len(a) : ab[i] = a[i]
          /\ \A i \in 1..Len(b) : ab[Len(a) + i] = b[i]
      BY <2>1, Joined
    <2> HIDE DEF ab
    <2> QED
      BY <1>3, <1>4, <2>2
  <1> HIDE DEF ab
  <1>7. /\ s \in Seq(Byte) /\ Len(s) = 4 + (len - 4)
        /\ \A i \in 1..4 : s[i] = ab[i]
        /\ \A i \in 1..(len - 4) : s[4 + i] = data[i]
    <2>1. ab \in Seq(Byte) /\ data \in Seq(Byte)
      BY <1>1, <1>6
    <2>2. /\ s \in Seq(Byte) /\ Len(s) = Len(ab) + Len(data)
          /\ \A i \in 1..Len(ab) : s[i] = ab[i]
          /\ \A i \in 1..Len(data) : s[Len(ab) + i] = data[i]
      BY <2>1, Joined
    <2> HIDE DEF s
    <2> QED
      BY <1>1, <1>6, <2>2
  <1> HIDE DEF s
  <1>8. len \in Nat /\ 4 + (len - 4) = len /\ len - 4 \in Nat /\ len >= 4
    BY <1>0 DEF len
  <1>9. s[1] = a[1] /\ s[2] = a[2] /\ s[3] = b[1] /\ s[4] = b[2]
    <2>1. 1 \in 1..2 /\ 2 \in 1..2 /\ 2 + 1 = 3 /\ 2 + 2 = 4 /\ 1 \in 1..4 /\ 2 \in 1..4 /\ 3 \in 1..4 /\ 4 \in 1..4
      OBVIOUS
    <2> QED
      BY <1>6, <1>7, <2>1
  <1>10. 256 * s[1] + s[2] = len
    BY <1>3, <1>9, TwoBytes
  <1>11. /\ Bytes(s, 4, len - 4) \in Seq(Byte) /\ Len(Bytes(s, 4, len - 4)) = len - 4
         /\ \A i \in 1..(len - 4) : Bytes(s, 4, len - 4)[i] = s[4 + i]
         /\ get(Bytes(s, 2, 2)) = 256 * s[3] + s[4]
    <2>1. s \in Seq(Byte) /\ Len(s) = len /\ Len(s) >= 4
      BY <1>7, <1>8
    <2> QED
      BY <2>1, CrcAndData
  <1>12. Bytes(s, 4, len - 4) = data
    <2>1. \A i \in 1..(len - 4) : Bytes(s, 4, len - 4)[i] = data[i]
      BY <1>7, <1>11
    <2> QED
      BY <1>1, <1>11, <2>1, SameBytes
  <1>13. get(Bytes(s, 2, 2)) = crc16_ansi(data)
    BY <1>4, <1>9, <1>11, TwoBytes
  <1>14. Sound(s)
    BY <1>7, <1>8, <1>12, <1>13 DEF Sound
  <1> QED
    BY <1>5, <1>7, <1>8, <1>10, <1>12, <1>14 DEF len, data

\* On the wire every byte of a sealed request is in its place; what pads an odd
\* one, or a multiple of 64, is any byte.
OnWire(s, wire) ==
    /\ wire \in Seq(Byte) /\ Len(wire) >= Len(s) + (Len(s) % 2)
    /\ get_u16_raw(wire) = Len(s)
    /\ \A i \in 1..Len(s) : wire[Place(i)] = s[i]

\* What tf_req_done() and tf_send() make of a request.
LEMMA WireOf ==
    ASSUME NEW req \in Requests
    PROVE  /\ OnWire(Sealed(req), Wire(tf_req_done(req)))
           /\ tf_req_done(req) \in Seq(Byte) /\ Len(tf_req_done(req)) = Len(req) + (Len(req) % 2)
  <1> DEFINE len == Len(req)
             s == Sealed(req)
             pad == IF len % 2 = 1 THEN <<0>> ELSE <<>>
             padded == s \o pad
             count == len + (len % 2)
             done == byte_swap(padded, count)
             wire == Wire(done)
  <1>1. /\ s \in Seq(Byte) /\ Len(s) = len /\ 256 * s[1] + s[2] = len
        /\ len \in Nat /\ len >= 8
    BY SealIsSound DEF Requests
  <1>2. tf_req_done(req) = done
    BY DEF tf_req_done, Sealed
  <1> HIDE DEF s, len
  <1>3. count \in Nat /\ count % 2 = 0 /\ len <= count /\ count <= len + 1
    BY <1>1
  <1>4. padded \in Seq(Byte) /\ Len(padded) = count /\ \A i \in 1..len : padded[i] = s[i]
    <2>1. pad \in Seq(Byte) /\ Len(pad) = len % 2
      <3>1. CASE len % 2 = 1
        <4>1. pad = <<0>>
          BY <3>1
        <4>2. <<0>> \in Seq(Byte) /\ Len(<<0>>) = 1
          BY DEF Byte
        <4> QED
          BY <3>1, <4>1, <4>2
      <3>2. CASE len % 2 # 1
        <4>1. len % 2 = 0
          BY <1>1, <3>2
        <4> QED
          BY <3>2, <4>1
      <3> QED
        BY <3>1, <3>2
    <2> HIDE DEF pad
    <2>2. s \in Seq(Byte) /\ pad \in Seq(Byte)
      BY <1>1, <2>1
    <2>3. /\ padded \in Seq(Byte) /\ Len(padded) = Len(s) + Len(pad)
          /\ \A i \in 1..Len(s) : padded[i] = s[i]
      BY <2>2, Joined
    <2> HIDE DEF padded
    <2> QED
      BY <1>1, <2>1, <2>3
  <1> HIDE DEF pad, padded, count
  <1>5. done \in Seq(Byte) /\ Len(done) = count /\ \A i \in 1..count : done[i] = padded[Place(i)]
    <2>1. count <= Len(padded) /\ padded \in Seq(Byte)
      BY <1>3, <1>4
    <2>2. /\ done \in Seq(Byte) /\ Len(done) = Len(padded)
          /\ \A i \in 1..count : done[i] = padded[Place(i)]
      BY <1>3, <2>1, Swapped
    <2> HIDE DEF done
    <2> QED
      BY <1>4, <2>2
  <1> HIDE DEF done
  <1>6. \A i \in 1..len : Place(i) \in 1..count /\ done[Place(i)] = s[i]
    <2> TAKE i \in 1..len
    <2>1. i \in Nat /\ i > 0 /\ i <= count
      BY <1>1, <1>3
    <2>2. Place(i) \in Nat /\ Place(i) > 0 /\ Place(i) <= count /\ Place(Place(i)) = i
      BY <1>3, <2>1, Places
    <2>3. Place(i) \in 1..count
      BY <1>3, <2>2
    <2>4. done[Place(i)] = padded[i]
      BY <1>5, <2>2, <2>3
    <2> QED
      BY <1>4, <2>3, <2>4
  <1>7. get_u16_raw(done) = len
    <2>1. Place(1) = 2 /\ Place(2) = 1 /\ 1 \in 1..len /\ 2 \in 1..len
      BY <1>1 DEF Place
    <2>2. done[2] = s[1] /\ done[1] = s[2]
      BY <1>6, <2>1
    <2>3. s[1] \in Byte
      BY <1>1, <2>1
    <2>4. \A x \in Byte : 256 * x = x * 256
      BY DEF Byte
    <2> QED
      BY <1>1, <2>2, <2>3, <2>4 DEF get_u16_raw
  <1>8. wire \in Seq(Byte) /\ Len(wire) >= count /\ \A i \in 1..count : wire[i] = done[i]
    <2>1. CASE len % 64 = 0
      <3> DEFINE two == <<255, 255>>
      <3>1. two \in Seq(Byte) /\ Len(two) \in Nat
        BY DEF Byte
      <3> HIDE DEF two
      <3>2. wire = done \o two
        BY <1>7, <2>1 DEF Wire, two
      <3>3. done \in Seq(Byte) /\ two \in Seq(Byte)
        BY <1>5, <3>1
      <3>4. /\ done \o two \in Seq(Byte) /\ Len(done \o two) = Len(done) + Len(two)
            /\ \A i \in 1..Len(done) : (done \o two)[i] = done[i]
        BY <3>3, Joined
      <3>5. wire \in Seq(Byte) /\ Len(wire) = count + Len(two) /\ \A i \in 1..count : wire[i] = done[i]
        BY <1>5, <3>2, <3>4
      <3> HIDE DEF wire
      <3> QED
        BY <1>3, <3>1, <3>5
    <2>2. CASE len % 64 # 0
      <3>1. wire = Bytes(done, 0, count)
        BY <1>7, <2>2 DEF Wire, count
      <3>2. /\ 0 \in Nat /\ 0 + count <= Len(done) /\ \A i \in 1..count : 0 + i = i
            /\ done \in Seq(Byte) /\ count \in Nat
        BY <1>3, <1>5
      <3>3. /\ Bytes(done, 0, count) \in Seq(Byte) /\ Len(Bytes(done, 0, count)) = count
            /\ \A i \in 1..count : Bytes(done, 0, count)[i] = done[0 + i]
        <4> DEFINE zero == 0
                   size == count
        <4>1. zero \in Nat /\ size \in Nat /\ zero + size <= Len(done) /\ done \in Seq(Byte)
          BY <3>2
        <4> HIDE DEF zero, size
        <4>2. /\ Bytes(done, zero, size) \in Seq(Byte) /\ Len(Bytes(done, zero, size)) = size
              /\ \A i \in 1..size : Bytes(done, zero, size)[i] = done[zero + i]
          BY <4>1, PartOf
        <4> QED
          BY <4>2 DEF zero, size
      <3> HIDE DEF wire
      <3> QED
        BY <1>3, <3>1, <3>2, <3>3
    <2> QED
      BY <2>1, <2>2
  <1> HIDE DEF wire
  <1>9. get_u16_raw(wire) = len
    <2>1. 1 \in 1..count /\ 2 \in 1..count
      BY <1>1, <1>3
    <2> QED
      BY <1>7, <1>8, <2>1 DEF get_u16_raw
  <1>10. \A i \in 1..len : wire[Place(i)] = s[i]
    BY <1>6, <1>8
  <1>11. OnWire(s, wire)
    BY <1>1, <1>8, <1>9, <1>10 DEF OnWire, count
  <1> QED
    BY <1>2, <1>5, <1>11 DEF wire, s, count, len

\* A packet that arrives as it was sent is the packet that was sealed.
LEMMA Arrives ==
    ASSUME NEW s \in Seq(Byte), Len(s) >= 8, Sound(s), NEW wire, OnWire(s, wire), NEW beyond \in Byte
    PROVE  tf_get_response(wire, beyond) = [error |-> 0, packet |-> s]
  <1>1. /\ wire \in Seq(Byte) /\ Len(s) \in Nat /\ Len(wire) \in Nat
        /\ Len(s) + (Len(s) % 2) <= Len(wire) /\ Len(s) <= Len(wire)
        /\ Len(s) = get_u16_raw(wire)
    BY DEF OnWire
  <1>2. PICK q \in Seq(Byte) :
            /\ Len(q) = Len(s)
            /\ \A i \in 1..Len(s) : q[i] = Append(wire, beyond)[Place(i)]
            /\ tf_get_response(wire, beyond) = [error |-> IF Sound(q) THEN 0 ELSE -1, packet |-> q]
    BY <1>1, Response
  <1>3. \A i \in 1..Len(s) : q[i] = s[i]
    <2> TAKE i \in 1..Len(s)
    <2>1. i \in Nat /\ i > 0 /\ i <= Len(s) + (Len(s) % 2)
      BY <1>1
    <2>2. Len(s) + (Len(s) % 2) \in Nat /\ (Len(s) + (Len(s) % 2)) % 2 = 0
      BY <1>1
    <2>3. Place(i) \in Nat /\ Place(i) > 0 /\ Place(i) <= Len(s) + (Len(s) % 2)
      BY <2>1, <2>2, Places
    <2>4. Place(i) \in 1..Len(wire)
      BY <1>1, <2>2, <2>3
    <2>5. Append(wire, beyond)[Place(i)] = wire[Place(i)]
      BY <1>1, <2>4
    <2> QED
      BY <1>2, <2>5 DEF OnWire
  <1>4. q = s
    BY <1>2, <1>3, SameBytes
  <1> QED
    BY <1>2, <1>4

\* An answer that is an error, or the packet s.
Noticing(r, s) == r.error # 0 \/ r.packet = s

\* What is read with not more than one byte behind the length that is not the
\* one that was sent.
LEMMA Reads ==
    ASSUME NEW s \in Seq(Byte), Len(s) >= 8, Sound(s), NEW wire \in Seq(Byte), NEW beyond \in Byte,
           get_u16_raw(wire) = Len(s), Len(wire) >= Len(s), NEW k \in Nat, k >= 3,
           \A i \in 1..Len(s) : i # k => Append(wire, beyond)[Place(i)] = s[i]
    PROVE  Noticing(tf_get_response(wire, beyond), s)
  <1>1. Len(s) \in Nat /\ Len(s) <= Len(wire) /\ Len(s) = get_u16_raw(wire)
    OBVIOUS
  <1>2. PICK q \in Seq(Byte) :
            /\ Len(q) = Len(s)
            /\ \A i \in 1..Len(s) : q[i] = Append(wire, beyond)[Place(i)]
            /\ tf_get_response(wire, beyond) = [error |-> IF Sound(q) THEN 0 ELSE -1, packet |-> q]
    BY <1>1, Response
  <1>3. \A i \in 1..Len(s) : i # k => q[i] = s[i]
    BY <1>2
  <1>4. CASE Sound(q)
    <2>1. q = s
      BY <1>2, <1>3, <1>4, ChangeIsNoticed
    <2> QED
      BY <1>2, <2>1 DEF Noticing
  <1>5. CASE ~Sound(q)
    BY <1>2, <1>5 DEF Noticing
  <1> QED
    BY <1>4, <1>5

\* One byte of the wire has changed.
LEMMA DamageIsNoticed ==
    ASSUME NEW s \in Seq(Byte), Len(s) >= 8, Sound(s), NEW wire, OnWire(s, wire),
           NEW at \in Nat, at >= 3, at <= Len(wire), NEW b \in Byte
    PROVE  Noticing(tf_get_response([wire EXCEPT ![at] = b], 0), s)
  <1> DEFINE w == [wire EXCEPT ![at] = b]
  <1>1. /\ wire \in Seq(Byte) /\ Len(s) \in Nat /\ Len(wire) \in Nat
        /\ Len(s) + (Len(s) % 2) <= Len(wire) /\ Len(s) <= Len(wire)
        /\ get_u16_raw(wire) = Len(s)
    BY DEF OnWire
  <1>2. w \in Seq(Byte) /\ Len(w) = Len(wire) /\ \A i \in 1..Len(wire) : i # at => w[i] = wire[i]
    BY <1>1
  <1> HIDE DEF w
  <1>3. get_u16_raw(w) = Len(s)
    <2>1. 1 \in 1..Len(wire) /\ 2 \in 1..Len(wire) /\ 1 # at /\ 2 # at
      BY <1>1
    <2> QED
      BY <1>1, <1>2, <2>1 DEF get_u16_raw
  <1> DEFINE k == Place(at)
  <1>4. k \in Nat /\ k >= 3 /\ Place(k) = at
    BY Places
  <1>5. \A i \in 1..Len(s) : i # k => Append(w, 0)[Place(i)] = s[i]
    <2> TAKE i \in 1..Len(s)
    <2> HAVE i # k
    <2>1. i \in Nat /\ i > 0 /\ i <= Len(s) + (Len(s) % 2)
      BY <1>1
    <2>2. Len(s) + (Len(s) % 2) \in Nat /\ (Len(s) + (Len(s) % 2)) % 2 = 0
      BY <1>1
    <2>3. /\ Place(i) \in Nat /\ Place(i) > 0 /\ Place(i) <= Len(s) + (Len(s) % 2)
          /\ Place(Place(i)) = i
      BY <2>1, <2>2, Places
    <2>4. Place(i) \in 1..Len(wire) /\ Place(i) # at
      BY <1>1, <2>2, <2>3
    <2>5. w[Place(i)] = wire[Place(i)] /\ wire[Place(i)] = s[i]
      BY <1>2, <2>4 DEF OnWire
    <2>6. Append(w, 0)[Place(i)] = w[Place(i)]
      BY <1>1, <1>2, <2>4
    <2> QED
      BY <2>5, <2>6
  <1> HIDE DEF k
  <1>6. 0 \in Byte /\ Len(w) >= Len(s)
    BY <1>1, <1>2 DEF Byte
  <1>7. Noticing(tf_get_response(w, 0), s)
    BY <1>2, <1>3, <1>4, <1>5, <1>6, Reads
  <1> QED
    BY <1>7 DEF w

\* The end of the wire is missing.
LEMMA CutIsNoticed ==
    ASSUME NEW s \in Seq(Byte), Len(s) >= 8, Sound(s), NEW wire, OnWire(s, wire),
           NEW n \in Nat, n <= Len(wire), NEW beyond \in Byte
    PROVE  Noticing(tf_get_response(Bytes(wire, 0, n), beyond), s)
  <1> DEFINE w == Bytes(wire, 0, n)
  <1>1. /\ wire \in Seq(Byte) /\ Len(s) \in Nat /\ Len(wire) \in Nat
        /\ get_u16_raw(wire) = Len(s)
    BY DEF OnWire
  <1>2. w \in Seq(Byte) /\ Len(w) = n /\ \A i \in 1..n : w[i] = wire[i]
    <2>1. 0 \in Nat /\ 0 + n <= Len(wire) /\ \A i \in 1..n : 0 + i = i
      BY <1>1
    <2>2. w \in Seq(Byte) /\ Len(w) = n /\ \A i \in 1..n : w[i] = wire[0 + i]
      BY <1>1, <2>1, PartOf
    <2> QED
      BY <2>1, <2>2
  <1> HIDE DEF w
  <1>3. CASE Len(w) < 8 \/ Len(w) < get_u16_raw(w)
    <2>1. tf_get_response(w, beyond) = [error |-> -101, packet |-> <<>>]
      BY <1>3 DEF tf_get_response, PACKET_HEAD_SIZE
    <2> QED
      BY <2>1 DEF Noticing, w
  <1>4. CASE ~(Len(w) < 8 \/ Len(w) < get_u16_raw(w))
    <2>1. n >= 8
      BY <1>2, <1>4
    <2>2. get_u16_raw(w) = Len(s)
      <3>1. 1 \in 1..n /\ 2 \in 1..n
        BY <2>1
      <3> QED
        BY <1>1, <1>2, <3>1 DEF get_u16_raw
    <2>3. Len(w) >= Len(s)
      BY <1>1, <1>2, <1>4, <2>2
    <2>4. \A i \in 1..Len(s) : i # Len(s) => Append(w, beyond)[Place(i)] = s[i]
      <3> TAKE i \in 1..Len(s)
      <3> HAVE i # Len(s)
      <3>1. i \in Nat /\ i > 0 /\ i < Len(s)
        BY <1>1
      <3>2. Place(i) \in Nat /\ Place(i) > 0 /\ Place(i) <= Len(s)
        BY <1>1, <3>1, Places
      <3>3. Place(i) \in 1..n
        BY <1>1, <1>2, <2>3, <3>2
      <3>4. w[Place(i)] = wire[Place(i)] /\ wire[Place(i)] = s[i]
        BY <1>2, <3>3 DEF OnWire
      <3>5. Append(w, beyond)[Place(i)] = w[Place(i)]
        BY <1>2, <3>3
      <3> QED
        BY <3>4, <3>5
    <2>5. Len(s) \in Nat /\ Len(s) >= 3
      BY <1>1
    <2>6. Noticing(tf_get_response(w, beyond), s)
      BY <1>2, <2>2, <2>3, <2>4, <2>5, Reads
    <2> QED
      BY <2>6 DEF w
  <1> QED
    BY <1>3, <1>4

-----------------------------------------------------------------------------
(* What stands where in a packet.                                          *)

\* The bytes b are in p, at the offset at.
Stands(p, at, b) ==
    /\ p \in Seq(Byte) /\ b \in Seq(Byte) /\ at \in Nat
    /\ at + Len(b) <= Len(p)
    /\ \A i \in 1..Len(b) : p[at + i] = b[i]

\* Of two sequences, the first is where it was, and the second behind it.
LEMMA StandsBehind ==
    ASSUME NEW a \in Seq(Byte), NEW b \in Seq(Byte)
    PROVE  /\ a \o b \in Seq(Byte) /\ Len(a \o b) = Len(a) + Len(b)
           /\ Stands(a \o b, Len(a), b) /\ Stands(a \o b, 0, a)
  <1> DEFINE p == a \o b
  <1>1. Len(a) \in Nat /\ Len(b) \in Nat /\ 0 \in Nat /\ \A i \in 1..Len(a) : 0 + i = i
    OBVIOUS
  <1>2. /\ p \in Seq(Byte) /\ Len(p) = Len(a) + Len(b)
        /\ \A i \in 1..Len(a) : p[i] = a[i]
        /\ \A i \in 1..Len(b) : p[Len(a) + i] = b[i]
    BY Joined
  <1> HIDE DEF p
  <1>3. Len(a) + Len(b) <= Len(p) /\ 0 + Len(a) <= Len(p)
    BY <1>1, <1>2
  <1>4. Stands(p, Len(a), b)
    BY <1>1, <1>2, <1>3 DEF Stands
  <1>5. Stands(p, 0, a)
    BY <1>1, <1>2, <1>3 DEF Stands
  <1> QED
    BY <1>2, <1>4, <1>5 DEF p

\* What is in a part is in the whole.
LEMMA StandsWithin ==
    ASSUME NEW p, NEW b, NEW c, NEW at, NEW k, Stands(p, at, b), Stands(b, k, c)
    PROVE  Stands(p, at + k, c)
  <1>1. /\ p \in Seq(Byte) /\ b \in Seq(Byte) /\ c \in Seq(Byte) /\ at \in Nat /\ k \in Nat
        /\ at + Len(b) <= Len(p) /\ k + Len(c) <= Len(b)
    BY DEF Stands
  <1>2. Len(p) \in Nat /\ Len(b) \in Nat /\ Len(c) \in Nat
    BY <1>1
  <1>3. at + k \in Nat /\ at + k + Len(c) <= Len(p)
    BY <1>1, <1>2
  <1>4. ASSUME NEW i \in 1..Len(c) PROVE p[at + k + i] = c[i]
    <2>1. k + i \in 1..Len(b) /\ at + (k + i) = at + k + i
      BY <1>1, <1>2
    <2>2. p[at + (k + i)] = b[k + i] /\ b[k + i] = c[i]
      BY <2>1 DEF Stands
    <2> QED
      BY <2>1, <2>2
  <1> QED
    BY <1>1, <1>3, <1>4 DEF Stands

\* What was there is still there when something follows.
LEMMA StandsStill ==
    ASSUME NEW p, NEW b \in Seq(Byte), NEW c, NEW at, Stands(p, at, c)
    PROVE  Stands(p \o b, at, c)
  <1>1. p \in Seq(Byte) /\ at \in Nat /\ 0 + at = at
    BY DEF Stands
  <1>2. Stands(p \o b, 0, p)
    BY <1>1, StandsBehind
  <1>3. Stands(p \o b, 0 + at, c)
    BY <1>2, StandsWithin
  <1> QED
    BY <1>1, <1>3

\* What is there is read.
LEMMA StandsRead ==
    ASSUME NEW p, NEW b, NEW at, Stands(p, at, b)
    PROVE  Bytes(p, at, Len(b)) = b
  <1>1. p \in Seq(Byte) /\ b \in Seq(Byte) /\ at \in Nat /\ at + Len(b) <= Len(p) /\ Len(b) \in Nat
    BY DEF Stands
  <1>2. /\ Bytes(p, at, Len(b)) \in Seq(Byte) /\ Len(Bytes(p, at, Len(b))) = Len(b)
        /\ \A i \in 1..Len(b) : Bytes(p, at, Len(b))[i] = p[at + i]
    BY <1>1, PartOf
  <1>3. \A i \in 1..Len(b) : Bytes(p, at, Len(b))[i] = b[i]
    BY <1>2 DEF Stands
  <1> QED
    BY <1>1, <1>2, <1>3, SameBytes

\* A part that is read is there.
LEMMA PartStands ==
    ASSUME NEW p \in Seq(Byte), NEW at \in Nat, NEW n \in Nat, at + n <= Len(p)
    PROVE  Stands(p, at, Bytes(p, at, n)) /\ Len(Bytes(p, at, n)) = n
  <1>1. /\ Bytes(p, at, n) \in Seq(Byte) /\ Len(Bytes(p, at, n)) = n
        /\ \A i \in 1..n : Bytes(p, at, n)[i] = p[at + i]
    BY PartOf
  <1> QED
    BY <1>1 DEF Stands

\* What is behind the checksum of a request is there when it is sealed.
LEMMA StandsSealed ==
    ASSUME NEW req \in Requests, NEW at, at >= 4, NEW b, Stands(req, at, b)
    PROVE  Stands(Sealed(req), at, b)
  <1> DEFINE s == Sealed(req)
             n == Len(req) - 4
  <1>1. /\ s \in Seq(Byte) /\ Len(s) = Len(req) /\ Bytes(s, 4, n) = Bytes(req, 4, n)
    BY SealIsSound
  <1> HIDE DEF s
  <1>2. /\ req \in Seq(Byte) /\ Len(req) \in Nat /\ n \in Nat /\ 4 \in Nat /\ 4 + n = Len(req)
        /\ 4 + n <= Len(req) /\ 4 + n <= Len(s)
    BY <1>1 DEF Requests
  <1> HIDE DEF n
  <1>3. b \in Seq(Byte) /\ at \in Nat /\ at + Len(b) <= Len(req) /\ Len(b) \in Nat
    BY DEF Stands
  <1>4. \A i \in 1..n : s[4 + i] = req[4 + i]
    <2>1. s \in Seq(Byte) /\ n \in Nat /\ 4 \in Nat /\ 4 + n <= Len(s)
      BY <1>1, <1>2
    <2>2. \A i \in 1..n : Bytes(s, 4, n)[i] = s[4 + i]
      BY <2>1, PartOf
    <2>3. req \in Seq(Byte) /\ 4 + n <= Len(req)
      BY <1>2
    <2>4. \A i \in 1..n : Bytes(req, 4, n)[i] = req[4 + i]
      BY <2>1, <2>3, PartOf
    <2> QED
      BY <1>1, <2>2, <2>4
  <1>5. ASSUME NEW i \in 1..Len(b) PROVE s[at + i] = b[i]
    <2>1. at - 4 + i \in 1..n /\ 4 + (at - 4 + i) = at + i
      BY <1>2, <1>3
    <2>2. s[at + i] = req[at + i]
      BY <1>4, <2>1
    <2> QED
      BY <2>2 DEF Stands
  <1>6. Stands(s, at, b)
    BY <1>1, <1>3, <1>5 DEF Stands
  <1> QED
    BY <1>6 DEF s

-----------------------------------------------------------------------------
(* Numbers and names in packets.                                           *)

\* A number that is put somewhere.
LEMMA PutIs ==
    ASSUME NEW n \in {2, 4, 8}, NEW val, Says(n, val)
    PROVE  put(n, val) \in Seq(Byte) /\ Len(put(n, val)) = n /\ get(put(n, val)) = val
  <1>1. n \in Nat /\ val \in Nat
    BY DEF Says
  <1>2. put(n, val) \in Seq(Byte) /\ Len(put(n, val)) = n
    BY <1>1, PutLength
  <1>3. get(put(n, val)) = val
    BY NumberComesBack
  <1> QED
    BY <1>2, <1>3

\* A number that was put somewhere is read there.
LEMMA NumberIsRead ==
    ASSUME NEW p, NEW at, NEW n \in {2, 4, 8}, NEW val, Says(n, val), Stands(p, at, put(n, val))
    PROVE  get(Bytes(p, at, n)) = val
  <1>1. Len(put(n, val)) = n /\ get(put(n, val)) = val
    BY PutIs
  <1>2. Bytes(p, at, Len(put(n, val))) = put(n, val)
    BY StandsRead
  <1> QED
    BY <1>1, <1>2

\* The head of a request.
LEMMA HeadOf ==
    ASSUME NEW cmd, Says(4, cmd)
    PROVE  /\ tf_req_init(cmd) \in Seq(Byte) /\ Len(tf_req_init(cmd)) = 8
           /\ Stands(tf_req_init(cmd), 4, put(4, cmd))
  <1> DEFINE zeros == <<0, 0, 0, 0>>
             c == put(4, cmd)
  <1>1. zeros \in Seq(Byte) /\ Len(zeros) = 4
    BY DEF Byte
  <1>2. c \in Seq(Byte) /\ Len(c) = 4
    BY PutIs
  <1>3. tf_req_init(cmd) = zeros \o c
    BY DEF tf_req_init
  <1> HIDE DEF zeros, c
  <1>4. zeros \in Seq(Byte) /\ c \in Seq(Byte)
    BY <1>1, <1>2
  <1>5. /\ zeros \o c \in Seq(Byte) /\ Len(zeros \o c) = Len(zeros) + Len(c)
        /\ Stands(zeros \o c, Len(zeros), c)
    BY <1>4, StandsBehind
  <1> DEFINE p == zeros \o c
  <1>6. p \in Seq(Byte) /\ Len(p) = 4 + 4 /\ Stands(p, 4, c)
    BY <1>1, <1>2, <1>5
  <1> HIDE DEF p
  <1>7. p \in Seq(Byte) /\ Len(p) = 8 /\ Stands(p, 4, c)
    BY <1>6
  <1> QED
    BY <1>3, <1>7 DEF p, c

\* The characters of a path.
Chars == 1..255

\* A name as it is sent: with its zero, and a second one to make it even.
Named(name, str) ==
    /\ name \in Seq(Byte)
    /\ Len(name) = Len(str) + 1 \/ Len(name) = Len(str) + 2
    /\ \A i \in 1..Len(str) : name[i] = Backslashed(str)[i]
    /\ name[Len(str) + 1] = 0

\* A path with its slashes turned.
LEMMA BackslashedIs ==
    ASSUME NEW str \in Seq(Chars)
    PROVE  /\ Backslashed(str) \in Seq(Byte) /\ Len(Backslashed(str)) = Len(str)
           /\ \A i \in 1..Len(str) : Backslashed(str)[i] # 0
  <1> DEFINE b == Backslashed(str)
  <1>1. Len(str) \in Nat /\ DOMAIN str = 1..Len(str) /\ \A i \in 1..Len(str) : str[i] \in Chars
    OBVIOUS
  <1>2. b = [i \in 1..Len(str) |-> IF str[i] = 47 THEN 92 ELSE str[i]]
    BY <1>1 DEF Backslashed
  <1>3. \A c \in Chars : (IF c = 47 THEN 92 ELSE c) \in Byte /\ (IF c = 47 THEN 92 ELSE c) # 0
    BY DEF Chars, Byte
  <1>4. b \in [1..Len(str) -> Byte] /\ \A i \in 1..Len(str) : b[i] # 0
    BY <1>1, <1>2, <1>3
  <1> HIDE DEF b
  <1>5. b \in Seq(Byte) /\ Len(b) = Len(str)
    <2> HIDE <1>2
    <2> QED
      BY <1>1, <1>4
  <1> QED
    BY <1>4, <1>5 DEF b

\* The first zero.
LEMMA ZeroIsFound ==
    ASSUME NEW b \in Seq(Byte), NEW n \in Nat, n < Len(b), b[n + 1] = 0,
           \A i \in 1..n : b[i] # 0
    PROVE  UpToZero(b) = n
  <1> DEFINE I == {i \in 1..Len(b) : b[i] = 0}
  <1>1. n + 1 \in I /\ \A i \in I : n + 1 <= i
    <2>1. Len(b) \in Nat /\ n + 1 \in 1..Len(b)
      OBVIOUS
    <2>2. ASSUME NEW i \in I PROVE n + 1 <= i
      <3>1. i \in Nat /\ i >= 1 /\ b[i] = 0
        BY <2>1
      <3>2. i \notin 1..n
        BY <3>1
      <3> QED
        BY <3>1, <3>2
    <2> QED
      BY <2>1, <2>2
  <1>2. SelectInSeq(b, LAMBDA x : x = 0) = Min(I)
    BY <1>1 DEF SelectInSeq
  <1>3. \A i \in I : i \in Int
    OBVIOUS
  <1> HIDE DEF I
  <1>4. Min(I) = n + 1
    <2>1. \A x \in I : (\A y \in I : x <= y) => x = n + 1
      BY <1>1, <1>3
    <2> QED
      BY <1>1, <2>1 DEF Min
  <1>5. n + 1 - 1 = n
    OBVIOUS
  <1> QED
    BY <1>2, <1>4, <1>5 DEF UpToZero

\* A path that fits, with the two bytes of its length and the two of its end.
PathsThatFit == {str \in Seq(Chars) : Len(str) < 30000}

\* The bytes before a name: its length, if it is wanted.
LengthFirst(addlength, name) == IF addlength THEN put(2, Len(name)) ELSE <<>>

\* q is the request that tf_req_putfilename() makes of req: the name, after its
\* length if there is one, and an even number of bytes.
Filed(q, req, str, addlength, name) ==
    /\ Named(name, str) /\ q \in Seq(Byte)
    /\ Len(q) = Len(req) + Len(LengthFirst(addlength, name)) + Len(name)
    /\ Len(q) % 2 = 0
    /\ Stands(q, 0, req)
    /\ Stands(q, Len(req), LengthFirst(addlength, name))
    /\ Stands(q, Len(req) + Len(LengthFirst(addlength, name)), name)

\* The length that is put before a name.
LEMMA LengthFirstIs ==
    ASSUME NEW addlength \in BOOLEAN, NEW name \in Seq(Byte), Len(name) < 65536
    PROVE  /\ LengthFirst(addlength, name) \in Seq(Byte)
           /\ ~addlength => Len(LengthFirst(addlength, name)) = 0
           /\ addlength => /\ Len(LengthFirst(addlength, name)) = 2
                           /\ get(LengthFirst(addlength, name)) = Len(name)
  <1> DEFINE p == put(2, Len(name))
             l == LengthFirst(addlength, name)
  <1>1. Says(2, Len(name)) /\ 2 \in {2, 4, 8}
    BY DEF Says
  <1>2. p \in Seq(Byte) /\ Len(p) = 2 /\ get(p) = Len(name)
    BY <1>1, PutIs
  <1>3. addlength => l = p
    BY DEF LengthFirst
  <1>4. ~addlength => l = <<>>
    BY DEF LengthFirst
  <1>5. <<>> \in Seq(Byte) /\ Len(<<>>) = 0
    OBVIOUS
  <1> HIDE DEF p, l
  <1>6. addlength => l \in Seq(Byte) /\ Len(l) = 2 /\ get(l) = Len(name)
    BY <1>2, <1>3
  <1>7. ~addlength => l \in Seq(Byte) /\ Len(l) = 0
    BY <1>4, <1>5
  <1> QED
    BY <1>6, <1>7 DEF l

\* tf_req_putfilename() puts a name, and makes the request even.
LEMMA FilenameIsPut ==
    ASSUME NEW req \in Seq(Byte), NEW str \in PathsThatFit, NEW addlength \in BOOLEAN
    PROVE  \E name : Filed(tf_req_putfilename(req, str, addlength), req, str, addlength, name)
  <1> DEFINE b == Backslashed(str)
             zero == <<0>>
             pad == IF (Len(str) + 1 + Len(req)) % 2 = 1 THEN <<0>> ELSE <<>>
             bz == b \o zero
             name == bz \o pad
             l == LengthFirst(addlength, name)
             rl == req \o l
             q == rl \o name
  <1>1. str \in Seq(Chars) /\ Len(str) \in Nat /\ Len(str) < 30000 /\ Len(req) \in Nat
    BY DEF PathsThatFit
  <1>2. b \in Seq(Byte) /\ Len(b) = Len(str)
    BY <1>1, BackslashedIs
  <1>3. zero \in Seq(Byte) /\ Len(zero) = 1 /\ zero[1] = 0
    BY DEF Byte
  <1>4. pad \in Seq(Byte) /\ Len(pad) = (Len(str) + 1 + Len(req)) % 2
    <2>1. (Len(str) + 1 + Len(req)) % 2 \in {0, 1}
      BY <1>1
    <2>2. <<0>> \in Seq(Byte) /\ Len(<<0>>) = 1 /\ <<>> \in Seq(Byte) /\ Len(<<>>) = 0
      BY DEF Byte
    <2> QED
      BY <2>1, <2>2
  <1>5. tf_req_putfilename(req, str, addlength) = q
    BY DEF tf_req_putfilename, Backslashed, LengthFirst
  <1> HIDE DEF b, zero, pad
  <1>6. /\ bz \in Seq(Byte) /\ Len(bz) = Len(str) + 1
        /\ \A i \in 1..Len(str) : bz[i] = b[i]
        /\ bz[Len(str) + 1] = 0
    <2>1. b \in Seq(Byte) /\ zero \in Seq(Byte)
      BY <1>2, <1>3
    <2>2. /\ bz \in Seq(Byte) /\ Len(bz) = Len(b) + Len(zero)
          /\ \A i \in 1..Len(b) : bz[i] = b[i]
          /\ \A i \in 1..Len(zero) : bz[Len(b) + i] = zero[i]
      BY <2>1, Joined
    <2> HIDE DEF bz
    <2>3. 1 \in 1..1
      OBVIOUS
    <2> QED
      BY <1>2, <1>3, <2>2, <2>3
  <1> HIDE DEF bz
  <1>7. /\ name \in Seq(Byte) /\ Len(name) = Len(str) + 1 + Len(pad)
        /\ \A i \in 1..(Len(str) + 1) : name[i] = bz[i]
    <2>1. bz \in Seq(Byte) /\ pad \in Seq(Byte)
      BY <1>4, <1>6
    <2>2. /\ name \in Seq(Byte) /\ Len(name) = Len(bz) + Len(pad)
          /\ \A i \in 1..Len(bz) : name[i] = bz[i]
      BY <2>1, Joined
    <2> HIDE DEF name
    <2> QED
      BY <1>6, <2>2
  <1> HIDE DEF name
  <1>8. Named(name, str)
    <2>1. \A i \in 1..Len(str) : i \in 1..(Len(str) + 1)
      BY <1>1
    <2>2. Len(str) + 1 \in 1..(Len(str) + 1)
      BY <1>1
    <2>3. Len(pad) = 0 \/ Len(pad) = 1
      BY <1>1, <1>4
    <2>4. Len(name) = Len(str) + 1 \/ Len(name) = Len(str) + 2
      <3>1. Len(name) = Len(str) + 1 + Len(pad)
        BY <1>7
      <3>2. Len(str) \in Nat
        BY <1>1
      <3>3. \A x \in Nat : x + 1 + 0 = x + 1 /\ x + 1 + 1 = x + 2
        OBVIOUS
      <3> QED
        BY <2>3, <3>1, <3>2, <3>3
    <2>5. \A i \in 1..Len(str) : name[i] = b[i]
      BY <1>6, <1>7, <2>1
    <2>6. name[Len(str) + 1] = 0
      BY <1>6, <1>7, <2>2
    <2> QED
      BY <1>7, <2>4, <2>5, <2>6 DEF Named, b
  <1>9. l \in Seq(Byte) /\ (Len(l) = 0 \/ Len(l) = 2)
    <2>1. Len(name) < 65536
      BY <1>1, <1>4, <1>7
    <2> QED
      BY <1>7, <2>1, LengthFirstIs
  <1> HIDE DEF l
  <1>10. rl \in Seq(Byte) /\ Len(rl) = Len(req) + Len(l) /\ Stands(rl, 0, req) /\ Stands(rl, Len(req), l)
    <2>1. req \in Seq(Byte) /\ l \in Seq(Byte)
      BY <1>9
    <2> QED
      BY <2>1, StandsBehind
  <1> HIDE DEF rl
  <1>11. q \in Seq(Byte) /\ Len(q) = Len(rl) + Len(name) /\ Stands(q, Len(rl), name)
    <2>1. rl \in Seq(Byte) /\ name \in Seq(Byte)
      BY <1>7, <1>10
    <2> QED
      BY <2>1, StandsBehind
  <1>12. Stands(q, 0, req) /\ Stands(q, Len(req), l)
    <2>1. name \in Seq(Byte) /\ Stands(rl, 0, req) /\ Stands(rl, Len(req), l)
      BY <1>7, <1>10
    <2> QED
      BY <2>1, StandsStill
  <1> HIDE DEF q
  <1>13. Len(q) % 2 = 0
    <2>1. Len(q) = Len(req) + Len(l) + (Len(str) + 1 + Len(pad)) /\ (Len(l) = 0 \/ Len(l) = 2)
      BY <1>7, <1>9, <1>10, <1>11
    <2>2. Len(pad) = (Len(str) + 1 + Len(req)) % 2
      BY <1>4
    <2>3. \A x \in Nat : (x + (x % 2) + 0) % 2 = 0 /\ (x + (x % 2) + 2) % 2 = 0
      OBVIOUS
    <2>4. Len(str) + 1 + Len(req) \in Nat
      BY <1>1
    <2>5. Len(q) = (Len(str) + 1 + Len(req)) + ((Len(str) + 1 + Len(req)) % 2) + Len(l)
      BY <1>1, <2>1, <2>2
    <2> QED
      BY <2>1, <2>3, <2>4, <2>5
  <1>14. Filed(q, req, str, addlength, name)
    <2>1. Len(q) = Len(req) + Len(l) + Len(name)
      BY <1>10, <1>11
    <2>2. Stands(q, Len(req) + Len(l), name)
      BY <1>10, <1>11
    <2> QED
      BY <1>8, <1>11, <1>12, <1>13, <2>1, <2>2 DEF Filed, l
  <1> QED
    BY <1>5, <1>14

-----------------------------------------------------------------------------
(* Each message is read as it was sent.                                    *)

\* The numbers that n bytes can say.
Numbers(n) == {val \in Nat : Says(n, val)}

\* The message is sent as the request req.
Carries(m, req) == req \in Requests /\ Encode(m) = tf_req_done(req)

\* A request whose length fits.
LEMMA Fits ==
    ASSUME NEW m, NEW req \in Seq(Byte), Len(req) >= 8, Len(req) < 65536, Encode(m) = tf_req_done(req)
    PROVE  Carries(m, req)
  <1>1. req \in Requests
    BY DEF Requests
  <1> QED
    BY <1>1 DEF Carries

\* A message arrives as the sealed request.
LEMMA SealedArrives ==
    ASSUME NEW m, NEW req, Carries(m, req)
    PROVE  /\ tf_get_response(Wire(Encode(m)), 0) = [error |-> 0, packet |-> Sealed(req)]
           /\ Sealed(req) \in Seq(Byte) /\ Len(Sealed(req)) = Len(req)
           /\ \A at, b : at >= 4 /\ Stands(req, at, b) => Stands(Sealed(req), at, b)
  <1>1. req \in Requests /\ Encode(m) = tf_req_done(req)
    BY DEF Carries
  <1>2. Sealed(req) \in Seq(Byte) /\ Len(Sealed(req)) = Len(req) /\ Sound(Sealed(req))
    BY <1>1, SealIsSound
  <1>3. OnWire(Sealed(req), Wire(tf_req_done(req)))
    BY <1>1, WireOf
  <1>4. Len(Sealed(req)) >= 8 /\ 0 \in Byte
    BY <1>1, <1>2 DEF Requests, Byte
  <1>5. tf_get_response(Wire(tf_req_done(req)), 0) = [error |-> 0, packet |-> Sealed(req)]
    BY <1>2, <1>3, <1>4, Arrives
  <1>6. \A at, b : at >= 4 /\ Stands(req, at, b) => Stands(Sealed(req), at, b)
    BY <1>1, StandsSealed
  <1> QED
    BY <1>1, <1>2, <1>5, <1>6

\* A number behind a request, and the place of the next.
LEMMA NumberFollows ==
    ASSUME NEW req \in Seq(Byte), NEW n \in {2, 4, 8}, NEW val \in Numbers(n)
    PROVE  /\ req \o put(n, val) \in Seq(Byte) /\ Len(req \o put(n, val)) = Len(req) + n
           /\ Stands(req \o put(n, val), Len(req), put(n, val))
           /\ \A at, b : Stands(req, at, b) => Stands(req \o put(n, val), at, b)
  <1> DEFINE c == put(n, val)
  <1>1. c \in Seq(Byte) /\ Len(c) = n
    BY PutIs DEF Numbers
  <1> HIDE DEF c
  <1>2. c \in Seq(Byte)
    BY <1>1
  <1>3. req \o c \in Seq(Byte) /\ Len(req \o c) = Len(req) + Len(c) /\ Stands(req \o c, Len(req), c)
    BY <1>2, StandsBehind
  <1>4. \A at, b : Stands(req, at, b) => Stands(req \o c, at, b)
    BY <1>2, StandsStill
  <1> QED
    BY <1>1, <1>3, <1>4 DEF c

\* A command of the library, and the place of what follows.
LEMMA CommandIs ==
    ASSUME NEW cmd \in Nat, cmd < 65536
    PROVE  /\ tf_req_init(cmd) \in Seq(Byte) /\ Len(tf_req_init(cmd)) = 8
           /\ Stands(tf_req_init(cmd), 4, put(4, cmd)) /\ Says(4, cmd) /\ cmd \in Numbers(4)
  <1>1. Says(4, cmd)
    BY DEF Says
  <1> QED
    BY <1>1, HeadOf DEF Numbers

\* A number is read at its place in the packet.
LEMMA SealedNumber ==
    ASSUME NEW m, NEW req, Carries(m, req), NEW at \in Nat, at >= 4, NEW n \in {2, 4, 8},
           NEW val \in Numbers(n), Stands(req, at, put(n, val))
    PROVE  get(Bytes(Sealed(req), at, n)) = val
  <1>1. Stands(Sealed(req), at, put(n, val))
    BY SealedArrives
  <1>2. Says(n, val)
    BY DEF Numbers
  <1> QED
    BY <1>1, <1>2, NumberIsRead

\* The messages of one number, or two.
TurboMessages == [kind: {"turbo"}, on: Numbers(4)]
FailMessages == [kind: {"fail"}, reason: Numbers(4)]
SizeMessages == [kind: {"size"}, total: Numbers(4), free: Numbers(4)]

\* tf_cmd_turbo() says on or off.
LEMMA TurboIsRead ==
    ASSUME NEW m \in TurboMessages
    PROVE  (\E req : Carries(m, req)) /\ ReadsBack(m)
  <1> DEFINE head == tf_req_init(258)
             req == head \o put(4, m.on)
  <1>1. m.kind = "turbo" /\ m.on \in Numbers(4)
    BY DEF TurboMessages
  <1>2. Encode(m) = tf_req_done(req)
    BY <1>1 DEF Encode, tf_cmd_turbo
  <1>3. head \in Seq(Byte) /\ Len(head) = 8
    BY CommandIs
  <1> HIDE DEF head
  <1>4. req \in Seq(Byte) /\ Len(req) = 8 + 4 /\ Stands(req, 8, put(4, m.on))
    BY <1>1, <1>3, NumberFollows
  <1> HIDE DEF req
  <1>5. Carries(m, req)
    <2>1. Len(req) >= 8 /\ Len(req) < 65536
      BY <1>4
    <2>2. req \in Seq(Byte)
      BY <1>4
    <2> QED
      BY <1>2, <2>1, <2>2, Fits
  <1>6. tf_get_response(Wire(Encode(m)), 0) = [error |-> 0, packet |-> Sealed(req)]
    BY <1>5, SealedArrives
  <1>7. get(Bytes(Sealed(req), 8, 4)) = m.on
    BY <1>1, <1>4, <1>5, SealedNumber
  <1>8. ReadsBack(m)
    BY <1>1, <1>6, <1>7 DEF ReadsBack
  <1> QED
    BY <1>5, <1>8

\* tf_send_fail() says why.
LEMMA FailIsRead ==
    ASSUME NEW m \in FailMessages
    PROVE  (\E req : Carries(m, req)) /\ ReadsBack(m)
  <1> DEFINE head == tf_req_init(FAIL)
             req == head \o put(4, m.reason)
  <1>1. m.kind = "fail" /\ m.reason \in Numbers(4)
    BY DEF FailMessages
  <1>2. Encode(m) = tf_req_done(req)
    BY <1>1 DEF Encode, tf_send_fail
  <1>3. FAIL \in Nat /\ FAIL < 65536
    BY DEF FAIL
  <1>4. /\ head \in Seq(Byte) /\ Len(head) = 8
        /\ Stands(head, 4, put(4, FAIL)) /\ FAIL \in Numbers(4)
    BY <1>3, CommandIs
  <1> HIDE DEF head
  <1>5. /\ req \in Seq(Byte) /\ Len(req) = 8 + 4 /\ Stands(req, 8, put(4, m.reason))
        /\ Stands(req, 4, put(4, FAIL))
    BY <1>1, <1>4, NumberFollows
  <1> HIDE DEF req
  <1>6. Carries(m, req)
    <2>1. Len(req) >= 8 /\ Len(req) < 65536
      BY <1>5
    <2>2. req \in Seq(Byte)
      BY <1>5
    <2> QED
      BY <1>2, <2>1, <2>2, Fits
  <1>7. tf_get_response(Wire(Encode(m)), 0) = [error |-> 0, packet |-> Sealed(req)]
    BY <1>6, SealedArrives
  <1>8. Reason(Sealed(req)) = -m.reason
    <2>1. get(Bytes(Sealed(req), 8, 4)) = m.reason
      BY <1>1, <1>5, <1>6, SealedNumber
    <2> QED
      BY <2>1 DEF Reason
  <1>9. Command(Sealed(req)) = FAIL
    <2>1. get(Bytes(Sealed(req), 4, 4)) = FAIL
      BY <1>4, <1>5, <1>6, SealedNumber
    <2> QED
      BY <2>1 DEF Command
  <1>10. ReadsBack(m)
    BY <1>1, <1>7, <1>8, <1>9 DEF ReadsBack
  <1> QED
    BY <1>6, <1>10

\* The size of the disk is read as the device says it.
LEMMA SizeIsRead ==
    ASSUME NEW m \in SizeMessages
    PROVE  (\E req : Carries(m, req)) /\ ReadsBack(m)
  <1> DEFINE head == tf_req_init(SIZE_RESULT)
             start == head \o put(4, m.total)
             req == start \o put(4, m.free)
  <1>1. m.kind = "size" /\ m.total \in Numbers(4) /\ m.free \in Numbers(4)
    BY DEF SizeMessages
  <1>2. Encode(m) = tf_req_done(req)
    BY <1>1 DEF Encode, DiskSize
  <1>3. SIZE_RESULT \in Nat /\ SIZE_RESULT < 65536
    BY DEF SIZE_RESULT
  <1>4. head \in Seq(Byte) /\ Len(head) = 8
    BY <1>3, CommandIs
  <1> HIDE DEF head
  <1>5. start \in Seq(Byte) /\ Len(start) = 8 + 4 /\ Stands(start, 8, put(4, m.total))
    BY <1>1, <1>4, NumberFollows
  <1> HIDE DEF start
  <1>6. /\ req \in Seq(Byte) /\ Len(req) = 12 + 4 /\ Stands(req, 12, put(4, m.free))
        /\ Stands(req, 8, put(4, m.total))
    <2>1. start \in Seq(Byte) /\ Len(start) = 12
      BY <1>5
    <2> QED
      BY <1>1, <1>5, <2>1, NumberFollows
  <1> HIDE DEF req
  <1>7. Carries(m, req)
    <2>1. Len(req) >= 8 /\ Len(req) < 65536
      BY <1>6
    <2>2. req \in Seq(Byte)
      BY <1>6
    <2> QED
      BY <1>2, <2>1, <2>2, Fits
  <1>8. tf_get_response(Wire(Encode(m)), 0) = [error |-> 0, packet |-> Sealed(req)]
    BY <1>7, SealedArrives
  <1>9. SizeResult(Sealed(req)) = [totalk |-> m.total, freek |-> m.free]
    <2>1. get(Bytes(Sealed(req), 8, 4)) = m.total
      BY <1>1, <1>6, <1>7, SealedNumber
    <2>2. get(Bytes(Sealed(req), 12, 4)) = m.free
      BY <1>1, <1>6, <1>7, SealedNumber
    <2> QED
      BY <2>1, <2>2 DEF SizeResult
  <1>10. ReadsBack(m)
    BY <1>1, <1>8, <1>9 DEF ReadsBack
  <1> QED
    BY <1>7, <1>10

\* As much of a file as a packet has room for.
DataMessages == [kind: {"data"}, offset: Numbers(8), data: {data \in Seq(Byte) : Len(data) <= 65518}]

\* tf_cmd_put_data() says where, and what.
LEMMA DataIsRead ==
    ASSUME NEW m \in DataMessages
    PROVE  (\E req : Carries(m, req)) /\ ReadsBack(m)
  <1> DEFINE head == tf_req_init(FILE_DATA)
             start == head \o put(8, m.offset)
             data == m.data
             req == start \o data
             p == Sealed(req)
  <1>1. /\ m.kind = "data" /\ m.offset \in Numbers(8)
        /\ data \in Seq(Byte) /\ Len(data) <= 65518
    BY DEF DataMessages
  <1>2. Encode(m) = tf_req_done(req)
    BY <1>1 DEF Encode, tf_cmd_put_data
  <1>3. FILE_DATA \in Nat /\ FILE_DATA < 65536
    BY DEF FILE_DATA
  <1>4. /\ head \in Seq(Byte) /\ Len(head) = 8
        /\ Stands(head, 4, put(4, FILE_DATA)) /\ FILE_DATA \in Numbers(4)
    BY <1>3, CommandIs
  <1> HIDE DEF head, data
  <1>5. /\ start \in Seq(Byte) /\ Len(start) = 8 + 8 /\ Stands(start, 8, put(8, m.offset))
        /\ Stands(start, 4, put(4, FILE_DATA))
    <2>1. head \in Seq(Byte) /\ m.offset \in Numbers(8) /\ 8 \in {2, 4, 8}
      BY <1>1, <1>4
    <2>2. /\ start \in Seq(Byte) /\ Len(start) = Len(head) + 8
          /\ Stands(start, Len(head), put(8, m.offset))
          /\ \A at, b : Stands(head, at, b) => Stands(start, at, b)
      BY <2>1, NumberFollows
    <2> HIDE DEF start
    <2> QED
      BY <1>4, <2>2
  <1> HIDE DEF start
  <1>6. start \in Seq(Byte) /\ Len(start) = 16 /\ data \in Seq(Byte) /\ Len(data) \in Nat
    BY <1>1, <1>5
  <1>7. req \in Seq(Byte) /\ Len(req) = 16 + Len(data) /\ Stands(req, 16, data)
    BY <1>6, StandsBehind
  <1>8. Stands(req, 8, put(8, m.offset)) /\ Stands(req, 4, put(4, FILE_DATA))
    BY <1>5, <1>6, StandsStill
  <1> HIDE DEF req
  <1>9. Carries(m, req)
    <2>1. Len(req) >= 8 /\ Len(req) < 65536
      BY <1>1, <1>6, <1>7
    <2>2. req \in Seq(Byte)
      BY <1>7
    <2> QED
      BY <1>2, <2>1, <2>2, Fits
  <1>10. /\ tf_get_response(Wire(Encode(m)), 0) = [error |-> 0, packet |-> p]
         /\ Len(p) = Len(req) /\ Stands(p, 16, data)
    BY <1>7, <1>9, SealedArrives
  <1>11. BufferOf(p) = [offset |-> m.offset, data |-> data]
    <2>1. get(Bytes(p, 8, 8)) = m.offset
      BY <1>1, <1>8, <1>9, SealedNumber
    <2>2. Len(p) - 16 = Len(data)
      BY <1>6, <1>7, <1>10
    <2>3. Bytes(p, 16, Len(data)) = data
      BY <1>10, StandsRead
    <2> HIDE DEF p
    <2> QED
      BY <2>1, <2>2, <2>3 DEF BufferOf
  <1>12. Command(p) = FILE_DATA
    <2>1. get(Bytes(p, 4, 4)) = FILE_DATA
      BY <1>4, <1>8, <1>9, SealedNumber
    <2> QED
      BY <2>1 DEF Command
  <1> HIDE DEF p
  <1>13. ReadsBack(m)
    BY <1>1, <1>10, <1>11, <1>12 DEF ReadsBack, data
  <1> QED
    BY <1>9, <1>13

\* A number of two bytes, the upper one first.
LEMMA TwoBytesPut ==
    ASSUME NEW h \in Byte, NEW l \in Byte
    PROVE  put(2, 256 * h + l) = <<h, l>>
  <1> DEFINE val == 256 * h + l
  <1>1. val \in Nat /\ val % 256 = l /\ val \div 256 = h /\ h % 256 = h
    BY DEF Byte
  <1> HIDE DEF val
  <1>0. PICK L : Digits(L, 2, val)
    BY <1>1, PutDigits
  <1>2. Lefts(L, 2, val) /\ \A i \in 1..2 : put(2, val)[i] = L[2 - i] % 256
    BY <1>0 DEF Digits
  <1>3. put(2, val) \in Seq(Byte) /\ Len(put(2, val)) = 2
    BY <1>1, PutLength
  <1>4. L[0] = val /\ L[1] = h
    <2>1. L[0] = val /\ \A k \in 1..2 : L[k] = L[k - 1] \div 256
      BY <1>2 DEF Lefts
    <2>2. L[1] = L[0] \div 256
      BY <2>1
    <2> QED
      BY <1>1, <2>1, <2>2
  <1>5. put(2, val)[1] = h /\ put(2, val)[2] = l
    <2>1. put(2, val)[1] = L[1] % 256 /\ put(2, val)[2] = L[0] % 256
      BY <1>2
    <2> QED
      BY <1>1, <1>4, <2>1
  <1> DEFINE p == put(2, val)
  <1> HIDE DEF p
  <1>6. p = <<h, l>>
    BY <1>3, <1>5 DEF p
  <1> QED
    BY <1>6 DEF p, val

\* A number of four bytes of which only the last is not zero.
LEMMA SmallNumberPut ==
    ASSUME NEW b \in Byte
    PROVE  put(4, b) \in Seq(Byte) /\ Len(put(4, b)) = 4
           /\ put(4, b)[1] = 0 /\ put(4, b)[2] = 0 /\ put(4, b)[3] = 0 /\ put(4, b)[4] = b
  <1>1. b \in Nat /\ b % 256 = b /\ b \div 256 = 0 /\ 0 \div 256 = 0 /\ 0 % 256 = 0
    BY DEF Byte
  <1>0. PICK L : Digits(L, 4, b)
    BY <1>1, PutDigits
  <1>2. Lefts(L, 4, b) /\ \A i \in 1..4 : put(4, b)[i] = L[4 - i] % 256
    BY <1>0 DEF Digits
  <1>3. put(4, b) \in Seq(Byte) /\ Len(put(4, b)) = 4
    BY <1>1, PutLength
  <1>4. L[0] = b /\ L[1] = 0 /\ L[2] = 0 /\ L[3] = 0
    <2>1. L[0] = b /\ \A k \in 1..4 : L[k] = L[k - 1] \div 256
      BY <1>2 DEF Lefts
    <2>2. L[1] = L[0] \div 256 /\ L[2] = L[1] \div 256 /\ L[3] = L[2] \div 256
      BY <2>1
    <2> QED
      BY <1>1, <2>1, <2>2
  <1>5. /\ put(4, b)[1] = L[3] % 256 /\ put(4, b)[2] = L[2] % 256
        /\ put(4, b)[3] = L[1] % 256 /\ put(4, b)[4] = L[0] % 256
    BY <1>2
  <1> QED
    BY <1>1, <1>3, <1>4, <1>5

\* The first steps of the checksum of a small number, and the last of SUCCESS.
LEMMA StepsOfSuccess ==
    CrcStep({}, 0) = {} /\ CrcStep({}, SUCCESS) = {0, 7, 8, 14, 15}
  <1>1. \A b \in Byte : CrcStep({}, b) = crc_16_table[BitsOf[b]] /\ BitsOf[b] \in SUBSET (0..7)
    <2> TAKE b \in Byte
    <2>1. {} \in Crcs
      BY DEF Crcs
    <2>2. Lower({}) = {} /\ Upper({}) = {}
      BY DEF Lower, Upper
    <2>3. CrcStep({}, b) = Xor(crc_16_table[Xor({}, BitsOf[b])], {})
      BY <2>1, <2>2, StepBits
    <2>4. BitsOf[b] \in SUBSET (0..7)
      BY BitsAre
    <2>5. Xor({}, BitsOf[b]) = BitsOf[b]
      BY DEF Xor
    <2>6. crc_16_table[BitsOf[b]] \in SUBSET (0..15)
      BY <2>4, EntryBits
    <2>7. Xor(crc_16_table[BitsOf[b]], {}) = crc_16_table[BitsOf[b]]
      BY DEF Xor
    <2> QED
      BY <2>3, <2>4, <2>5, <2>7
  <1>2. 0 \in Byte /\ SUCCESS \in Byte /\ BitsOf[0] = {} /\ BitsOf[SUCCESS] = {1}
    <2>1. 0 \in Byte /\ 2 \in Byte
      BY DEF Byte
    <2>2. BitsOf[0] = {}
      <3>1. \A i \in 0..7 : (0 \div Bit(i)) % 2 # 1
        <4> TAKE i \in 0..7
        <4>1. i = 0 \/ i = 1 \/ i = 2 \/ i = 3 \/ i = 4 \/ i = 5 \/ i = 6 \/ i = 7
          OBVIOUS
        <4> QED
          BY <4>1, BitValues
      <3> QED
        BY <2>1, <3>1 DEF BitsOf, Byte
    <2>3. BitsOf[2] = {1}
      <3>1. \A i \in 0..7 : (2 \div Bit(i)) % 2 = 1 <=> i = 1
        <4> TAKE i \in 0..7
        <4>1. i = 0 \/ i = 1 \/ i = 2 \/ i = 3 \/ i = 4 \/ i = 5 \/ i = 6 \/ i = 7
          OBVIOUS
        <4> QED
          BY <4>1, BitValues
      <3>2. BitsOf[2] = {i \in 0..7 : (2 \div Bit(i)) % 2 = 1}
        BY <2>1 DEF BitsOf, Byte
      <3> QED
        BY <3>1, <3>2
    <2> QED
      BY <2>1, <2>2, <2>3 DEF SUCCESS
  <1>3. ~Odd({}) /\ Odd({1})
    <2>1. Cardinality({}) = 0
      BY FS_EmptySet
    <2>2. Cardinality({1}) = 1
      BY FS_Singleton
    <2>3. 0 % 2 = 0 /\ 1 % 2 = 1
      OBVIOUS
    <2> QED
      BY <2>1, <2>2, <2>3 DEF Odd
  <1>4. crc_16_table[{}] = {}
    <2>1. {} \in SUBSET (0..7) /\ \A j : Having({}, j) = {}
      BY DEF Having
    <2>2. crc_16_table[{}] \in SUBSET (0..15) /\ \A j \in 0..15 : j \in crc_16_table[{}] <=> Odd(Having({}, j))
      BY <2>1, EntryBits
    <2> QED
      BY <1>3, <2>1, <2>2
  <1>5. crc_16_table[{1}] = {0, 7, 8, 14, 15}
    <2> DEFINE t == {1}
               e == {0, 7, 8, 14, 15}
    <2>1. t \in SUBSET (0..7) /\ PowerEntry[1 + 1] = e /\ e \in SUBSET (0..15)
      BY DEF PowerEntry
    <2>2. \A j : Having(t, j) = IF j \in PowerEntry[1 + 1] THEN t ELSE {}
      BY DEF Having
    <2>3. crc_16_table[t] \in SUBSET (0..15) /\ \A j \in 0..15 : j \in crc_16_table[t] <=> Odd(Having(t, j))
      BY <2>1, EntryBits
    <2>4. Odd(t)
      BY <1>3
    <2> HIDE DEF t, e
    <2>5. \A j \in 0..15 : j \in crc_16_table[t] <=> j \in e
      BY <1>3, <2>1, <2>2, <2>3, <2>4
    <2>6. crc_16_table[t] = e
      BY <2>1, <2>3, <2>5
    <2> QED
      BY <2>6 DEF t, e
  <1> QED
    BY <1>1, <1>2, <1>4, <1>5

\* The checksum of SUCCESS.
LEMMA CrcOfSuccess ==
    ASSUME NEW d \in Seq(Byte), Len(d) = 4, d[1] = 0, d[2] = 0, d[3] = 0, d[4] = SUCCESS
    PROVE  crc16_ansi(d) = 256 * 193 + 129
  <1>1. PICK R \in [0..4 -> Crcs] : Summing(R, 4, d)
    BY CrcTrace
  <1>2. /\ R[0] = {} /\ CrcBits(d) = R[4]
        /\ \A k \in 1..4 : R[k] = CrcStep(R[k - 1], d[k])
    BY <1>1 DEF Summing
  <1>3. /\ R[1] = CrcStep(R[0], 0) /\ R[2] = CrcStep(R[1], 0)
        /\ R[3] = CrcStep(R[2], 0) /\ R[4] = CrcStep(R[3], SUCCESS)
    <2>1. 1 \in 1..4 /\ 2 \in 1..4 /\ 3 \in 1..4 /\ 4 \in 1..4 /\ 1 - 1 = 0 /\ 2 - 1 = 1 /\ 3 - 1 = 2 /\ 4 - 1 = 3
      OBVIOUS
    <2> QED
      BY <1>2, <2>1
  <1>4. CrcBits(d) = {0, 7, 8, 14, 15}
    <2> DEFINE none == {}
               last == {0, 7, 8, 14, 15}
    <2>1. R[0] = none /\ CrcStep(none, 0) = none /\ CrcStep(none, SUCCESS) = last
      BY <1>2, StepsOfSuccess
    <2> HIDE DEF none, last
    <2>2. CrcBits(d) = last
      BY <1>2, <1>3, <2>1
    <2> QED
      BY <2>2 DEF last
  <1>5. PICK h \in Byte, l \in Byte : /\ crc16_ansi(d) = 256 * h + l
                                      /\ BitsOf[h] = Upper(CrcBits(d)) /\ BitsOf[l] = Lower(CrcBits(d))
    BY CrcHalves
  <1>6. Upper(CrcBits(d)) = {0, 6, 7} /\ Lower(CrcBits(d)) = {0, 7}
    <2> DEFINE c == {0, 7, 8, 14, 15}
    <2>1. c \cap (0..7) = {0, 7}
      OBVIOUS
    <2>2. \A i : i \in c \ (0..7) <=> i = 8 \/ i = 14 \/ i = 15
      OBVIOUS
    <2> HIDE DEF c
    <2>3. {i - 8 : i \in c \ (0..7)} = {0, 6, 7}
      <3>1. 8 \in c \ (0..7) /\ 14 \in c \ (0..7) /\ 15 \in c \ (0..7)
        BY <2>2
      <3>2. 8 - 8 = 0 /\ 14 - 8 = 6 /\ 15 - 8 = 7
        OBVIOUS
      <3>3. \A i \in c \ (0..7) : i - 8 = 0 \/ i - 8 = 6 \/ i - 8 = 7
        BY <2>2, <3>2
      <3> DEFINE u == c \ (0..7)
      <3> HIDE DEF u
      <3>4. \A j : j \in {i - 8 : i \in u} <=> \E i \in u : j = i - 8
        OBVIOUS
      <3>5. \A j : j \in {i - 8 : i \in u} <=> j = 0 \/ j = 6 \/ j = 7
        BY <3>1, <3>2, <3>3, <3>4 DEF u
      <3>6. {i - 8 : i \in u} = {0, 6, 7}
        BY <3>5
      <3> QED
        BY <3>6 DEF u
    <2>4. Upper(c) = {0, 6, 7} /\ Lower(c) = {0, 7}
      BY <2>1, <2>3 DEF Upper, Lower
    <2> QED
      BY <1>4, <2>4 DEF c
  <1>7. 193 \in Byte /\ 129 \in Byte
    BY DEF Byte
  <1>8. BitsOf[193] = {0, 6, 7} /\ BitsOf[129] = {0, 7}
    <2>1. \A i \in 0..7 : ((193 \div Bit(i)) % 2 = 1 <=> i = 0 \/ i = 6 \/ i = 7)
                          /\ ((129 \div Bit(i)) % 2 = 1 <=> i = 0 \/ i = 7)
      <3> TAKE i \in 0..7
      <3>1. i = 0 \/ i = 1 \/ i = 2 \/ i = 3 \/ i = 4 \/ i = 5 \/ i = 6 \/ i = 7
        OBVIOUS
      <3> QED
        BY <3>1, BitValues
    <2>2. BitsOf[193] = {i \in 0..7 : (193 \div Bit(i)) % 2 = 1}
      BY <1>7 DEF BitsOf, Byte
    <2>3. BitsOf[129] = {i \in 0..7 : (129 \div Bit(i)) % 2 = 1}
      BY <1>7 DEF BitsOf, Byte
    <2> QED
      BY <2>1, <2>2, <2>3
  <1>9. h = 193 /\ l = 129
    <2>1. BitsOf[h] = BitsOf[193] /\ BitsOf[l] = BitsOf[129]
      BY <1>5, <1>6, <1>8
    <2>2. h = 193
      BY <1>5, <1>7, <2>1, BitsTell
    <2>3. l = 129
      BY <1>5, <1>7, <2>1, BitsTell
    <2> QED
      BY <2>2, <2>3
  <1> QED
    BY <1>5, <1>9

SuccessMessages == [kind: {"success"}]

\* The fixed SUCCESS packet is the one that would be computed.
LEMMA SuccessIsComputed == success_packet = tf_req_done(tf_req_init(SUCCESS))
  <1> DEFINE req == tf_req_init(SUCCESS)
             s == Sealed(req)
             d == Bytes(req, 4, 8 - 4)
             done == tf_req_done(req)
  <1>1. SUCCESS \in Byte /\ SUCCESS \in Nat /\ SUCCESS < 65536
    BY DEF SUCCESS, Byte
  <1>2. req \in Seq(Byte) /\ Len(req) = 8 /\ Stands(req, 4, put(4, SUCCESS))
    BY <1>1, CommandIs
  <1> HIDE DEF req
  <1>3. /\ put(4, SUCCESS) \in Seq(Byte) /\ Len(put(4, SUCCESS)) = 4
        /\ put(4, SUCCESS)[1] = 0 /\ put(4, SUCCESS)[2] = 0 /\ put(4, SUCCESS)[3] = 0
        /\ put(4, SUCCESS)[4] = SUCCESS
    BY <1>1, SmallNumberPut
  <1>4. d = put(4, SUCCESS)
    <2>1. Bytes(req, 4, Len(put(4, SUCCESS))) = put(4, SUCCESS)
      BY <1>2, StandsRead
    <2>2. Len(put(4, SUCCESS)) = 8 - 4
      BY <1>3
    <2> QED
      BY <2>1, <2>2
  <1>5. crc16_ansi(d) = 256 * 193 + 129
    <2>1. d \in Seq(Byte) /\ Len(d) = 4 /\ d[1] = 0 /\ d[2] = 0 /\ d[3] = 0 /\ d[4] = SUCCESS
      BY <1>3, <1>4
    <2> HIDE DEF d
    <2> QED
      BY <2>1, CrcOfSuccess
  <1>6. put(2, 8) = <<0, 8>> /\ put(2, 256 * 193 + 129) = <<193, 129>>
    <2>1. 0 \in Byte /\ 8 \in Byte /\ 193 \in Byte /\ 129 \in Byte /\ 256 * 0 + 8 = 8
      BY DEF Byte
    <2>2. put(2, 256 * 0 + 8) = <<0, 8>>
      BY <2>1, TwoBytesPut
    <2>3. put(2, 256 * 193 + 129) = <<193, 129>>
      BY <2>1, TwoBytesPut
    <2> QED
      BY <2>1, <2>2, <2>3
  <1>7. s = <<0, 8>> \o <<193, 129>> \o d
    BY <1>2, <1>5, <1>6 DEF Sealed
  <1>8. /\ s \in Seq(Byte) /\ Len(s) = 8
        /\ s[1] = 0 /\ s[2] = 8 /\ s[3] = 193 /\ s[4] = 129
        /\ s[5] = 0 /\ s[6] = 0 /\ s[7] = 0 /\ s[8] = 2
    <2> DEFINE a == <<0, 8>>
               b == <<193, 129>>
               ab == a \o b
    <2>1. a \in Seq(Byte) /\ b \in Seq(Byte) /\ Len(a) = 2 /\ Len(b) = 2 /\ a[1] = 0 /\ a[2] = 8 /\ b[1] = 193 /\ b[2] = 129
      BY DEF Byte
    <2> HIDE DEF a, b
    <2>2. /\ ab \in Seq(Byte) /\ Len(ab) = 4
          /\ ab[1] = 0 /\ ab[2] = 8 /\ ab[3] = 193 /\ ab[4] = 129
      <3>1. /\ ab \in Seq(Byte) /\ Len(ab) = Len(a) + Len(b)
            /\ \A i \in 1..Len(a) : ab[i] = a[i]
            /\ \A i \in 1..Len(b) : ab[Len(a) + i] = b[i]
        <4>1. a \in Seq(Byte) /\ b \in Seq(Byte)
          BY <2>1
        <4> QED
          BY <4>1, Joined
      <3>2. 1 \in 1..2 /\ 2 \in 1..2 /\ 2 + 1 = 3 /\ 2 + 2 = 4
        OBVIOUS
      <3> HIDE DEF ab
      <3> QED
        BY <2>1, <3>1, <3>2
    <2>3. d \in Seq(Byte) /\ Len(d) = 4 /\ d[1] = 0 /\ d[2] = 0 /\ d[3] = 0 /\ d[4] = 2
      BY <1>3, <1>4 DEF SUCCESS
    <2> HIDE DEF ab, d
    <2>4. s = ab \o d
      BY <1>7 DEF ab, a, b
    <2> HIDE DEF s
    <2>5. /\ ab \o d \in Seq(Byte) /\ Len(ab \o d) = Len(ab) + Len(d)
          /\ \A i \in 1..Len(ab) : (ab \o d)[i] = ab[i]
          /\ \A i \in 1..Len(d) : (ab \o d)[Len(ab) + i] = d[i]
      <3>1. ab \in Seq(Byte) /\ d \in Seq(Byte)
        BY <2>2, <2>3
      <3> QED
        BY <3>1, Joined
    <2>6. /\ s \in Seq(Byte) /\ Len(s) = 4 + 4
          /\ \A i \in 1..4 : s[i] = ab[i] /\ s[4 + i] = d[i]
      BY <2>2, <2>3, <2>4, <2>5
    <2>7. 1 \in 1..4 /\ 2 \in 1..4 /\ 3 \in 1..4 /\ 4 \in 1..4 /\ 4 + 1 = 5 /\ 4 + 2 = 6 /\ 4 + 3 = 7 /\ 4 + 4 = 8
      OBVIOUS
    <2> QED
      BY <2>2, <2>3, <2>6, <2>7
  <1>9. done = byte_swap(s, 8)
    <2>1. done = byte_swap(s \o <<>>, 8 + 0)
      <3>1. Len(req) % 2 = 0 /\ ~(Len(req) % 2 = 1)
        BY <1>2
      <3> QED
        BY <1>2, <3>1 DEF tf_req_done, Sealed
    <2>2. s \o <<>> = s
      <3> HIDE DEF s
      <3> QED
        BY <1>8
    <2> QED
      BY <2>1, <2>2
  <1> HIDE DEF s, done
  <1>10. done \in Seq(Byte) /\ Len(done) = 8 /\ \A i \in 1..8 : done[i] = s[Place(i)]
    <2>1. s \in Seq(Byte) /\ 8 \in Nat /\ 8 % 2 = 0 /\ 8 <= Len(s)
      BY <1>8
    <2>2. /\ byte_swap(s, 8) \in Seq(Byte) /\ Len(byte_swap(s, 8)) = Len(s)
          /\ \A i \in 1..8 : byte_swap(s, 8)[i] = s[Place(i)]
      BY <2>1, Swapped
    <2> QED
      BY <1>8, <1>9, <2>2
  <1>11. /\ done[1] = 8 /\ done[2] = 0 /\ done[3] = 129 /\ done[4] = 193
         /\ done[5] = 0 /\ done[6] = 0 /\ done[7] = 2 /\ done[8] = 0
    <2>1. /\ Place(1) = 2 /\ Place(2) = 1 /\ Place(3) = 4 /\ Place(4) = 3
          /\ Place(5) = 6 /\ Place(6) = 5 /\ Place(7) = 8 /\ Place(8) = 7
      BY DEF Place
    <2>2. 1 \in 1..8 /\ 2 \in 1..8 /\ 3 \in 1..8 /\ 4 \in 1..8 /\ 5 \in 1..8 /\ 6 \in 1..8 /\ 7 \in 1..8 /\ 8 \in 1..8
      OBVIOUS
    <2>3. /\ done[1] = s[2] /\ done[2] = s[1] /\ done[3] = s[4] /\ done[4] = s[3]
          /\ done[5] = s[6] /\ done[6] = s[5] /\ done[7] = s[8] /\ done[8] = s[7]
      BY <1>10, <2>1, <2>2
    <2> QED
      BY <1>8, <2>3
  <1>12. done = <<8, 0, 129, 193, 0, 0, 2, 0>>
    BY <1>10, <1>11
  <1> QED
    BY <1>12 DEF success_packet, done, req

\* send_success() is read as it is meant.
LEMMA SuccessIsRead ==
    ASSUME NEW m \in SuccessMessages
    PROVE  (\E req : Carries(m, req)) /\ ReadsBack(m)
  <1> DEFINE req == tf_req_init(SUCCESS)
  <1>1. m.kind = "success"
    BY DEF SuccessMessages
  <1>2. Encode(m) = tf_req_done(req)
    <2>1. Encode(m) = success_packet
      BY <1>1 DEF Encode
    <2> QED
      BY <2>1, SuccessIsComputed
  <1>3. SUCCESS \in Nat /\ SUCCESS < 65536
    BY DEF SUCCESS
  <1>4. /\ req \in Seq(Byte) /\ Len(req) = 8
        /\ Stands(req, 4, put(4, SUCCESS)) /\ SUCCESS \in Numbers(4)
    BY <1>3, CommandIs
  <1> HIDE DEF req
  <1>5. Carries(m, req)
    <2>1. req \in Seq(Byte) /\ Len(req) >= 8 /\ Len(req) < 65536
      BY <1>4
    <2> QED
      BY <1>2, <2>1, Fits
  <1>6. tf_get_response(Wire(Encode(m)), 0) = [error |-> 0, packet |-> Sealed(req)]
    BY <1>5, SealedArrives
  <1>7. Command(Sealed(req)) = SUCCESS
    <2>1. get(Bytes(Sealed(req), 4, 4)) = SUCCESS
      BY <1>4, <1>5, SealedNumber
    <2> QED
      BY <2>1 DEF Command
  <1>8. ReadsBack(m)
    BY <1>1, <1>2, <1>6, <1>7 DEF ReadsBack, req
  <1> QED
    BY <1>5, <1>8

\* A name as it is sent is read up to its zero.
LEMMA NamedReads ==
    ASSUME NEW str \in Seq(Chars), NEW name, Named(name, str)
    PROVE  /\ UpToZero(name) = Len(str) /\ Bytes(name, 0, Len(str)) = Backslashed(str)
           /\ Stands(name, 0, Backslashed(str)) /\ Len(Backslashed(str)) = Len(str)
           /\ name \in Seq(Byte) /\ Len(name) \in Nat /\ Len(str) \in Nat /\ Len(str) < Len(name)
           /\ Len(name) <= Len(str) + 2
  <1> DEFINE n == Len(str)
             c == Backslashed(str)
  <1>1. /\ name \in Seq(Byte) /\ (Len(name) = n + 1 \/ Len(name) = n + 2)
        /\ \A i \in 1..n : name[i] = c[i]
        /\ name[n + 1] = 0
    BY DEF Named
  <1>2. n \in Nat
    OBVIOUS
  <1>3. c \in Seq(Byte) /\ Len(c) = n /\ \A i \in 1..n : c[i] # 0
    BY BackslashedIs
  <1>4. name \in Seq(Byte)
    BY DEF Named
  <1> HIDE DEF n, c
  <1>5. Len(name) = n + 1 \/ Len(name) = n + 2
    BY DEF Named, n
  <1>6. Len(name) \in Nat /\ n < Len(name) /\ Len(name) <= n + 2
    BY <1>2, <1>5
  <1>7. UpToZero(name) = n
    <2>1. \A i \in 1..n : name[i] # 0
      BY <1>1, <1>3
    <2> QED
      BY <1>1, <1>2, <1>4, <1>6, <2>1, ZeroIsFound
  <1>8. Stands(name, 0, c)
    <2>1. \A i \in 1..n : 0 + i = i
      BY <1>2
    <2>2. 0 + n <= Len(name) /\ 0 \in Nat
      BY <1>2, <1>6
    <2> QED
      BY <1>1, <1>3, <1>4, <2>1, <2>2 DEF Stands
  <1>9. Bytes(name, 0, Len(c)) = c
    BY <1>8, StandsRead
  <1> QED
    BY <1>2, <1>3, <1>4, <1>6, <1>7, <1>8, <1>9 DEF n, c

\* What tf_req_putfilename() leaves of a path, without its length and with it.
PathPut(q, req, str, name) ==
    /\ Named(name, str) /\ q \in Seq(Byte) /\ Len(q) % 2 = 0
    /\ Len(q) = Len(req) + Len(name) /\ Len(q) < Len(req) + 30002
    /\ Stands(q, Len(req), name)
NamePut(q, req, str, name) ==
    /\ Named(name, str) /\ q \in Seq(Byte) /\ Len(q) % 2 = 0
    /\ Len(q) = Len(req) + 2 + Len(name) /\ Len(q) < Len(req) + 30004
    /\ Stands(q, 0, req) /\ Len(name) \in Numbers(2)
    /\ Stands(q, Len(req), put(2, Len(name))) /\ Stands(q, Len(req) + 2, name)

\* tf_req_putfilename() without a length.
LEMMA PathIsPut ==
    ASSUME NEW req \in Seq(Byte), NEW str \in PathsThatFit
    PROVE  \E name : PathPut(tf_req_putfilename(req, str, FALSE), req, str, name)
  <1> DEFINE q == tf_req_putfilename(req, str, FALSE)
  <1>0. FALSE \in BOOLEAN
    OBVIOUS
  <1>1. PICK name : Filed(q, req, str, FALSE, name)
    BY <1>0, FilenameIsPut
  <1> HIDE DEF q
  <1> DEFINE l == LengthFirst(FALSE, name)
  <1>2. Len(l) = 0
    BY DEF LengthFirst
  <1> HIDE DEF l
  <1>3. /\ Named(name, str) /\ q \in Seq(Byte)
        /\ Len(q) = Len(req) + Len(l) + Len(name)
        /\ Len(q) % 2 = 0
        /\ Stands(q, Len(req) + Len(l), name)
    BY <1>1 DEF Filed, l
  <1>4. str \in Seq(Chars) /\ Len(str) \in Nat /\ Len(str) < 30000 /\ Len(req) \in Nat
    BY DEF PathsThatFit
  <1>5. Len(name) \in Nat /\ Len(name) <= Len(str) + 2
    <2>1. str \in Seq(Chars) /\ Named(name, str)
      BY <1>3, <1>4
    <2> QED
      BY <2>1, NamedReads
  <1>6. Len(req) + Len(l) = Len(req)
    BY <1>2, <1>4
  <1>7. Len(q) = Len(req) + Len(name) /\ Stands(q, Len(req), name)
    BY <1>3, <1>6
  <1>8. Len(q) < Len(req) + 30002
    BY <1>4, <1>5, <1>7
  <1>9. PathPut(q, req, str, name)
    BY <1>3, <1>7, <1>8 DEF PathPut
  <1> QED
    BY <1>9 DEF q

\* tf_req_putfilename() with a length.
LEMMA NameIsPut ==
    ASSUME NEW req \in Seq(Byte), NEW str \in PathsThatFit
    PROVE  \E name : NamePut(tf_req_putfilename(req, str, TRUE), req, str, name)
  <1> DEFINE q == tf_req_putfilename(req, str, TRUE)
  <1>0. TRUE \in BOOLEAN
    OBVIOUS
  <1>1. PICK name : Filed(q, req, str, TRUE, name)
    BY <1>0, FilenameIsPut
  <1> HIDE DEF q
  <1> DEFINE l == LengthFirst(TRUE, name)
  <1>2. l = put(2, Len(name))
    BY DEF LengthFirst
  <1> HIDE DEF l
  <1>3. /\ Named(name, str) /\ q \in Seq(Byte)
        /\ Len(q) = Len(req) + Len(l) + Len(name)
        /\ Len(q) % 2 = 0 /\ Stands(q, 0, req) /\ Stands(q, Len(req), l)
        /\ Stands(q, Len(req) + Len(l), name)
    BY <1>1 DEF Filed, l
  <1>4. str \in Seq(Chars) /\ Len(str) \in Nat /\ Len(str) < 30000 /\ Len(req) \in Nat
    BY DEF PathsThatFit
  <1>5. Len(name) \in Nat /\ Len(name) <= Len(str) + 2
    <2>1. str \in Seq(Chars) /\ Named(name, str)
      BY <1>3, <1>4
    <2> QED
      BY <2>1, NamedReads
  <1>6. Says(2, Len(name))
    <2>1. Len(name) \in Nat /\ Len(name) < 65536
      BY <1>4, <1>5
    <2> QED
      BY <2>1 DEF Says
  <1>7. Len(l) = 2
    <2>1. 2 \in {2, 4, 8}
      OBVIOUS
    <2> QED
      BY <1>2, <1>6, <2>1, PutIs
  <1>8. Len(q) = Len(req) + 2 + Len(name) /\ Stands(q, Len(req) + 2, name)
    BY <1>3, <1>7
  <1>9. Len(q) < Len(req) + 30004
    BY <1>4, <1>5, <1>8
  <1>10. Len(name) \in Numbers(2)
    BY <1>5, <1>6 DEF Numbers
  <1>11. Stands(q, Len(req), put(2, Len(name)))
    BY <1>2, <1>3
  <1>12. NamePut(q, req, str, name)
    BY <1>3, <1>8, <1>9, <1>10, <1>11 DEF NamePut
  <1> QED
    BY <1>12 DEF q

\* The device reads a name behind its length, and finds what follows.
LEMMA NameAtReads ==
    ASSUME NEW str \in Seq(Chars), NEW name, Named(name, str), Len(name) \in Numbers(2),
           NEW p, NEW at, Stands(p, at, put(2, Len(name))), Stands(p, at + 2, name)
    PROVE  NameAt(p, at) = [name |-> Backslashed(str), next |-> at + 2 + Len(name)]
  <1>1. get(Bytes(p, at, 2)) = Len(name)
    <2>1. 2 \in {2, 4, 8} /\ Says(2, Len(name))
      BY DEF Numbers
    <2> QED
      BY <2>1, NumberIsRead
  <1>2. Bytes(p, at + 2, Len(name)) = name
    BY StandsRead
  <1>3. UpToZero(name) = Len(str) /\ Bytes(name, 0, Len(str)) = Backslashed(str)
    BY NamedReads
  <1> QED
    BY <1>1, <1>2, <1>3 DEF NameAt

\* tf_cmd_delete() and tf_cmd_dir_first() name a path.
PathMessages == [kind: {"delete", "dir"}, path: PathsThatFit]

\* What the device reads of them.
LEMMA PathIsRead ==
    ASSUME NEW str \in Seq(Chars), NEW name, Named(name, str), NEW p, Len(p) - 8 = Len(name),
           Stands(p, 8, name)
    PROVE  Bytes(p, 8, UpToZero(Bytes(p, 8, Len(p) - 8))) = Backslashed(str)
  <1>1. Bytes(p, 8, Len(name)) = name
    BY StandsRead
  <1>2. /\ UpToZero(name) = Len(str) /\ Len(Backslashed(str)) = Len(str)
        /\ Stands(name, 0, Backslashed(str))
    BY NamedReads
  <1>3. Stands(p, 8 + 0, Backslashed(str))
    BY <1>2, StandsWithin
  <1>4. 8 + 0 = 8
    OBVIOUS
  <1>5. Stands(p, 8, Backslashed(str))
    BY <1>3, <1>4
  <1>6. Bytes(p, 8, Len(Backslashed(str))) = Backslashed(str)
    BY <1>5, StandsRead
  <1> QED
    BY <1>1, <1>2, <1>6

\* The device reads the path of tf_cmd_delete() and tf_cmd_dir_first().
LEMMA PathsAreRead ==
    ASSUME NEW m \in PathMessages
    PROVE  (\E req : Carries(m, req)) /\ ReadsBack(m)
  <1> DEFINE cmd == IF m.kind = "delete" THEN 4101 ELSE 4098
             head == tf_req_init(cmd)
             req == tf_req_putfilename(head, m.path, FALSE)
             p == Sealed(req)
  <1>1. m.kind \in {"delete", "dir"} /\ m.path \in PathsThatFit /\ m.path \in Seq(Chars)
    BY DEF PathMessages, PathsThatFit
  <1>2. Encode(m) = tf_req_done(tf_req_putfilename(tf_req_init(cmd), m.path, FALSE))
    <2>1. CASE m.kind = "delete"
      BY <2>1 DEF Encode, tf_cmd_delete
    <2>2. CASE m.kind = "dir"
      BY <2>2 DEF Encode, tf_cmd_dir_first
    <2>3. m.kind = "delete" \/ m.kind = "dir"
      BY <1>1
    <2> HIDE DEF cmd
    <2> DEFINE asked == Encode(m) = tf_req_done(tf_req_putfilename(tf_req_init(cmd), m.path, FALSE))
    <2>4. (m.kind = "delete" => asked) /\ (m.kind = "dir" => asked)
      BY <2>1, <2>2
    <2> HIDE DEF asked
    <2>5. asked
      BY <2>3, <2>4
    <2> QED
      BY <2>5 DEF asked
  <1>3. cmd \in Nat /\ cmd < 65536
    <2>1. cmd = 4101 \/ cmd = 4098
      OBVIOUS
    <2> HIDE DEF cmd
    <2> QED
      BY <2>1
  <1> HIDE DEF cmd
  <1>4. head \in Seq(Byte) /\ Len(head) = 8
    BY <1>3, CommandIs
  <1>5. Encode(m) = tf_req_done(req)
    BY <1>2
  <1> HIDE DEF head
  <1>6. PICK name : PathPut(req, head, m.path, name)
    BY <1>1, <1>4, PathIsPut
  <1> HIDE DEF req
  <1>7. /\ Named(name, m.path) /\ req \in Seq(Byte) /\ Len(req) % 2 = 0
        /\ Len(req) = 8 + Len(name) /\ Len(req) < 8 + 30002 /\ Stands(req, 8, name)
    BY <1>4, <1>6 DEF PathPut
  <1>8. Len(name) \in Nat
    BY <1>1, <1>7, NamedReads
  <1>9. Carries(m, req)
    <2>1. Len(req) >= 8 /\ Len(req) < 65536
      BY <1>7, <1>8
    <2>2. req \in Seq(Byte)
      BY <1>7
    <2> QED
      BY <1>5, <2>1, <2>2, Fits
  <1>10. /\ tf_get_response(Wire(Encode(m)), 0) = [error |-> 0, packet |-> p]
         /\ Len(p) = Len(req) /\ Stands(p, 8, name)
    BY <1>7, <1>9, SealedArrives
  <1> HIDE DEF p
  <1>11. Bytes(p, 8, UpToZero(Bytes(p, 8, Len(p) - 8))) = Backslashed(m.path)
    <2>1. Len(p) - 8 = Len(name)
      BY <1>7, <1>8, <1>10
    <2>2. Stands(p, 8, name) /\ Named(name, m.path) /\ m.path \in Seq(Chars)
      BY <1>1, <1>7, <1>10
    <2> QED
      BY <2>1, <2>2, PathIsRead
  <1>12. Len(p) % 2 = 0
    BY <1>7, <1>10
  <1>13. ReadsBack(m)
    <2>1. m.kind = "delete" \/ m.kind = "dir"
      BY <1>1
    <2> DEFINE r == tf_get_response(Wire(Encode(m)), 0)
    <2>2. r.error = 0 /\ r.packet = p
      BY <1>10
    <2> HIDE DEF r
    <2> QED
      BY <1>11, <1>12, <2>1, <2>2 DEF ReadsBack, r
  <1> QED
    BY <1>9, <1>13

MkdirMessages == [kind: {"mkdir"}, path: PathsThatFit]

\* The device reads the path of tf_cmd_mkdir(), and nothing follows it.
LEMMA MkdirIsRead ==
    ASSUME NEW m \in MkdirMessages
    PROVE  (\E req : Carries(m, req)) /\ ReadsBack(m)
  <1> DEFINE head == tf_req_init(4103)
             req == tf_req_putfilename(head, m.path, TRUE)
             p == Sealed(req)
  <1>1. m.kind = "mkdir" /\ m.path \in PathsThatFit /\ m.path \in Seq(Chars)
    BY DEF MkdirMessages, PathsThatFit
  <1>2. Encode(m) = tf_req_done(req)
    BY <1>1 DEF Encode, tf_cmd_mkdir
  <1>3. head \in Seq(Byte) /\ Len(head) = 8
    BY CommandIs
  <1> HIDE DEF head
  <1>4. PICK name : NamePut(req, head, m.path, name)
    BY <1>1, <1>3, NameIsPut
  <1> HIDE DEF req
  <1>5. /\ Named(name, m.path) /\ req \in Seq(Byte) /\ Len(req) % 2 = 0
        /\ Len(req) = 8 + 2 + Len(name) /\ Len(req) < 8 + 30004
        /\ Stands(req, 8, put(2, Len(name))) /\ Stands(req, 8 + 2, name)
        /\ Len(name) \in Numbers(2)
    BY <1>3, <1>4 DEF NamePut
  <1>6. Len(name) \in Nat
    BY <1>1, <1>5, NamedReads
  <1>7. Carries(m, req)
    <2>1. Len(req) >= 8 /\ Len(req) < 65536
      BY <1>5, <1>6
    <2>2. req \in Seq(Byte)
      BY <1>5
    <2> QED
      BY <1>2, <2>1, <2>2, Fits
  <1>8. /\ tf_get_response(Wire(Encode(m)), 0) = [error |-> 0, packet |-> p]
        /\ Len(p) = Len(req)
        /\ Stands(p, 8, put(2, Len(name))) /\ Stands(p, 8 + 2, name)
    <2>1. 8 >= 4 /\ 8 + 2 >= 4
      OBVIOUS
    <2>2. /\ tf_get_response(Wire(Encode(m)), 0) = [error |-> 0, packet |-> p]
          /\ Len(p) = Len(req)
          /\ \A at, b : at >= 4 /\ Stands(req, at, b) => Stands(p, at, b)
      BY <1>7, SealedArrives
    <2> HIDE DEF p
    <2> QED
      BY <1>5, <2>1, <2>2
  <1> HIDE DEF p
  <1>9. NameAt(p, 8) = [name |-> Backslashed(m.path), next |-> 8 + 2 + Len(name)]
    <2>1. /\ Named(name, m.path) /\ m.path \in Seq(Chars) /\ Len(name) \in Numbers(2)
          /\ Stands(p, 8, put(2, Len(name))) /\ Stands(p, 8 + 2, name)
      BY <1>1, <1>5, <1>8
    <2> QED
      BY <2>1, NameAtReads
  <1>10. NameAt(p, 8) = [name |-> Backslashed(m.path), next |-> Len(p)] /\ Len(p) % 2 = 0
    BY <1>5, <1>8, <1>9
  <1>11. ReadsBack(m)
    <2>1. m.kind = "mkdir"
      BY <1>1
    <2> DEFINE r == tf_get_response(Wire(Encode(m)), 0)
    <2>2. r.error = 0 /\ r.packet = p
      BY <1>8
    <2> HIDE DEF r
    <2> QED
      BY <1>10, <2>1, <2>2 DEF ReadsBack, r
  <1> QED
    BY <1>7, <1>11

RenameMessages == [kind: {"rename"}, path: PathsThatFit, dest: PathsThatFit]

\* The device reads both paths of tf_cmd_rename(), one behind the other.
LEMMA RenameIsRead ==
    ASSUME NEW m \in RenameMessages
    PROVE  (\E req : Carries(m, req)) /\ ReadsBack(m)
  <1> DEFINE head == tf_req_init(4102)
             half == tf_req_putfilename(head, m.path, TRUE)
             req == tf_req_putfilename(half, m.dest, TRUE)
             p == Sealed(req)
  <1>1. /\ m.kind = "rename" /\ m.path \in PathsThatFit /\ m.path \in Seq(Chars)
        /\ m.dest \in PathsThatFit /\ m.dest \in Seq(Chars)
    BY DEF RenameMessages, PathsThatFit
  <1>2. Encode(m) = tf_req_done(req)
    BY <1>1 DEF Encode, tf_cmd_rename
  <1>3. head \in Seq(Byte) /\ Len(head) = 8
    BY CommandIs
  <1> HIDE DEF head
  <1>4. PICK name : NamePut(half, head, m.path, name)
    BY <1>1, <1>3, NameIsPut
  <1> HIDE DEF half
  <1>5. /\ Named(name, m.path) /\ half \in Seq(Byte)
        /\ Len(half) = 8 + 2 + Len(name) /\ Len(half) < 8 + 30004
        /\ Stands(half, 8, put(2, Len(name))) /\ Stands(half, 8 + 2, name)
        /\ Len(name) \in Numbers(2)
    BY <1>3, <1>4 DEF NamePut
  <1>6. PICK other : NamePut(req, half, m.dest, other)
    <2>1. half \in Seq(Byte) /\ m.dest \in PathsThatFit
      BY <1>1, <1>5
    <2> QED
      BY <2>1, NameIsPut
  <1> HIDE DEF req
  <1>7. /\ Named(other, m.dest) /\ req \in Seq(Byte) /\ Len(req) % 2 = 0
        /\ Len(req) = Len(half) + 2 + Len(other) /\ Len(req) < Len(half) + 30004
        /\ Stands(req, Len(half), put(2, Len(other))) /\ Stands(req, Len(half) + 2, other)
        /\ Stands(req, 0, half) /\ Len(other) \in Numbers(2)
    BY <1>6 DEF NamePut
  <1>8. Len(name) \in Nat /\ Len(other) \in Nat /\ Len(half) \in Nat /\ Len(half) >= 8
    <2>1. m.path \in Seq(Chars) /\ Named(name, m.path)
      BY <1>1, <1>5
    <2>2. m.dest \in Seq(Chars) /\ Named(other, m.dest)
      BY <1>1, <1>7
    <2>3. Len(name) \in Nat
      BY <2>1, NamedReads
    <2>4. Len(other) \in Nat
      BY <2>2, NamedReads
    <2> QED
      BY <1>5, <2>3, <2>4
  <1>9. Carries(m, req)
    <2>1. Len(req) >= 8 /\ Len(req) < 65536
      BY <1>5, <1>7, <1>8
    <2>2. req \in Seq(Byte)
      BY <1>7
    <2> QED
      BY <1>2, <2>1, <2>2, Fits
  <1>10. Stands(req, 8, put(2, Len(name))) /\ Stands(req, 8 + 2, name)
    <2>1. Stands(req, 0 + 8, put(2, Len(name)))
      BY <1>5, <1>7, StandsWithin
    <2>2. Stands(req, 0 + (8 + 2), name)
      BY <1>5, <1>7, StandsWithin
    <2>3. 0 + 8 = 8 /\ 0 + (8 + 2) = 8 + 2
      OBVIOUS
    <2> QED
      BY <2>1, <2>2, <2>3
  <1>11. /\ tf_get_response(Wire(Encode(m)), 0) = [error |-> 0, packet |-> p]
         /\ Len(p) = Len(req)
         /\ \A at, b : at >= 4 /\ Stands(req, at, b) => Stands(p, at, b)
    BY <1>9, SealedArrives
  <1> HIDE DEF p
  <1>12. NameAt(p, 8) = [name |-> Backslashed(m.path), next |-> Len(half)]
    <2>1. 8 >= 4 /\ 8 + 2 >= 4
      OBVIOUS
    <2>2. Stands(p, 8, put(2, Len(name))) /\ Stands(p, 8 + 2, name)
      BY <1>10, <1>11, <2>1
    <2>3. Named(name, m.path) /\ m.path \in Seq(Chars) /\ Len(name) \in Numbers(2)
      BY <1>1, <1>5
    <2>4. NameAt(p, 8) = [name |-> Backslashed(m.path), next |-> 8 + 2 + Len(name)]
      BY <2>2, <2>3, NameAtReads
    <2> QED
      BY <1>5, <2>4
  <1>13. NameAt(p, Len(half)) = [name |-> Backslashed(m.dest), next |-> Len(p)]
    <2>1. Len(half) >= 4 /\ Len(half) + 2 >= 4
      BY <1>8
    <2>2. Stands(p, Len(half), put(2, Len(other))) /\ Stands(p, Len(half) + 2, other)
      BY <1>7, <1>11, <2>1
    <2>3. Named(other, m.dest) /\ m.dest \in Seq(Chars) /\ Len(other) \in Numbers(2)
      BY <1>1, <1>7
    <2>4. NameAt(p, Len(half)) = [name |-> Backslashed(m.dest), next |-> Len(half) + 2 + Len(other)]
      BY <2>2, <2>3, NameAtReads
    <2>5. Len(half) + 2 + Len(other) = Len(p)
      BY <1>7, <1>11
    <2> QED
      BY <2>4, <2>5
  <1>14. Len(p) % 2 = 0
    BY <1>7, <1>11
  <1>15. ReadsBack(m)
    <2>1. m.kind = "rename"
      BY <1>1
    <2> DEFINE r == tf_get_response(Wire(Encode(m)), 0)
    <2>2. r.error = 0 /\ r.packet = p
      BY <1>11
    <2> HIDE DEF r
    <2>3. /\ NameAt(p, 8).name = Backslashed(m.path)
          /\ NameAt(p, NameAt(p, 8).next) = [name |-> Backslashed(m.dest), next |-> Len(p)]
      BY <1>12, <1>13
    <2> QED
      BY <1>14, <2>1, <2>2, <2>3 DEF ReadsBack, r
  <1> QED
    BY <1>9, <1>15

SendMessages == [kind: {"send"}, direction: Byte, path: PathsThatFit, offset: Numbers(8)]

\* The device reads the direction, the path and the offset of tf_cmd_put() and
\* tf_cmd_get(), of which the last is at an even place.
LEMMA SendIsRead ==
    ASSUME NEW m \in SendMessages
    PROVE  (\E req : Carries(m, req)) /\ ReadsBack(m)
  <1> DEFINE head == tf_req_init(FILE_SEND)
             one == <<m.direction>>
             start == head \o one
             half == tf_req_putfilename(start, m.path, TRUE)
             req == half \o put(8, m.offset)
             p == Sealed(req)
  <1>1. /\ m.kind = "send" /\ m.path \in PathsThatFit /\ m.path \in Seq(Chars)
        /\ m.direction \in Byte /\ m.offset \in Numbers(8)
    BY DEF SendMessages, PathsThatFit
  <1>2. FILE_SEND \in Nat /\ FILE_SEND < 65536
    BY DEF FILE_SEND
  <1>3. head \in Seq(Byte) /\ Len(head) = 8
    BY <1>2, CommandIs
  <1>4. Encode(m) = tf_req_done(req)
    <2>1. Append(head, m.direction) = start
      <3>1. \A b : b \in Byte => Append(head, b) = head \o <<b>>
        BY <1>3
      <3> QED
        BY <1>1, <3>1
    <2>2. Encode(m) = FileSend(m.direction, m.path, m.offset)
      BY <1>1 DEF Encode
    <2> QED
      BY <2>1, <2>2 DEF FileSend
  <1> HIDE DEF head
  <1>5. one \in Seq(Byte) /\ Len(one) = 1 /\ one[1] = m.direction
    BY <1>1
  <1> HIDE DEF one
  <1>6. start \in Seq(Byte) /\ Len(start) = 8 + 1 /\ Stands(start, 8, one)
    BY <1>3, <1>5, StandsBehind
  <1> HIDE DEF start
  <1>7. PICK name : NamePut(half, start, m.path, name)
    BY <1>1, <1>6, NameIsPut
  <1> HIDE DEF half
  <1>8. /\ Named(name, m.path) /\ half \in Seq(Byte) /\ Len(half) % 2 = 0
        /\ Len(half) = 9 + 2 + Len(name) /\ Len(half) < 9 + 30004
        /\ Stands(half, 9, put(2, Len(name))) /\ Stands(half, 9 + 2, name)
        /\ Stands(half, 0, start) /\ Len(name) \in Numbers(2)
    <2>1. Len(start) = 9
      BY <1>6
    <2> QED
      BY <1>7, <2>1 DEF NamePut
  <1>9. Stands(half, 8, one)
    <2>1. Stands(half, 0 + 8, one)
      BY <1>6, <1>8, StandsWithin
    <2>2. 0 + 8 = 8
      OBVIOUS
    <2> QED
      BY <2>1, <2>2
  <1>10. /\ req \in Seq(Byte) /\ Len(req) = Len(half) + 8
         /\ Stands(req, Len(half), put(8, m.offset))
         /\ \A at, b : Stands(half, at, b) => Stands(req, at, b)
    <2>1. half \in Seq(Byte) /\ m.offset \in Numbers(8) /\ 8 \in {2, 4, 8}
      BY <1>1, <1>8
    <2> QED
      BY <2>1, NumberFollows
  <1> HIDE DEF req
  <1>11. Len(name) \in Nat /\ Len(half) \in Nat /\ Len(half) >= 9
    <2>1. m.path \in Seq(Chars) /\ Named(name, m.path)
      BY <1>1, <1>8
    <2>2. Len(name) \in Nat
      BY <2>1, NamedReads
    <2> QED
      BY <1>8, <2>2
  <1>12. Carries(m, req)
    <2>1. Len(req) >= 8 /\ Len(req) < 65536
      BY <1>8, <1>10, <1>11
    <2>2. req \in Seq(Byte)
      BY <1>10
    <2> QED
      BY <1>4, <2>1, <2>2, Fits
  <1>13. /\ tf_get_response(Wire(Encode(m)), 0) = [error |-> 0, packet |-> p]
         /\ Len(p) = Len(req)
         /\ \A at, b : at >= 4 /\ Stands(req, at, b) => Stands(p, at, b)
    BY <1>12, SealedArrives
  <1>14. get(Bytes(p, Len(half), 8)) = m.offset
    <2>1. Len(half) \in Nat /\ Len(half) >= 4 /\ 8 \in {2, 4, 8} /\ m.offset \in Numbers(8)
      BY <1>1, <1>11
    <2> QED
      BY <1>10, <1>12, <2>1, SealedNumber
  <1> HIDE DEF p
  <1>15. NameAt(p, 9) = [name |-> Backslashed(m.path), next |-> Len(half)]
    <2>1. 9 >= 4 /\ 9 + 2 >= 4
      OBVIOUS
    <2>2. Stands(p, 9, put(2, Len(name))) /\ Stands(p, 9 + 2, name)
      BY <1>8, <1>10, <1>13, <2>1
    <2>3. Named(name, m.path) /\ m.path \in Seq(Chars) /\ Len(name) \in Numbers(2)
      BY <1>1, <1>8
    <2>4. NameAt(p, 9) = [name |-> Backslashed(m.path), next |-> 9 + 2 + Len(name)]
      BY <2>2, <2>3, NameAtReads
    <2> QED
      BY <1>8, <2>4
  <1>16. p[9] = m.direction
    <2>1. 8 >= 4 /\ 8 + 1 = 9 /\ 1 \in 1..1
      OBVIOUS
    <2>2. Stands(p, 8, one)
      BY <1>9, <1>10, <1>13, <2>1
    <2>3. p[8 + 1] = one[1]
      BY <1>5, <2>1, <2>2 DEF Stands
    <2> QED
      BY <1>5, <2>1, <2>3
  <1>17. Len(p) % 2 = 0
    BY <1>8, <1>10, <1>11, <1>13
  <1>18. ReadsBack(m)
    <2>1. m.kind = "send"
      BY <1>1
    <2> DEFINE r == tf_get_response(Wire(Encode(m)), 0)
    <2>2. r.error = 0 /\ r.packet = p
      BY <1>13
    <2> HIDE DEF r
    <2>3. NameAt(p, 9).name = Backslashed(m.path) /\ NameAt(p, 9).next = Len(half)
      BY <1>15
    <2>4. Len(half) % 2 = 0
      BY <1>8
    <2> QED
      BY <1>14, <1>16, <1>17, <2>1, <2>2, <2>3, <2>4 DEF ReadsBack, r
  <1> QED
    BY <1>12, <1>18

-----------------------------------------------------------------------------
(* Damaged packets.                                                        *)

\* What is on the wire of a message, and what is read of it.
LEMMA WireCarries ==
    ASSUME NEW m, NEW req, Carries(m, req)
    PROVE  /\ Sealed(req) \in Seq(Byte) /\ Len(Sealed(req)) >= 8 /\ Sound(Sealed(req))
           /\ OnWire(Sealed(req), Wire(Encode(m)))
           /\ Len(Encode(m)) \in Nat /\ Len(Encode(m)) <= Len(Wire(Encode(m)))
           /\ Wire(Encode(m)) \in Seq(Byte) /\ Len(Wire(Encode(m))) >= 8
           /\ tf_get_response(Wire(Encode(m)), 0).packet = Sealed(req)
  <1> DEFINE s == Sealed(req)
             done == tf_req_done(req)
             wire == Wire(done)
  <1>1. req \in Requests /\ Encode(m) = done
    BY DEF Carries
  <1>2. s \in Seq(Byte) /\ Len(s) = Len(req) /\ Sound(s)
    BY <1>1, SealIsSound
  <1>3. OnWire(s, wire) /\ done \in Seq(Byte) /\ Len(done) = Len(req) + (Len(req) % 2)
    BY <1>1, WireOf
  <1>4. tf_get_response(Wire(Encode(m)), 0).packet = s
    <2>1. tf_get_response(Wire(Encode(m)), 0) = [error |-> 0, packet |-> s]
      BY SealedArrives
    <2> QED
      BY <2>1
  <1>5. Len(req) \in Nat /\ Len(req) >= 8
    BY <1>1 DEF Requests
  <1> HIDE DEF s, done, wire
  <1>6. wire \in Seq(Byte) /\ Len(wire) >= Len(s) + (Len(s) % 2)
    BY <1>3 DEF OnWire
  <1>7. Len(done) \in Nat /\ Len(done) <= Len(wire) /\ Len(wire) >= 8 /\ Len(s) >= 8
    BY <1>2, <1>3, <1>5, <1>6
  <1> QED
    BY <1>1, <1>2, <1>3, <1>4, <1>6, <1>7 DEF s, wire

\* Every change of a byte behind the length of a message is noticed.
LEMMA NoiseIsNoticed ==
    ASSUME NEW m, NEW req, Carries(m, req), NEW at \in Nat, at >= 3, NEW mask \in SUBSET (0..7)
    PROVE  Noticed(m, at, mask)
  <1> DEFINE s == Sealed(req)
             wire == Wire(Encode(m))
             bits == Xor(BitsOf[wire[at]], mask)
             changed == [wire EXCEPT ![at] = ByteOf[bits]]
             r == tf_get_response(changed, 0)
  <1>1. /\ s \in Seq(Byte) /\ Len(s) >= 8 /\ Sound(s) /\ OnWire(s, wire)
        /\ Len(Encode(m)) \in Nat /\ Len(Encode(m)) <= Len(wire) /\ wire \in Seq(Byte)
        /\ tf_get_response(wire, 0).packet = s
    BY WireCarries
  <1>2. Noticed(m, at, mask) <=>
            (at \in 3..Len(Encode(m)) => r.error # 0 \/ r.packet = tf_get_response(wire, 0).packet)
    BY DEF Noticed
  <1> HIDE DEF s, wire
  <1>3. ASSUME at \in 3..Len(Encode(m)) PROVE r.error # 0 \/ r.packet = tf_get_response(wire, 0).packet
    <2>1. Len(wire) \in Nat /\ at \in 1..Len(wire) /\ at <= Len(wire)
      BY <1>1, <1>3
    <2>2. wire[at] \in Byte
      BY <1>1, <2>1
    <2>3. BitsOf[wire[at]] \in SUBSET (0..7)
      BY <2>2, BitsAre
    <2>4. bits \in SUBSET (0..7)
      <3> DEFINE t == BitsOf[wire[at]]
      <3>1. t \in SUBSET (0..7)
        BY <2>3
      <3> HIDE DEF t
      <3>2. Xor(t, mask) \in SUBSET (0..7)
        BY <3>1 DEF Xor
      <3> QED
        BY <3>2 DEF t
    <2> HIDE DEF bits
    <2>5. ByteOf[bits] \in Byte
      BY <2>4, ByteHasBits
    <2> DEFINE b == ByteOf[bits]
    <2> HIDE DEF b
    <2>6. Noticing(tf_get_response([wire EXCEPT ![at] = b], 0), s)
      <3>1. b \in Byte
        BY <2>5 DEF b
      <3> QED
        BY <1>1, <2>1, <3>1, DamageIsNoticed
    <2>7. Noticing(r, s)
      BY <2>6 DEF b
    <2> HIDE DEF r
    <2> QED
      BY <1>1, <2>7 DEF Noticing
  <1> HIDE DEF r
  <1> QED
    BY <1>2, <1>3

\* Every end that is missing is noticed.
LEMMA EndIsMissed ==
    ASSUME NEW m, NEW req, Carries(m, req), NEW short \in Nat, short <= 8, NEW beyond \in Byte
    PROVE  CutNoticed(m, short, beyond)
  <1> DEFINE s == Sealed(req)
             wire == Wire(Encode(m))
             n == Len(wire) - short
             r == tf_get_response(Bytes(wire, 0, n), beyond)
  <1>1. /\ s \in Seq(Byte) /\ Len(s) >= 8 /\ Sound(s) /\ OnWire(s, wire)
        /\ wire \in Seq(Byte) /\ Len(wire) >= 8
        /\ tf_get_response(wire, 0).packet = s
    BY WireCarries
  <1>2. CutNoticed(m, short, beyond) <=> (r.error # 0 \/ r.packet = tf_get_response(wire, 0).packet)
    BY DEF CutNoticed
  <1> HIDE DEF s, wire
  <1>3. n \in Nat /\ n <= Len(wire)
    <2>1. Len(wire) \in Nat
      BY <1>1
    <2> QED
      BY <1>1, <2>1
  <1> HIDE DEF n
  <1>4. Noticing(r, s)
    BY <1>1, <1>3, CutIsNoticed
  <1> HIDE DEF r
  <1> QED
    BY <1>1, <1>2, <1>4 DEF Noticing

\* The messages of which every length is allowed that fits into a packet.
SentMessages ==
    PathMessages \cup MkdirMessages \cup RenameMessages \cup SendMessages \cup DataMessages
    \cup TurboMessages \cup SizeMessages \cup FailMessages \cup SuccessMessages

\* Every message is carried by a request, and read at the other end.
LEMMA MessagesAreRead ==
    ASSUME NEW m \in SentMessages
    PROVE  (\E req : Carries(m, req)) /\ ReadsBack(m)
  <1>1. CASE m \in PathMessages
    BY <1>1, PathsAreRead
  <1>2. CASE m \in MkdirMessages
    BY <1>2, MkdirIsRead
  <1>3. CASE m \in RenameMessages
    BY <1>3, RenameIsRead
  <1>4. CASE m \in SendMessages
    BY <1>4, SendIsRead
  <1>5. CASE m \in DataMessages
    BY <1>5, DataIsRead
  <1>6. CASE m \in TurboMessages
    BY <1>6, TurboIsRead
  <1>7. CASE m \in SizeMessages
    BY <1>7, SizeIsRead
  <1>8. CASE m \in FailMessages
    BY <1>8, FailIsRead
  <1>9. CASE m \in SuccessMessages
    BY <1>9, SuccessIsRead
  <1> QED
    BY <1>1, <1>2, <1>3, <1>4, <1>5, <1>6, <1>7, <1>8, <1>9 DEF SentMessages

-----------------------------------------------------------------------------
(* Entries of directories.                                                 *)

\* The bytes of an entry, from the offset at.
FieldsStand(p, at, mjd, clock, type, size, field, attrib) ==
    /\ Stands(p, at, put(2, mjd)) /\ Stands(p, at + 2, clock) /\ Stands(p, at + 5, <<type>>)
    /\ Stands(p, at + 6, size) /\ Stands(p, at + 14, field) /\ Stands(p, at + 110, put(4, attrib))

\* The fields of an entry that can be sent.
Fields(mjd, clock, type, size, field, attrib) ==
    /\ mjd \in Numbers(2) /\ attrib \in Numbers(4) /\ type \in Byte
    /\ clock \in Seq(Byte) /\ Len(clock) = 3
    /\ size \in Seq(Byte) /\ Len(size) = 8
    /\ field \in Seq(Byte) /\ Len(field) = 95

\* What is put behind a, one thing behind the other.
LEMMA OneFollows ==
    ASSUME NEW a \in Seq(Byte), NEW b \in Seq(Byte)
    PROVE  /\ a \o b \in Seq(Byte) /\ Len(a \o b) = Len(a) + Len(b)
           /\ Stands(a \o b, Len(a), b)
           /\ \A at, c : Stands(a, at, c) => Stands(a \o b, at, c)
  <1>1. a \o b \in Seq(Byte) /\ Len(a \o b) = Len(a) + Len(b) /\ Stands(a \o b, Len(a), b)
    BY StandsBehind
  <1>2. \A at, c : Stands(a, at, c) => Stands(a \o b, at, c)
    BY StandsStill
  <1> QED
    BY <1>1, <1>2

\* An entry that is put behind a.
LEMMA FieldsArePut ==
    ASSUME NEW a \in Seq(Byte), NEW la \in Nat, Len(a) = la, NEW mjd, NEW clock, NEW type, NEW size, NEW field,
           NEW attrib, Fields(mjd, clock, type, size, field, attrib)
    PROVE  LET q == a \o put(2, mjd) \o clock \o <<type>> \o size \o field \o <<0>> \o put(4, attrib)
           IN  /\ q \in Seq(Byte) /\ Len(q) = la + 114
               /\ FieldsStand(q, la, mjd, clock, type, size, field, attrib)
               /\ \A at, c : Stands(a, at, c) => Stands(q, at, c)
  <1> DEFINE b1 == put(2, mjd)
             b3 == <<type>>
             b6 == <<0>>
             b7 == put(4, attrib)
             q1 == a \o b1
             q2 == q1 \o clock
             q3 == q2 \o b3
             q4 == q3 \o size
             q5 == q4 \o field
             q6 == q5 \o b6
             q7 == q6 \o b7
  <1>1. b1 \in Seq(Byte) /\ Len(b1) = 2 /\ b7 \in Seq(Byte) /\ Len(b7) = 4
    <2>1. Says(2, mjd) /\ Says(4, attrib) /\ 2 \in {2, 4, 8} /\ 4 \in {2, 4, 8}
      BY DEF Fields, Numbers
    <2> QED
      BY <2>1, PutIs
  <1>2. b3 \in Seq(Byte) /\ Len(b3) = 1 /\ b6 \in Seq(Byte) /\ Len(b6) = 1
    BY DEF Fields, Byte
  <1>3. /\ clock \in Seq(Byte) /\ Len(clock) = 3 /\ size \in Seq(Byte) /\ Len(size) = 8
        /\ field \in Seq(Byte) /\ Len(field) = 95
    BY DEF Fields
  <1> HIDE DEF b1, b3, b6, b7
  <1>4. /\ q1 \in Seq(Byte) /\ Len(q1) = la + 2 /\ Stands(q1, la, b1)
        /\ \A at, c : Stands(a, at, c) => Stands(q1, at, c)
    <2>1. a \in Seq(Byte) /\ b1 \in Seq(Byte)
      BY <1>1
    <2>2. /\ q1 \in Seq(Byte) /\ Len(q1) = Len(a) + Len(b1) /\ Stands(q1, Len(a), b1)
          /\ \A at, c : Stands(a, at, c) => Stands(q1, at, c)
      BY <2>1, OneFollows
    <2> HIDE DEF q1
    <2> QED
      BY <1>1, <2>2
  <1> HIDE DEF q1
  <1>5. /\ q2 \in Seq(Byte) /\ Len(q2) = la + 5 /\ Stands(q2, la + 2, clock)
        /\ \A at, c : Stands(q1, at, c) => Stands(q2, at, c)
    <2>1. q1 \in Seq(Byte) /\ clock \in Seq(Byte)
      BY <1>4, <1>3
    <2>2. /\ q2 \in Seq(Byte) /\ Len(q2) = Len(q1) + Len(clock) /\ Stands(q2, Len(q1), clock)
          /\ \A at, c : Stands(q1, at, c) => Stands(q2, at, c)
      BY <2>1, OneFollows
    <2> HIDE DEF q2
    <2>3. (la + 2) + 3 = la + 5
      OBVIOUS
    <2> QED
      BY <1>4, <1>3, <2>2, <2>3
  <1> HIDE DEF q2
  <1>6. /\ q3 \in Seq(Byte) /\ Len(q3) = la + 6 /\ Stands(q3, la + 5, b3)
        /\ \A at, c : Stands(q2, at, c) => Stands(q3, at, c)
    <2>1. q2 \in Seq(Byte) /\ b3 \in Seq(Byte)
      BY <1>5, <1>2
    <2>2. /\ q3 \in Seq(Byte) /\ Len(q3) = Len(q2) + Len(b3) /\ Stands(q3, Len(q2), b3)
          /\ \A at, c : Stands(q2, at, c) => Stands(q3, at, c)
      BY <2>1, OneFollows
    <2> HIDE DEF q3
    <2>3. (la + 5) + 1 = la + 6
      OBVIOUS
    <2> QED
      BY <1>5, <1>2, <2>2, <2>3
  <1> HIDE DEF q3
  <1>7. /\ q4 \in Seq(Byte) /\ Len(q4) = la + 14 /\ Stands(q4, la + 6, size)
        /\ \A at, c : Stands(q3, at, c) => Stands(q4, at, c)
    <2>1. q3 \in Seq(Byte) /\ size \in Seq(Byte)
      BY <1>6, <1>3
    <2>2. /\ q4 \in Seq(Byte) /\ Len(q4) = Len(q3) + Len(size) /\ Stands(q4, Len(q3), size)
          /\ \A at, c : Stands(q3, at, c) => Stands(q4, at, c)
      BY <2>1, OneFollows
    <2> HIDE DEF q4
    <2>3. (la + 6) + 8 = la + 14
      OBVIOUS
    <2> QED
      BY <1>6, <1>3, <2>2, <2>3
  <1> HIDE DEF q4
  <1>8. /\ q5 \in Seq(Byte) /\ Len(q5) = la + 109 /\ Stands(q5, la + 14, field)
        /\ \A at, c : Stands(q4, at, c) => Stands(q5, at, c)
    <2>1. q4 \in Seq(Byte) /\ field \in Seq(Byte)
      BY <1>7, <1>3
    <2>2. /\ q5 \in Seq(Byte) /\ Len(q5) = Len(q4) + Len(field) /\ Stands(q5, Len(q4), field)
          /\ \A at, c : Stands(q4, at, c) => Stands(q5, at, c)
      BY <2>1, OneFollows
    <2> HIDE DEF q5
    <2>3. (la + 14) + 95 = la + 109
      OBVIOUS
    <2> QED
      BY <1>7, <1>3, <2>2, <2>3
  <1> HIDE DEF q5
  <1>9. /\ q6 \in Seq(Byte) /\ Len(q6) = la + 110
        /\ \A at, c : Stands(q5, at, c) => Stands(q6, at, c)
    <2>1. q5 \in Seq(Byte) /\ b6 \in Seq(Byte)
      BY <1>8, <1>2
    <2>2. /\ q6 \in Seq(Byte) /\ Len(q6) = Len(q5) + Len(b6) /\ Stands(q6, Len(q5), b6)
          /\ \A at, c : Stands(q5, at, c) => Stands(q6, at, c)
      BY <2>1, OneFollows
    <2> HIDE DEF q6
    <2>3. (la + 109) + 1 = la + 110
      OBVIOUS
    <2> QED
      BY <1>8, <1>2, <2>2, <2>3
  <1> HIDE DEF q6
  <1>10. /\ q7 \in Seq(Byte) /\ Len(q7) = la + 114 /\ Stands(q7, la + 110, b7)
         /\ \A at, c : Stands(q6, at, c) => Stands(q7, at, c)
    <2>1. q6 \in Seq(Byte) /\ b7 \in Seq(Byte)
      BY <1>9, <1>1
    <2>2. /\ q7 \in Seq(Byte) /\ Len(q7) = Len(q6) + Len(b7) /\ Stands(q7, Len(q6), b7)
          /\ \A at, c : Stands(q6, at, c) => Stands(q7, at, c)
      BY <2>1, OneFollows
    <2> HIDE DEF q7
    <2>3. (la + 110) + 4 = la + 114
      OBVIOUS
    <2> QED
      BY <1>9, <1>1, <2>2, <2>3
  <1> HIDE DEF q7
  <1>11. \A at, c : Stands(a, at, c) => Stands(q7, at, c)
    BY <1>4, <1>5, <1>6, <1>7, <1>8, <1>9, <1>10
  <1>12. /\ Stands(q7, la, b1) /\ Stands(q7, la + 2, clock) /\ Stands(q7, la + 5, b3)
         /\ Stands(q7, la + 6, size) /\ Stands(q7, la + 14, field) /\ Stands(q7, la + 110, b7)
    BY <1>4, <1>5, <1>6, <1>7, <1>8, <1>9, <1>10
  <1>13. FieldsStand(q7, la, mjd, clock, type, size, field, attrib)
    BY <1>12 DEF FieldsStand, b1, b3, b7
  <1>14. q7 = a \o put(2, mjd) \o clock \o <<type>> \o size \o field \o <<0>> \o put(4, attrib)
    BY DEF q1, q2, q3, q4, q5, q6, q7, b1, b3, b6, b7
  <1> QED
    BY <1>10, <1>11, <1>13, <1>14

\* The upper half of a number of four bytes.
LEMMA UpperHalf ==
    ASSUME NEW val \in Numbers(4)
    PROVE  256 * put(4, val)[1] + put(4, val)[2] = val \div 65536
  <1>1. val \in Nat /\ val < 4294967296
    BY DEF Numbers, Says
  <1>0. PICK L : Digits(L, 4, val)
    BY <1>1, PutDigits
  <1>2. Lefts(L, 4, val) /\ \A i \in 1..4 : put(4, val)[i] = L[4 - i] % 256
    BY <1>0 DEF Digits
  <1>3. put(4, val)[1] = L[3] % 256 /\ put(4, val)[2] = L[2] % 256
    BY <1>2
  <1>4. /\ L[1] = val \div 256 /\ L[2] = (val \div 256) \div 256
        /\ L[3] = ((val \div 256) \div 256) \div 256
    <2>1. L[0] = val /\ \A k \in 1..4 : L[k] = L[k - 1] \div 256
      BY <1>2 DEF Lefts
    <2>2. L[1] = L[0] \div 256 /\ L[2] = L[1] \div 256 /\ L[3] = L[2] \div 256
      BY <2>1
    <2> QED
      BY <2>1, <2>2
  <1>5. \A v \in Nat : /\ (v \div 256) \div 256 = v \div 65536
                       /\ v < 4294967296 => v \div 65536 < 65536
                       /\ v < 65536 => (v \div 256) % 256 = v \div 256
                       /\ 256 * (v \div 256) + (v % 256) = v
                       /\ v \div 65536 \in Nat
    BY SMT
  <1> DEFINE u == val \div 65536
  <1>6. u \in Nat /\ u < 65536 /\ L[2] = u /\ L[3] = u \div 256
    BY <1>1, <1>4, <1>5
  <1> HIDE DEF u
  <1>7. 256 * ((u \div 256) % 256) + (u % 256) = u
    BY <1>5, <1>6
  <1> QED
    BY <1>3, <1>6, <1>7 DEF u

\* The stamp that tfdt_to_time() makes.
StampRead(mjd, clock) ==
    [date |-> tfdt_to_time(mjd, IF clock = <<255, 255, 255>> THEN "all ones" ELSE "some time"),
     clock |-> clock]

\* What is read of an entry.
LEMMA FieldsAreRead ==
    ASSUME NEW mjd, NEW clock, NEW type, NEW size, NEW field, NEW attrib,
           Fields(mjd, clock, type, size, field, attrib),
           NEW t, FieldsStand(t, 0, mjd, clock, type, size, field, attrib)
    PROVE  /\ StampOf(t) = StampRead(mjd, clock)
           /\ TypeOf(t) = IF type = TYPE_DIR THEN "d" ELSE "f"
           /\ get(Bytes(t, 6, 8)) = get(size)
           /\ get(Bytes(t, 110, 2)) = attrib \div 65536
           /\ Stands(t, 14, field)
  <1>0. 0 + 2 = 2 /\ 0 + 5 = 5 /\ 0 + 6 = 6 /\ 0 + 14 = 14 /\ 0 + 110 = 110
    OBVIOUS
  <1>1. /\ Stands(t, 0, put(2, mjd)) /\ Stands(t, 2, clock) /\ Stands(t, 5, <<type>>)
        /\ Stands(t, 6, size) /\ Stands(t, 14, field) /\ Stands(t, 110, put(4, attrib))
    BY <1>0 DEF FieldsStand
  <1>2. Bytes(t, 2, 3) = clock /\ Bytes(t, 6, 8) = size
    <2>1. Len(clock) = 3 /\ Len(size) = 8
      BY DEF Fields
    <2> QED
      BY <1>1, <2>1, StandsRead
  <1>3. get(Bytes(t, 0, 2)) = mjd
    <2>1. Says(2, mjd) /\ 2 \in {2, 4, 8}
      BY DEF Fields, Numbers
    <2> QED
      BY <1>1, <2>1, NumberIsRead
  <1>4. t[6] = type
    <2>1. 5 + 1 = 6 /\ 1 \in 1..1
      OBVIOUS
    <2> DEFINE one == <<type>>
    <2>2. Len(one) = 1 /\ one[1] = type
      OBVIOUS
    <2> HIDE DEF one
    <2>3. Stands(t, 5, one)
      BY <1>1 DEF one
    <2>4. t[5 + 1] = one[1]
      BY <2>1, <2>2, <2>3 DEF Stands
    <2> QED
      BY <2>1, <2>2, <2>4
  <1>5. get(Bytes(t, 110, 2)) = attrib \div 65536
    <2> DEFINE a == put(4, attrib)
               b == Bytes(t, 110, 2)
    <2>1. attrib \in Numbers(4) /\ Says(4, attrib) /\ 4 \in {2, 4, 8}
      BY DEF Fields, Numbers
    <2>2. a \in Seq(Byte) /\ Len(a) = 4
      BY <2>1, PutIs
    <2>3. 256 * a[1] + a[2] = attrib \div 65536
      BY <2>1, UpperHalf
    <2> HIDE DEF a
    <2>4. Stands(t, 110, a)
      BY <1>1 DEF a
    <2>5. /\ t \in Seq(Byte) /\ 110 \in Nat /\ 2 \in Nat /\ 110 + 2 <= Len(t)
          /\ t[110 + 1] = a[1] /\ t[110 + 2] = a[2]
      <3>1. 110 + Len(a) <= Len(t) /\ t \in Seq(Byte) /\ \A i \in 1..Len(a) : t[110 + i] = a[i]
        BY <2>4 DEF Stands
      <3>2. Len(t) \in Nat /\ 1 \in 1..4 /\ 2 \in 1..4
        BY <3>1
      <3> QED
        BY <2>2, <3>1, <3>2
    <2>6. b \in Seq(Byte) /\ Len(b) = 2 /\ \A i \in 1..2 : b[i] = t[110 + i]
      <3> DEFINE at == 110
      <3>1. t \in Seq(Byte) /\ at \in Nat /\ 2 \in Nat /\ at + 2 <= Len(t)
        BY <2>5
      <3> HIDE DEF at, b
      <3>2. /\ Bytes(t, at, 2) \in Seq(Byte) /\ Len(Bytes(t, at, 2)) = 2
            /\ \A i \in 1..2 : Bytes(t, at, 2)[i] = t[at + i]
        BY <3>1, PartOf
      <3> QED
        BY <3>2 DEF at, b
    <2> HIDE DEF b
    <2>7. b[1] = a[1] /\ b[2] = a[2]
      BY <2>5, <2>6
    <2>8. get(b) = 256 * b[1] + b[2]
      BY <2>6, TwoBytes
    <2> QED
      BY <2>3, <2>7, <2>8 DEF b
  <1>6. TypeOf(t) = IF type = TYPE_DIR THEN "d" ELSE "f"
    BY <1>4 DEF TypeOf
  <1>7. StampOf(t) = StampRead(mjd, clock)
    BY <1>2, <1>3 DEF StampOf, StampRead
  <1>8. get(Bytes(t, 6, 8)) = get(size)
    BY <1>2
  <1>9. Stands(t, 14, field)
    BY <1>1
  <1> QED
    BY <1>5, <1>6, <1>7, <1>8, <1>9

\* As much of a name as an entry has room for.
CutName(name) == IF Len(name) < 95 THEN name ELSE Bytes(name, 0, 94)

\* A name in an entry is followed by its zero.
LEMMA NameFieldIs ==
    ASSUME NEW name \in Seq(Chars), NEW rest \in Byte
    PROVE  /\ NameField(name, rest) \in Seq(Byte) /\ Len(NameField(name, rest)) = 95
           /\ UpToZero(NameField(name, rest)) = Len(CutName(name))
           /\ Stands(NameField(name, rest), 0, CutName(name))
  <1> DEFINE cut == CutName(name)
             f == NameField(name, rest)
  <1>0. Len(name) \in Nat
    OBVIOUS
  <1>1. cut \in Seq(Chars) /\ Len(cut) \in Nat /\ Len(cut) <= 94
    <2>1. CASE Len(name) < 95
      <3>1. cut = name
        BY <2>1 DEF CutName
      <3>2. Len(name) <= 94
        BY <1>0, <2>1
      <3> HIDE DEF cut
      <3> QED
        BY <1>0, <3>1, <3>2
    <2>2. CASE ~(Len(name) < 95)
      <3> DEFINE k == 94
                 s == Bytes(name, 0, k)
      <3>1. cut = s
        BY <2>2 DEF CutName
      <3>2. k \in Nat /\ 0 \in Nat /\ 0 + k <= Len(name) /\ k <= 94
        BY <1>0, <2>2
      <3> HIDE DEF cut, k
      <3>3. s \in Seq(Chars) /\ Len(s) = k
        BY <3>2, PartOf
      <3> HIDE DEF s
      <3> QED
        BY <3>1, <3>2, <3>3
    <2> QED
      BY <2>1, <2>2
  <1>2. f = [i \in 1..95 |-> IF i <= Len(cut) THEN cut[i] ELSE IF i = Len(cut) + 1 THEN 0 ELSE rest]
    BY DEF NameField, CutName
  <1> DEFINE n == Len(cut)
  <1> HIDE DEF cut, f
  <1>3. n \in Nat /\ n <= 94 /\ \A i \in 1..n : cut[i] \in Byte /\ cut[i] # 0
    <2>1. n \in Nat /\ n <= 94 /\ \A i \in 1..n : cut[i] \in Chars
      BY <1>1
    <2>2. \A c \in Chars : c \in Byte /\ c # 0
      BY DEF Chars, Byte
    <2> HIDE DEF n
    <2> QED
      BY <2>1, <2>2
  <1> HIDE DEF n
  <1>4. \A i \in 1..95 : /\ i \in 1..n => f[i] = cut[i]
                         /\ i = n + 1 => f[i] = 0
                         /\ f[i] \in Byte
    <2> TAKE i \in 1..95
    <2>1. f[i] = IF i <= n THEN cut[i] ELSE IF i = n + 1 THEN 0 ELSE rest
      BY <1>2 DEF n
    <2>2. 0 \in Byte
      BY DEF Byte
    <2>3. CASE i <= n
      BY <1>3, <2>1, <2>3
    <2>4. CASE i = n + 1
      BY <1>3, <2>1, <2>2, <2>4
    <2>5. CASE i > n + 1
      BY <1>3, <2>1, <2>5
    <2> QED
      BY <1>3, <2>3, <2>4, <2>5
  <1>5. f \in Seq(Byte) /\ Len(f) = 95
    <2> DEFINE m == 95
    <2>1. m \in Nat /\ \A i \in 1..m : f[i] \in Byte
      BY <1>4
    <2>2. DOMAIN f = 1..m /\ f = [i \in DOMAIN f |-> f[i]]
      BY <1>2
    <2> HIDE DEF m
    <2>3. f \in [1..m -> Byte]
      BY <2>1, <2>2
    <2>4. f \in Seq(Byte) /\ Len(f) = m
      BY <2>1, <2>3
    <2> QED
      BY <2>4 DEF m
  <1>6. \A i \in 1..n : i \in 1..95 /\ f[i] = cut[i] /\ 0 + i = i
    <2>1. \A i \in 1..n : i \in 1..95 /\ 0 + i = i
      BY <1>3
    <2> QED
      BY <1>4, <2>1
  <1>7. f[n + 1] = 0
    <2>1. n + 1 \in 1..95
      BY <1>3
    <2> QED
      BY <1>4, <2>1
  <1>8. UpToZero(f) = n
    <2>1. (\A i \in 1..n : f[i] # 0) /\ n < Len(f)
      BY <1>3, <1>5, <1>6
    <2> QED
      BY <1>3, <1>5, <1>7, <2>1, ZeroIsFound
  <1>9. Stands(f, 0, cut)
    <2>1. cut \in Seq(Byte) /\ Len(cut) = n
      <3>1. cut \in [1..n -> Byte]
        BY <1>1, <1>3 DEF n
      <3> QED
        BY <1>3, <3>1 DEF n
    <2>2. 0 + n <= Len(f) /\ 0 \in Nat
      BY <1>3, <1>5
    <2> QED
      BY <1>5, <1>6, <2>1, <2>2 DEF Stands
  <1> QED
    BY <1>5, <1>8, <1>9 DEF n, cut, f

\* The name of an entry is read up to its zero.
LEMMA NameOfEntry ==
    ASSUME NEW name \in Seq(Chars), NEW rest \in Byte, NEW t, Stands(t, 14, NameField(name, rest))
    PROVE  NameOf(t) = CutName(name)
  <1> DEFINE f == NameField(name, rest)
             cut == CutName(name)
  <1>1. Len(f) = 95 /\ UpToZero(f) = Len(cut) /\ Stands(f, 0, cut)
    BY NameFieldIs
  <1> HIDE DEF cut, f
  <1>2. Stands(t, 14, f)
    BY DEF f
  <1>3. Bytes(t, 14, 95) = f
    <2>1. Bytes(t, 14, Len(f)) = f
      BY <1>2, StandsRead
    <2> QED
      BY <1>1, <2>1
  <1>4. Stands(t, 14, cut)
    <2>1. Stands(t, 14 + 0, cut)
      <3>1. Stands(t, 14, f) /\ Stands(f, 0, cut)
        BY <1>1, <1>2
      <3> QED
        BY <3>1, StandsWithin
    <2>2. 14 + 0 = 14
      OBVIOUS
    <2> QED
      BY <2>1, <2>2
  <1>5. Bytes(t, 14, Len(cut)) = cut
    BY <1>4, StandsRead
  <1> QED
    BY <1>1, <1>3, <1>5 DEF NameOf, cut

\* What is in the whole, and within a part of it, is in the part.
LEMMA StandsInPart ==
    ASSUME NEW p, NEW t, NEW at, Stands(p, at, t), NEW k \in Nat, NEW c, Stands(p, at + k, c),
           k + Len(c) <= Len(t)
    PROVE  Stands(t, k, c)
  <1>1. t \in Seq(Byte) /\ c \in Seq(Byte) /\ at \in Nat /\ Len(t) \in Nat /\ Len(c) \in Nat
    BY DEF Stands
  <1>2. ASSUME NEW i \in 1..Len(c) PROVE t[k + i] = c[i]
    <2>1. k + i \in 1..Len(t) /\ at + (k + i) = at + k + i
      BY <1>1
    <2>2. p[at + (k + i)] = t[k + i] /\ p[at + k + i] = c[i]
      BY <2>1 DEF Stands
    <2> QED
      BY <2>1, <2>2
  <1> QED
    BY <1>1, <1>2 DEF Stands

\* An entry in a packet is an entry.
LEMMA FieldsInPart ==
    ASSUME NEW p, NEW at \in Nat, NEW t, Stands(p, at, t), Len(t) = 114, NEW mjd, NEW clock, NEW type, NEW size,
           NEW field, NEW attrib, Fields(mjd, clock, type, size, field, attrib),
           FieldsStand(p, at, mjd, clock, type, size, field, attrib)
    PROVE  FieldsStand(t, 0, mjd, clock, type, size, field, attrib)
  <1> DEFINE b1 == put(2, mjd)
             b3 == <<type>>
             b7 == put(4, attrib)
  <1>1. /\ Stands(p, at, b1) /\ Stands(p, at + 2, clock) /\ Stands(p, at + 5, b3)
        /\ Stands(p, at + 6, size) /\ Stands(p, at + 14, field) /\ Stands(p, at + 110, b7)
    BY DEF FieldsStand
  <1>2. Len(b1) = 2 /\ Len(b7) = 4 /\ Len(b3) = 1 /\ Len(clock) = 3 /\ Len(size) = 8 /\ Len(field) = 95
    <2>1. Says(2, mjd) /\ Says(4, attrib) /\ 2 \in {2, 4, 8} /\ 4 \in {2, 4, 8}
      BY DEF Fields, Numbers
    <2>2. Len(b1) = 2 /\ Len(b7) = 4
      BY <2>1, PutIs
    <2> QED
      BY <2>2 DEF Fields
  <1> HIDE DEF b1, b3, b7
  <1>3. Stands(t, 0, b1)
    <2>1. at + 0 = at /\ 0 \in Nat /\ 0 + Len(b1) <= Len(t)
      BY <1>2
    <2>2. Stands(p, at + 0, b1)
      BY <1>1, <2>1
    <2> QED
      BY <2>1, <2>2, StandsInPart
  <1>4. Stands(t, 2, clock)
    <2> DEFINE k == 2
    <2>1. k \in Nat /\ k + Len(clock) <= Len(t) /\ Stands(p, at + k, clock)
      BY <1>1, <1>2
    <2> HIDE DEF k
    <2>2. Stands(t, k, clock)
      BY <2>1, StandsInPart
    <2> QED
      BY <2>2 DEF k
  <1>5. Stands(t, 5, b3)
    <2> DEFINE k == 5
    <2>1. k \in Nat /\ k + Len(b3) <= Len(t) /\ Stands(p, at + k, b3)
      BY <1>1, <1>2
    <2> HIDE DEF k
    <2>2. Stands(t, k, b3)
      BY <2>1, StandsInPart
    <2> QED
      BY <2>2 DEF k
  <1>6. Stands(t, 6, size)
    <2> DEFINE k == 6
    <2>1. k \in Nat /\ k + Len(size) <= Len(t) /\ Stands(p, at + k, size)
      BY <1>1, <1>2
    <2> HIDE DEF k
    <2>2. Stands(t, k, size)
      BY <2>1, StandsInPart
    <2> QED
      BY <2>2 DEF k
  <1>7. Stands(t, 14, field)
    <2> DEFINE k == 14
    <2>1. k \in Nat /\ k + Len(field) <= Len(t) /\ Stands(p, at + k, field)
      BY <1>1, <1>2
    <2> HIDE DEF k
    <2>2. Stands(t, k, field)
      BY <2>1, StandsInPart
    <2> QED
      BY <2>2 DEF k
  <1>8. Stands(t, 110, b7)
    <2> DEFINE k == 110
    <2>1. k \in Nat /\ k + Len(b7) <= Len(t) /\ Stands(p, at + k, b7)
      BY <1>1, <1>2
    <2> HIDE DEF k
    <2>2. Stands(t, k, b7)
      BY <2>1, StandsInPart
    <2> QED
      BY <2>2 DEF k
  <1>9. 0 + 2 = 2 /\ 0 + 5 = 5 /\ 0 + 6 = 6 /\ 0 + 14 = 14 /\ 0 + 110 = 110
    OBVIOUS
  <1> QED
    BY <1>3, <1>4, <1>5, <1>6, <1>7, <1>8, <1>9 DEF FieldsStand, b1, b3, b7

\* The bytes of a number in the other order.
LEMMA BytesTurned ==
    ASSUME NEW b \in Seq(Byte)
    PROVE  Reverse(b) \in Seq(Byte) /\ Len(Reverse(b)) = Len(b)
  <1> DEFINE n == Len(b)
             r == [i \in 1..n |-> b[n - i + 1]]
  <1>1. n \in Nat /\ \A i \in 1..n : b[i] \in Byte
    OBVIOUS
  <1>2. Reverse(b) = r
    BY DEF Reverse
  <1> HIDE DEF n
  <1>3. \A i \in 1..n : n - i + 1 \in 1..n
    BY <1>1
  <1>4. r \in [1..n -> Byte]
    BY <1>1, <1>3
  <1> HIDE DEF r
  <1>5. r \in Seq(Byte) /\ Len(r) = n
    BY <1>1, <1>4
  <1> QED
    BY <1>2, <1>5 DEF n

\* Clocks, and new files with a date that 16 bits can say; all ones are no date.
Clockings == {c \in Seq(Byte) : Len(c) = 3}
StartMessages ==
    [kind: {"start"}, date: {date \in Dates : FromDate(date) < 65535}, clock: Clockings,
     size: Numbers(8), path: Seq(Chars), rest: Byte]

\* Not all of the bits of a stamp are ones.
Dated(mjd, clock) == mjd # 65535 \/ clock # <<255, 255, 255>>

\* tfdt_to_time() is only asked for a date when there is one.
LEMMA StampOfDay ==
    ASSUME NEW mjd \in Nat, NEW clock, Dated(mjd, clock)
    PROVE  StampRead(mjd, clock) = [date |-> ToDate(mjd), clock |-> clock]
  <1> DEFINE ones == <<255, 255, 255>>
             time == IF clock = ones THEN "all ones" ELSE "some time"
             none == mjd = 65535 /\ time = "all ones"
  <1>1. ~none
    <2>1. mjd # 65535 \/ clock # ones
      BY DEF Dated
    <2>2. CASE clock = ones
      BY <2>1, <2>2
    <2>3. CASE clock # ones
      <3>1. time = "some time"
        BY <2>3
      <3>2. "some time" # "all ones"
        OBVIOUS
      <3> QED
        BY <3>1, <3>2
    <2> QED
      BY <2>2, <2>3
  <1>2. StampRead(mjd, clock) = [date |-> tfdt_to_time(mjd, time), clock |-> clock]
    BY DEF StampRead
  <1>3. tfdt_to_time(mjd, time) = ToDate(mjd)
    <2>1. tfdt_to_time(mjd, time) = IF none THEN NoDate ELSE ToDate(mjd)
      BY DEF tfdt_to_time
    <2> HIDE DEF none, time
    <2> QED
      BY <1>1, <2>1
  <1> HIDE DEF time
  <1> QED
    BY <1>2, <1>3

\* What tf_cmd_put() says of a new file is read, except for its size.
LEMMA StartIsRead ==
    ASSUME NEW m \in StartMessages
    PROVE  (\E req : Carries(m, req)) /\ ReadsBack(m)
  <1> DEFINE head == tf_req_init(FILE_START)
             mjd == FromDate(m.date)
             size == Reverse(put(8, m.size))
             field == NameField(m.path, m.rest)
             req == head \o put(2, mjd) \o m.clock \o <<TYPE_FILE>> \o size \o field \o <<0>> \o put(4, 0)
             p == Sealed(req)
             t == Bytes(p, 8, 114)
  <1>1. /\ m.kind = "start" /\ m.date \in Dates /\ mjd < 65535 /\ m.clock \in Seq(Byte) /\ Len(m.clock) = 3
        /\ m.size \in Numbers(8) /\ m.path \in Seq(Chars) /\ m.rest \in Byte
    BY DEF StartMessages, Clockings
  <1>2. Encode(m) = tf_req_done(req)
    BY <1>1 DEF Encode, FileStart
  <1>3. FILE_START \in Nat /\ FILE_START < 65536 /\ TYPE_FILE \in Byte /\ TYPE_FILE # TYPE_DIR
    BY DEF FILE_START, TYPE_FILE, TYPE_DIR, Byte
  <1>4. head \in Seq(Byte) /\ Len(head) = 8
    BY <1>3, CommandIs
  <1> HIDE DEF head
  <1>5. mjd \in Nat /\ ToDate(mjd) = m.date
    BY <1>1, DateComesBack
  <1> HIDE DEF mjd
  <1>6. size \in Seq(Byte) /\ Len(size) = 8
    <2>1. 8 \in {2, 4, 8} /\ Says(8, m.size)
      BY <1>1 DEF Numbers
    <2>2. put(8, m.size) \in Seq(Byte) /\ Len(put(8, m.size)) = 8
      BY <2>1, PutIs
    <2> QED
      BY <2>2, BytesTurned
  <1> HIDE DEF size
  <1>7. field \in Seq(Byte) /\ Len(field) = 95
    BY <1>1, NameFieldIs
  <1> HIDE DEF field
  <1>8. Fields(mjd, m.clock, TYPE_FILE, size, field, 0)
    <2>1. mjd \in Numbers(2)
      BY <1>1, <1>5 DEF Numbers, Says
    <2>2. 0 \in Numbers(4)
      BY DEF Numbers, Says
    <2> QED
      BY <1>1, <1>3, <1>6, <1>7, <2>1, <2>2 DEF Fields
  <1>9. /\ req \in Seq(Byte) /\ Len(req) = 8 + 114
        /\ FieldsStand(req, 8, mjd, m.clock, TYPE_FILE, size, field, 0)
    <2> DEFINE la == 8
    <2>1. head \in Seq(Byte) /\ la \in Nat /\ Len(head) = la
      BY <1>4
    <2> DEFINE clock == m.clock
               type == TYPE_FILE
               attrib == 0
               q == head \o put(2, mjd) \o clock \o <<type>> \o size \o field \o <<0>> \o put(4, attrib)
    <2>3. req = q
      OBVIOUS
    <2>4. Fields(mjd, clock, type, size, field, attrib)
      BY <1>8
    <2> HIDE DEF la, clock, type, attrib, req
    <2>5. /\ q \in Seq(Byte) /\ Len(q) = la + 114
          /\ FieldsStand(q, la, mjd, clock, type, size, field, attrib)
      BY <2>1, <2>4, FieldsArePut
    <2> HIDE DEF q
    <2>2. /\ req \in Seq(Byte) /\ Len(req) = la + 114
          /\ FieldsStand(req, la, mjd, m.clock, TYPE_FILE, size, field, 0)
      BY <2>3, <2>5 DEF clock, type, attrib
    <2> QED
      BY <2>2 DEF la
  <1> HIDE DEF req
  <1>10. Carries(m, req)
    <2>1. Len(req) >= 8 /\ Len(req) < 65536
      BY <1>9
    <2>2. req \in Seq(Byte)
      BY <1>9
    <2> QED
      BY <1>2, <2>1, <2>2, Fits
  <1>11. /\ tf_get_response(Wire(Encode(m)), 0) = [error |-> 0, packet |-> p]
         /\ p \in Seq(Byte) /\ Len(p) = Len(req)
         /\ \A at, b : at >= 4 /\ Stands(req, at, b) => Stands(p, at, b)
    BY <1>10, SealedArrives
  <1> HIDE DEF p
  <1>12. FieldsStand(p, 8, mjd, m.clock, TYPE_FILE, size, field, 0)
    <2>1. 8 >= 4 /\ 8 + 2 >= 4 /\ 8 + 5 >= 4 /\ 8 + 6 >= 4 /\ 8 + 14 >= 4 /\ 8 + 110 >= 4
      OBVIOUS
    <2> QED
      BY <1>9, <1>11, <2>1 DEF FieldsStand
  <1>13. Stands(p, 8, t) /\ Len(t) = 114
    <2> DEFINE n == 114
               at == 8
    <2>1. p \in Seq(Byte) /\ at \in Nat /\ n \in Nat /\ at + n <= Len(p)
      BY <1>9, <1>11
    <2> HIDE DEF n, at
    <2>2. Stands(p, at, Bytes(p, at, n)) /\ Len(Bytes(p, at, n)) = n
      BY <2>1, PartStands
    <2> QED
      BY <2>2 DEF n, at
  <1> HIDE DEF t
  <1>14. FieldsStand(t, 0, mjd, m.clock, TYPE_FILE, size, field, 0)
    BY <1>12, <1>13, <1>8, FieldsInPart
  <1>15. StampOf(t) = [date |-> m.date, clock |-> m.clock]
    <2>1. mjd # 65535
      BY <1>1, <1>5
    <2>2. StampRead(mjd, m.clock) = [date |-> ToDate(mjd), clock |-> m.clock]
      <3>1. Dated(mjd, m.clock)
        BY <2>1 DEF Dated
      <3> QED
        BY <1>5, <3>1, StampOfDay
    <2>3. StampOf(t) = StampRead(mjd, m.clock)
      BY <1>8, <1>14, FieldsAreRead
    <2> QED
      BY <1>5, <2>2, <2>3
  <1>16. TypeOf(t) = "f" /\ Stands(t, 14, field)
    BY <1>3, <1>8, <1>14, FieldsAreRead
  <1>17. NameOf(t) = CutName(m.path)
    BY <1>1, <1>16, NameOfEntry DEF field
  <1>18. StartReadsBack(t, m)
    BY <1>15, <1>16, <1>17 DEF StartReadsBack, CutName
  <1>19. ReadsBack(m)
    <2>1. m.kind = "start"
      BY <1>1
    <2> DEFINE r == tf_get_response(Wire(Encode(m)), 0)
    <2>2. r.error = 0 /\ r.packet = p
      BY <1>11
    <2> HIDE DEF r
    <2>3. StartReadsBack(Bytes(p, 8, TypefileSize), m)
      BY <1>18 DEF t, TypefileSize
    <2> QED
      BY <2>1, <2>2, <2>3 DEF ReadsBack, r
  <1> QED
    BY <1>10, <1>19

\* Entries that a device can send of the files that it has.
DirEntries ==
    {e \in [mjd: Numbers(2), clock: Clockings, type: {"d", "f"}, size: Numbers(8),
            name: {name \in Seq(Chars) : Len(name) < 95}, attrib: Numbers(4)] : Dated(e.mjd, e.clock)}

\* An entry is as long as the structure of the device.
LEMMA TypefileIs ==
    ASSUME NEW e \in DirEntries
    PROVE  /\ Typefile(e) \in Seq(Byte) /\ Len(Typefile(e)) = 114
           /\ unpack_dirent(Typefile(e)) = EntryRead(e)
  <1> DEFINE none == <<>>
             mjd == e.mjd
             clock == e.clock
             type == IF e.type = "d" THEN TYPE_DIR ELSE TYPE_FILE
             size == put(8, e.size)
             rest == 1
             field == NameField(e.name, rest)
             attrib == e.attrib
             la == 0
             q == none \o put(2, mjd) \o clock \o <<type>> \o size \o field \o <<0>> \o put(4, attrib)
             t == Typefile(e)
  <1>1. /\ mjd \in Numbers(2) /\ clock \in Seq(Byte) /\ Len(clock) = 3 /\ attrib \in Numbers(4)
        /\ e.type \in {"d", "f"} /\ e.size \in Numbers(8) /\ e.name \in Seq(Chars) /\ Len(e.name) < 95
        /\ Dated(mjd, clock)
    BY DEF DirEntries, Clockings
  <1>2. /\ type \in Byte /\ rest \in Byte /\ 0 \in Byte
        /\ e.type = IF type = TYPE_DIR THEN "d" ELSE "f"
    BY <1>1 DEF TYPE_DIR, TYPE_FILE, Byte
  <1>3. size \in Seq(Byte) /\ Len(size) = 8 /\ get(size) = e.size
    <2>1. 8 \in {2, 4, 8} /\ Says(8, e.size)
      BY <1>1 DEF Numbers
    <2> QED
      BY <2>1, PutIs
  <1> HIDE DEF rest
  <1>4. field \in Seq(Byte) /\ Len(field) = 95
    BY <1>1, <1>2, NameFieldIs
  <1>5. t = q
    <2>1. put(2, mjd) \in Seq(Byte)
      <3>1. 2 \in {2, 4, 8} /\ Says(2, mjd)
        BY <1>1 DEF Numbers
      <3> QED
        BY <3>1, PutIs
    <2> DEFINE b == put(2, mjd)
    <2>2. t = b \o clock \o <<type>> \o size \o field \o <<0>> \o put(4, attrib)
      BY DEF Typefile, rest
    <2> HIDE DEF b
    <2>3. none \o b = b
      BY <2>1 DEF b
    <2> HIDE DEF none, clock, type, size, field, attrib, mjd, t
    <2> QED
      BY <2>2, <2>3 DEF b
  <1> HIDE DEF size, field, t, type
  <1>6. Fields(mjd, clock, type, size, field, attrib)
    BY <1>1, <1>2, <1>3, <1>4 DEF Fields
  <1> HIDE DEF mjd, clock, attrib
  <1>7. none \in Seq(Byte) /\ la \in Nat /\ Len(none) = la
    OBVIOUS
  <1> HIDE DEF none, la
  <1>8. q \in Seq(Byte) /\ Len(q) = la + 114 /\ FieldsStand(q, la, mjd, clock, type, size, field, attrib)
    BY <1>6, <1>7, FieldsArePut
  <1> HIDE DEF q
  <1>9. t \in Seq(Byte) /\ Len(t) = 0 + 114 /\ FieldsStand(t, 0, mjd, clock, type, size, field, attrib)
    BY <1>5, <1>8 DEF la
  <1>10. /\ StampOf(t) = StampRead(mjd, clock)
         /\ TypeOf(t) = IF type = TYPE_DIR THEN "d" ELSE "f"
         /\ get(Bytes(t, 6, 8)) = get(size)
         /\ get(Bytes(t, 110, 2)) = attrib \div 65536
         /\ Stands(t, 14, field)
    BY <1>6, <1>9, FieldsAreRead
  <1>11. StampOf(t) = [date |-> ToDate(mjd), clock |-> clock]
    <2>1. mjd \in Nat /\ Dated(mjd, clock)
      BY <1>1 DEF Numbers, mjd, clock
    <2>2. StampRead(mjd, clock) = [date |-> ToDate(mjd), clock |-> clock]
      BY <2>1, StampOfDay
    <2> QED
      BY <1>10, <2>2
  <1>12. NameOf(t) = e.name
    <2>1. NameOf(t) = CutName(e.name)
      BY <1>1, <1>2, <1>10, NameOfEntry DEF field
    <2>2. CutName(e.name) = e.name
      BY <1>1 DEF CutName
    <2> QED
      BY <2>1, <2>2
  <1>13. /\ StampOf(t) = [date |-> ToDate(e.mjd), clock |-> e.clock]
         /\ TypeOf(t) = e.type /\ get(Bytes(t, 6, 8)) = e.size /\ NameOf(t) = e.name
         /\ get(Bytes(t, 110, 2)) = e.attrib \div 65536
    BY <1>2, <1>3, <1>10, <1>11, <1>12 DEF mjd, clock, attrib
  <1>14. unpack_dirent(t) = EntryRead(e)
    BY <1>13 DEF unpack_dirent, EntryRead
  <1>15. t \in Seq(Byte) /\ Len(t) = 114
    BY <1>9
  <1> QED
    BY <1>14, <1>15 DEF t

\* R is the requests that the device has after each entry of a page.
Paging(R, n, entries) ==
    /\ R[0] = tf_req_init(DIRENT)
    /\ \A k \in 1..n : R[k] = R[k - 1] \o Typefile(entries[k])
    /\ Page(entries) = tf_req_done(R[n])

\* A page is put together entry by entry.
LEMMA PageTrace ==
    ASSUME NEW n \in Nat, NEW entries \in [1..n -> DirEntries]
    PROVE  \E R \in [0..n -> Seq(Byte)] : Paging(R, n, entries)
  <1> DEFINE V == Seq(Byte)
             base == tf_req_init(DIRENT)
             g == [x \in (1..n) \X V |-> x[2] \o Typefile(entries[x[1]])]
             Rec(f) == f = [s \in SUBSET (1..n) |->
                               IF s = {} THEN base ELSE f[s \ {Max(s)}] \o Typefile(entries[Max(s)])]
             f == CHOOSE f : Rec(f)
  <1>0. base \in V
    <2>1. DIRENT \in Nat /\ DIRENT < 65536
      BY DEF DIRENT
    <2> QED
      BY <2>1, CommandIs
  <1>1. g \in [(1..n) \X V -> V] /\ \A k \in 1..n, s \in V : g[<<k, s>>] = s \o Typefile(entries[k])
    <2>1. ASSUME NEW k \in 1..n, NEW s \in V PROVE s \o Typefile(entries[k]) \in V
      <3>1. Typefile(entries[k]) \in V
        BY TypefileIs
      <3> QED
        BY <3>1
    <2> HIDE DEF V
    <2> QED
      BY <2>1
  <1> HIDE DEF g, base, V
  <1>2. PICK h \in [SUBSET (1..n) -> V] : Folds(h, n, g, base)
    BY <1>0, <1>1, FoldExists
  <1>3. Rec(h)
    <2>1. ASSUME NEW s \in SUBSET (1..n), s # {}
          PROVE  g[<<Max(s), h[s \ {Max(s)}]>>] = h[s \ {Max(s)}] \o Typefile(entries[Max(s)])
      <3>1. Max(s) \in 1..n /\ s \ {Max(s)} \in SUBSET (1..n)
        BY <2>1, LastOf
      <3>2. h[s \ {Max(s)}] \in V
        BY <3>1
      <3> QED
        BY <1>1, <3>1, <3>2
    <2> QED
      BY <1>2, <2>1 DEF Folds
  <1>4. Rec(f)
    <2> HIDE DEF Rec
    <2> QED
      BY <1>3
  <1>5. Page(entries) = tf_req_done(f[1..n])
    <2>1. DOMAIN entries = 1..n
      OBVIOUS
    <2> QED
      BY <2>1 DEF Page, FoldLeft, MapThenFoldSet, base
  <1> HIDE DEF f
  <1>6. f[{}] = base
    BY <1>4
  <1>7. ASSUME NEW k \in 1..n, f[1..(k - 1)] \in V PROVE f[1..k] = g[<<k, f[1..(k - 1)]>>]
    <2>1. /\ 1..k \in SUBSET (1..n) /\ 1..k # {} /\ Max(1..k) = k
          /\ (1..k) \ {k} = 1..(k - 1)
      BY FirstPlaces
    <2>2. \A s \in SUBSET (1..n) : s # {} => f[s] = f[s \ {Max(s)}] \o Typefile(entries[Max(s)])
      BY <1>4
    <2>3. f[1..k] = f[(1..k) \ {k}] \o Typefile(entries[k])
      BY <2>1, <2>2
    <2> QED
      BY <1>1, <1>7, <2>1, <2>3
  <1>8. Follow(f, V, n, g, base)
    BY <1>6, <1>7 DEF Follow
  <1>9. Ends(f[1..n], V, n, g, base)
    BY <1>0, <1>1, <1>8, FoldGoes
  <1>10. PICK R \in [0..n -> V] : Goes(R, n, g, base) /\ f[1..n] = R[n]
    BY <1>9 DEF Ends
  <1>11. \A k \in 1..n : R[k] = R[k - 1] \o Typefile(entries[k])
    <2> TAKE k \in 1..n
    <2>1. k - 1 \in 0..n
      OBVIOUS
    <2>2. R[k - 1] \in V
      BY <2>1
    <2> QED
      BY <1>1, <1>10, <2>2 DEF Goes
  <1>12. Paging(R, n, entries)
    BY <1>5, <1>10, <1>11 DEF Paging, Goes, base
  <1> QED
    BY <1>10, <1>12 DEF V

-----------------------------------------------------------------------------
(* Pages of directories.                                                   *)

\* Where an entry of a page is.
EntryAt(i) == PACKET_HEAD_SIZE + (i - 1) * TypefileSize

\* Every entry is in its place, and the next one behind the last.
LEMMA EntriesStand ==
    ASSUME NEW n \in Nat, NEW entries \in [1..n -> DirEntries], NEW R \in [0..n -> Seq(Byte)],
           Paging(R, n, entries)
    PROVE  /\ Len(R[n]) = EntryAt(n + 1)
           /\ \A i \in 1..n : Stands(R[n], EntryAt(i), Typefile(entries[i]))
           /\ Stands(R[n], 4, put(4, DIRENT))
  <1> DEFINE Good == {k \in 0..n : /\ Len(R[k]) = EntryAt(k + 1)
                                   /\ \A i \in 1..k : Stands(R[k], EntryAt(i), Typefile(entries[i]))
                                   /\ Stands(R[k], 4, put(4, DIRENT))}
  <1>1. 0 \in Good
    <2>1. DIRENT \in Nat /\ DIRENT < 65536
      BY DEF DIRENT
    <2>2. Len(tf_req_init(DIRENT)) = 8 /\ Stands(tf_req_init(DIRENT), 4, put(4, DIRENT))
      BY <2>1, CommandIs
    <2>3. EntryAt(0 + 1) = 8
      BY DEF EntryAt, PACKET_HEAD_SIZE, TypefileSize
    <2>4. R[0] = tf_req_init(DIRENT) /\ 0 \in 0..n /\ 1..0 = {}
      BY DEF Paging
    <2> QED
      BY <2>2, <2>3, <2>4
  <1>2. ASSUME NEW k \in 1..n, k - 1 \in Good PROVE k \in Good
    <2> DEFINE a == R[k - 1]
               b == Typefile(entries[k])
    <2>1. k - 1 \in 0..n /\ k \in 0..n /\ (k - 1) + 1 = k
      OBVIOUS
    <2>2. a \in Seq(Byte)
      BY <2>1
    <2>3. /\ Len(a) = EntryAt(k)
          /\ \A i \in 1..(k - 1) : Stands(a, EntryAt(i), Typefile(entries[i]))
          /\ Stands(a, 4, put(4, DIRENT))
      BY <1>2, <2>1
    <2>4. b \in Seq(Byte) /\ Len(b) = 114
      BY TypefileIs
    <2>5. R[k] = a \o b
      BY DEF Paging
    <2> HIDE DEF a, b
    <2>6. /\ a \o b \in Seq(Byte) /\ Len(a \o b) = Len(a) + Len(b)
          /\ Stands(a \o b, Len(a), b)
          /\ \A at, c : Stands(a, at, c) => Stands(a \o b, at, c)
      <3>1. a \in Seq(Byte) /\ b \in Seq(Byte)
        BY <2>2, <2>4
      <3> QED
        BY <3>1, OneFollows
    <2>7. EntryAt(k) + 114 = EntryAt(k + 1)
      BY DEF EntryAt, PACKET_HEAD_SIZE, TypefileSize
    <2>8. Len(R[k]) = EntryAt(k + 1)
      BY <2>3, <2>4, <2>5, <2>6, <2>7
    <2>9. ASSUME NEW i \in 1..k PROVE Stands(R[k], EntryAt(i), Typefile(entries[i]))
      <3>1. CASE i = k
        <4>1. Stands(R[k], EntryAt(k), b)
          BY <2>3, <2>5, <2>6
        <4> QED
          BY <3>1, <4>1 DEF b
      <3>2. CASE i # k
        <4>1. i \in 1..(k - 1)
          BY <3>2
        <4>2. Stands(a, EntryAt(i), Typefile(entries[i]))
          BY <2>3, <4>1
        <4> QED
          BY <2>5, <2>6, <4>2
      <3> QED
        BY <3>1, <3>2
    <2>10. Stands(R[k], 4, put(4, DIRENT))
      BY <2>3, <2>5, <2>6
    <2> QED
      BY <2>1, <2>8, <2>9, <2>10
  <1>3. 0..n \subseteq Good
    <2> HIDE DEF Good
    <2> QED
      BY <1>1, <1>2, UpTo
  <1>4. n \in 0..n
    OBVIOUS
  <1>5. n \in Good
    BY <1>3, <1>4
  <1> HIDE <1>1, <1>2, <1>3
  <1> QED
    BY <1>5

\* Pages that fit into a packet.
PageMessages == [kind: {"page"}, entries: {s \in Seq(DirEntries) : Len(s) < 575}]

\* Of a page every entry is read, and no other.
LEMMA PageIsRead ==
    ASSUME NEW m \in PageMessages
    PROVE  (\E req : Carries(m, req)) /\ ReadsBack(m)
  <1> DEFINE entries == m.entries
             n == Len(entries)
  <1>1. m.kind = "page" /\ entries \in Seq(DirEntries) /\ n \in Nat /\ n < 575
    BY DEF PageMessages
  <1>2. entries \in [1..n -> DirEntries] /\ DOMAIN entries = 1..n
    BY <1>1
  <1>3. Encode(m) = Page(entries)
    BY <1>1 DEF Encode
  <1> HIDE DEF n, entries
  <1>4. PICK R \in [0..n -> Seq(Byte)] : Paging(R, n, entries)
    BY <1>1, <1>2, PageTrace
  <1> DEFINE req == R[n]
             p == Sealed(req)
  <1>5. /\ Len(req) = EntryAt(n + 1)
        /\ \A i \in 1..n : Stands(req, EntryAt(i), Typefile(entries[i]))
    BY <1>1, <1>2, <1>4, EntriesStand
  <1>6. Encode(m) = tf_req_done(req) /\ req \in Seq(Byte)
    <2>1. n \in 0..n
      BY <1>1
    <2>2. Page(entries) = tf_req_done(req)
      BY <1>4 DEF Paging
    <2> QED
      BY <1>3, <1>4, <2>1, <2>2
  <1> HIDE DEF req
  <1>7. EntryAt(n + 1) = 8 + 114 * n
    BY <1>1 DEF EntryAt, PACKET_HEAD_SIZE, TypefileSize
  <1>8. Carries(m, req)
    <2>1. Len(req) >= 8 /\ Len(req) < 65536
      BY <1>1, <1>5, <1>7
    <2>2. req \in Seq(Byte) /\ Encode(m) = tf_req_done(req)
      BY <1>6
    <2> QED
      BY <2>1, <2>2, Fits
  <1>9. /\ tf_get_response(Wire(Encode(m)), 0) = [error |-> 0, packet |-> p]
        /\ p \in Seq(Byte) /\ Len(p) = Len(req)
        /\ \A at, b : at >= 4 /\ Stands(req, at, b) => Stands(p, at, b)
    BY <1>8, SealedArrives
  <1> HIDE DEF p
  <1>10. ASSUME NEW i \in 1..n
         PROVE  unpack_dirent(Bytes(p, EntryAt(i), TypefileSize)) = EntryRead(entries[i])
    <2> DEFINE t == Typefile(entries[i])
    <2>1. Len(t) = 114 /\ unpack_dirent(t) = EntryRead(entries[i])
      BY <1>2, TypefileIs
    <2> HIDE DEF t
    <2>2. EntryAt(i) >= 4
      BY <1>1 DEF EntryAt, PACKET_HEAD_SIZE, TypefileSize
    <2>3. Stands(req, EntryAt(i), t)
      BY <1>5 DEF t
    <2>4. Stands(p, EntryAt(i), t)
      BY <1>9, <2>2, <2>3
    <2>5. Bytes(p, EntryAt(i), Len(t)) = t
      BY <2>4, StandsRead
    <2>6. Len(t) = TypefileSize
      BY <2>1 DEF TypefileSize
    <2> QED
      BY <2>1, <2>5, <2>6
  <1>11. (Len(p) - PACKET_HEAD_SIZE) \div TypefileSize = n
    <2>1. Len(p) = 8 + 114 * n
      BY <1>5, <1>7, <1>9
    <2>2. (114 * n) \div 114 = n /\ (8 + 114 * n) - 8 = 114 * n
      BY <1>1
    <2> QED
      BY <2>1, <2>2 DEF PACKET_HEAD_SIZE, TypefileSize
  <1>12. get_dirents(p) = [i \in 1..n |-> EntryRead(entries[i])]
    <2>1. get_dirents(p) = [i \in 1..n |-> unpack_dirent(Bytes(p, EntryAt(i), TypefileSize))]
      BY <1>11 DEF get_dirents, EntryAt
    <2> QED
      BY <1>10, <2>1
  <1>13. ReadsBack(m)
    <2>1. m.kind = "page"
      BY <1>1
    <2> DEFINE r == tf_get_response(Wire(Encode(m)), 0)
    <2>2. r.error = 0 /\ r.packet = p
      BY <1>9
    <2> HIDE DEF r
    <2>3. get_dirents(p) = [i \in DOMAIN m.entries |-> EntryRead(m.entries[i])]
      BY <1>2, <1>12 DEF entries
    <2> QED
      BY <2>1, <2>2, <2>3 DEF ReadsBack, r
  <1> QED
    BY <1>8, <1>13

-----------------------------------------------------------------------------
(* What these say of all messages.                                         *)

\* All messages that the library sends and reads.
SoundMessages == SentMessages \cup StartMessages \cup PageMessages

\* Every message has a request that carries it.
LEMMA SoundMessagesAreRead ==
    ASSUME NEW m \in SoundMessages
    PROVE  (\E req : Carries(m, req)) /\ ReadsBack(m)
  <1>1. CASE m \in SentMessages
    BY <1>1, MessagesAreRead
  <1>2. CASE m \in StartMessages
    BY <1>2, StartIsRead
  <1>3. CASE m \in PageMessages
    BY <1>3, PageIsRead
  <1> QED
    BY <1>1, <1>2, <1>3 DEF SoundMessages

\* Whatever tf_req_done() has put together, of names, data and pages of any
\* length that a packet has room for, tf_get_response() returns as it was meant.
THEOREM MessagesAreUnderstood == \A m \in SoundMessages : ReadsBack(m)
  BY SoundMessagesAreRead

\* Whichever bits of one byte behind the length of a message change on the way,
\* and whichever of its last bytes are not read, whatever is in the buffer
\* instead, tf_get_response() reports an error or returns the same packet.
THEOREM DamageNeverPasses ==
    \A m \in SoundMessages :
        /\ \A at \in Nat, mask \in SUBSET (0..7) : at >= 3 => Noticed(m, at, mask)
        /\ \A short \in 0..8, beyond \in Byte : CutNoticed(m, short, beyond)
  <1> SUFFICES ASSUME NEW m \in SoundMessages
               PROVE  /\ \A at \in Nat, mask \in SUBSET (0..7) : at >= 3 => Noticed(m, at, mask)
                      /\ \A short \in 0..8, beyond \in Byte : CutNoticed(m, short, beyond)
    OBVIOUS
  <1>1. PICK req : Carries(m, req)
    BY SoundMessagesAreRead
  <1>2. ASSUME NEW at \in Nat, NEW mask \in SUBSET (0..7), at >= 3 PROVE Noticed(m, at, mask)
    BY <1>1, <1>2, NoiseIsNoticed
  <1>3. ASSUME NEW short \in 0..8, NEW beyond \in Byte PROVE CutNoticed(m, short, beyond)
    <2>1. short \in Nat /\ short <= 8
      OBVIOUS
    <2> QED
      BY <1>1, <2>1, EndIsMissed
  <1> QED
    BY <1>2, <1>3

-----------------------------------------------------------------------------
(* The messages of the run are among them.                                 *)

\* The numbers of the run.
LEMMA SmallNumbers ==
    /\ \A val \in Nat : val <= 65537 => val \in Numbers(4) /\ val \in Numbers(8)
    /\ \A val \in Nat : val < 65536 => val \in Numbers(2)
  <1>1. ASSUME NEW val \in Nat, val <= 65537 PROVE Says(4, val) /\ Says(8, val)
    BY <1>1 DEF Says
  <1>2. ASSUME NEW val \in Nat, val < 65536 PROVE Says(2, val)
    BY <1>2 DEF Says
  <1> QED
    BY <1>1, <1>2 DEF Numbers

\* The data of the run.
LEMMA DataIsBytes == \A n \in Nat : Data(n) \in Seq(Byte) /\ Len(Data(n)) = n
  <1> SUFFICES ASSUME NEW n \in Nat PROVE Data(n) \in Seq(Byte) /\ Len(Data(n)) = n
    OBVIOUS
  <1>1. \A i \in 1..n : (i * 37 + n) % 256 \in Byte
    BY DEF Byte
  <1> QED
    BY <1>1 DEF Data

\* The names of the run.
LEMMA LettersAreChars == \A n \in Nat : Letters(n) \in Seq(Chars) /\ Len(Letters(n)) = n
  <1> SUFFICES ASSUME NEW n \in Nat PROVE Letters(n) \in Seq(Chars) /\ Len(Letters(n)) = n
    OBVIOUS
  <1>1. \A i \in 1..n : 65 + (i % 26) \in Chars
    BY DEF Chars
  <1> QED
    BY <1>1 DEF Letters

\* The paths of the run.
LEMMA PathBytesFit == PathBytes \subseteq PathsThatFit /\ {<<47>>, <<65>>, <<66>>} \subseteq Seq(Chars)
  <1>1. {47, 65, 66, 200, 92, 1, 255} \subseteq Chars
    BY DEF Chars
  <1>2. ASSUME NEW a \in Chars, NEW b \in Chars, NEW c \in Chars, NEW d \in Chars, NEW e \in Chars
        PROVE  /\ <<a>> \in Seq(Chars) /\ Len(<<a>>) = 1
               /\ <<a, b>> \in Seq(Chars) /\ Len(<<a, b>>) = 2
               /\ <<a, b, c, d>> \in Seq(Chars) /\ Len(<<a, b, c, d>>) = 4
               /\ <<a, b, c, d, e>> \in Seq(Chars) /\ Len(<<a, b, c, d, e>>) = 5
    OBVIOUS
  <1>3. /\ <<47>> \in Seq(Chars) /\ Len(<<47>>) = 1
        /\ <<47, 65>> \in Seq(Chars) /\ Len(<<47, 65>>) = 2
        /\ <<47, 65, 47, 200>> \in Seq(Chars) /\ Len(<<47, 65, 47, 200>>) = 4
        /\ <<47, 92, 1, 255, 47>> \in Seq(Chars) /\ Len(<<47, 92, 1, 255, 47>>) = 5
        /\ <<65>> \in Seq(Chars) /\ <<66>> \in Seq(Chars)
    BY <1>1, <1>2
  <1> QED
    BY <1>3 DEF PathBytes, PathsThatFit

\* Those that are also damaged.
LEMMA ShortAreSent == ShortMessages \subseteq SentMessages
  <1>1. /\ {0, 1} \subseteq Numbers(4) /\ {0, 1} \subseteq Byte /\ 1..7 \subseteq Numbers(4)
        /\ Offsets \subseteq Numbers(4) /\ Offsets \subseteq Numbers(8)
    BY SmallNumbers DEF Offsets, Byte
  <1>2. \A n \in 0..3 : Data(n) \in {data \in Seq(Byte) : Len(data) <= 65518}
    BY DataIsBytes
  <1>3. PathBytes \subseteq PathsThatFit
    BY PathBytesFit
  <1>4. [kind: {"delete", "dir", "mkdir"}, path: PathBytes] \subseteq PathMessages \cup MkdirMessages
    BY <1>3 DEF PathMessages, MkdirMessages
  <1>5. [kind: {"turbo"}, on: {0, 1}] \subseteq TurboMessages
    BY <1>1 DEF TurboMessages
  <1>6. [kind: {"size"}, total: Offsets, free: Offsets] \subseteq SizeMessages
    BY <1>1 DEF SizeMessages
  <1>7. [kind: {"rename"}, path: PathBytes, dest: PathBytes] \subseteq RenameMessages
    BY <1>3 DEF RenameMessages
  <1>8. [kind: {"send"}, direction: {0, 1}, path: PathBytes, offset: Offsets] \subseteq SendMessages
    BY <1>1, <1>3 DEF SendMessages
  <1>9. [kind: {"data"}, offset: Offsets, data: {Data(n) : n \in 0..3}] \subseteq DataMessages
    BY <1>1, <1>2 DEF DataMessages
  <1>10. [kind: {"fail"}, reason: 1..7] \subseteq FailMessages
    BY <1>1 DEF FailMessages
  <1>11. {[kind |-> "success"]} \subseteq SuccessMessages
    BY DEF SuccessMessages
  <1> QED
    BY <1>4, <1>5, <1>6, <1>7, <1>8, <1>9, <1>10, <1>11 DEF ShortMessages, SentMessages

\* The entries of the run are ones that a device can send.
LEMMA PageEntriesAre ==
    ASSUME NEW e \in PageEntries
    PROVE  e \in DirEntries /\ [e EXCEPT !.name = <<66>>] \in DirEntries
  <1> DEFINE names == {name \in Seq(Chars) : Len(name) < 95}
             short == <<66>>
  <1>1. Clocks \subseteq Clockings
    BY DEF Clocks, Clockings, Byte
  <1>2. {15079, 53735, 65535} \subseteq Numbers(2) /\ {0, 65537} \subseteq Numbers(8)
    BY SmallNumbers
  <1>3. 65536 * 3 + 2 \in Numbers(4)
    BY DEF Numbers, Says
  <1>4. <<>> \in names /\ <<65>> \in names /\ Letters(94) \in names /\ short \in names
    <2> DEFINE letters == Letters(94)
    <2>1. letters \in Seq(Chars) /\ Len(letters) < 95
      <3>1. 94 \in Nat /\ 94 < 95
        OBVIOUS
      <3> QED
        BY <3>1, LettersAreChars
    <2> HIDE DEF letters
    <2>2. <<65>> \in Seq(Chars) /\ Len(<<65>>) < 95 /\ <<66>> \in Seq(Chars) /\ Len(<<66>>) < 95
      BY PathBytesFit
    <2>3. <<>> \in Seq(Chars) /\ Len(<<>>) < 95
      OBVIOUS
    <2>4. letters \in names
      BY <2>1
    <2> QED
      BY <2>2, <2>3, <2>4 DEF letters
  <1> HIDE DEF names, short
  <1>5. /\ e \in [mjd: Numbers(2), clock: Clockings, type: {"d", "f"}, size: Numbers(8),
                  name: names, attrib: Numbers(4)]
        /\ e.mjd # 65535 \/ e.clock # <<255, 255, 255>>
    BY <1>1, <1>2, <1>3, <1>4 DEF PageEntries
  <1>6. Dated(e.mjd, e.clock)
    BY <1>5 DEF Dated
  <1> DEFINE f == [e EXCEPT !.name = short]
  <1>7. /\ f \in [mjd: Numbers(2), clock: Clockings, type: {"d", "f"}, size: Numbers(8),
                  name: names, attrib: Numbers(4)]
        /\ f.mjd = e.mjd /\ f.clock = e.clock
    BY <1>4, <1>5
  <1> HIDE DEF f
  <1>8. e \in DirEntries /\ f \in DirEntries
    BY <1>5, <1>6, <1>7 DEF DirEntries, names
  <1> QED
    BY <1>8 DEF f, short

\* Those that are about 64 bytes long and longer.
LEMMA LongAreSound == LongMessages \subseteq SoundMessages
  <1>1. {0} \subseteq Numbers(8) /\ {0, 65537} \subseteq Numbers(8) /\ {0, 255} \subseteq Byte
    BY SmallNumbers DEF Byte
  <1>2. [kind: {"data"}, offset: {0}, data: {Data(n) : n \in 46..49}] \subseteq DataMessages
    <2>1. \A n \in 46..49 : Data(n) \in {data \in Seq(Byte) : Len(data) <= 65518}
      BY DataIsBytes
    <2> QED
      BY <1>1, <2>1 DEF DataMessages
  <1>3. [kind: {"start"}, date: {ToDate(53735), ToDate(53795)}, clock: Clocks, size: {0, 65537},
          path: {<<47>>, Letters(94), Letters(95)}, rest: {0, 255}] \subseteq StartMessages
    <2> DEFINE days == {ToDate(53735), ToDate(53795)}
               fit == {date \in Dates : FromDate(date) < 65535}
               paths == {<<47>>, Letters(94), Letters(95)}
    <2>1. ASSUME NEW mjd \in {53735, 53795}
          PROVE  ToDate(mjd) \in fit
      <3>1. mjd \in Nat /\ mjd >= FirstDay /\ mjd < 65535
        BY DEF FirstDay
      <3>2. FromDate(ToDate(mjd)) = mjd
        BY <3>1, DayComesBack
      <3>3. ToDate(mjd) \in Dates
        BY <3>1, DayIsDate
      <3> QED
        BY <3>1, <3>2, <3>3
    <2>2. Clocks \subseteq Clockings
      BY DEF Clocks, Clockings, Byte
    <2>3. paths \subseteq Seq(Chars)
      BY LettersAreChars, PathBytesFit
    <2>4. days \subseteq fit
      BY <2>1
    <2> HIDE DEF days, fit, paths
    <2>5. [kind: {"start"}, date: days, clock: Clocks, size: {0, 65537}, path: paths, rest: {0, 255}]
             \subseteq [kind: {"start"}, date: fit, clock: Clockings, size: Numbers(8), path: Seq(Chars), rest: Byte]
      BY <1>1, <2>2, <2>3, <2>4
    <2> QED
      BY <2>5 DEF StartMessages, days, fit, paths
  <1> DEFINE one == {<<e>> : e \in PageEntries}
             three == {<<e, [e EXCEPT !.name = <<66>>], e>> : e \in PageEntries}
             pages == {s \in Seq(DirEntries) : Len(s) < 575}
  <1>4. [kind: {"page"}, entries: {<<>>} \cup one \cup three] \subseteq PageMessages
    <2>1. ASSUME NEW e \in DirEntries, NEW f \in DirEntries
          PROVE  /\ <<e>> \in Seq(DirEntries) /\ Len(<<e>>) = 1
                 /\ <<e, f, e>> \in Seq(DirEntries) /\ Len(<<e, f, e>>) = 3
      OBVIOUS
    <2>2. \A e \in DirEntries : <<e>> \in pages
      BY <2>1
    <2>3. \A e, f \in DirEntries : <<e, f, e>> \in pages
      BY <2>1
    <2>4. <<>> \in pages
      OBVIOUS
    <2> HIDE DEF pages
    <2>5. one \subseteq pages
      BY <2>2, PageEntriesAre
    <2>6. three \subseteq pages
      BY <2>3, PageEntriesAre
    <2> HIDE DEF one, three
    <2>7. [kind: {"page"}, entries: {<<>>} \cup one \cup three] \subseteq [kind: {"page"}, entries: pages]
      BY <2>4, <2>5, <2>6
    <2> QED
      BY <2>7 DEF PageMessages, pages
  <1> QED
    BY <1>2, <1>3, <1>4 DEF LongMessages, SoundMessages, SentMessages

-----------------------------------------------------------------------------
(* The properties of the run that follow.                                  *)

\* An input stays the input.
LEMMA InputStays == ConversionsSpec => [](input \in Inputs)
  <1>1. Init => input \in Inputs
    BY DEF Init
  <1>2. input \in Inputs /\ [Next]_input => (input \in Inputs)'
    BY DEF Next
  <1> QED
    BY <1>1, <1>2, PTL DEF ConversionsSpec

\* What the kind of an input says of it.
LEMMA InputOfKind ==
    ASSUME input \in Inputs
    PROVE  /\ input.kind = "names" => input \in NameInputs
           /\ input.kind = "order" => input \in OrderInputs
           /\ input.kind = "date" => input \in DateInputs
           /\ input.kind = "packet" => input \in PacketInputs
           /\ input.kind = "noise" => input \in NoiseInputs
           /\ input.kind = "cut" => input \in CutInputs
  <1>1. /\ input \in NameInputs => input.kind = "names"
        /\ input \in PacketInputs => input.kind = "packet"
        /\ input \in NoiseInputs => input.kind = "noise"
        /\ input \in CutInputs => input.kind = "cut"
    BY DEF NameInputs, PacketInputs, NoiseInputs, CutInputs
  <1>2. /\ input \in OrderInputs => input.kind = "order"
        /\ input \in DateInputs => input.kind = "date"
    BY DEF OrderInputs, DateInputs
  <1> QED
    BY <1>1, <1>2 DEF Inputs

\* tf_makename() resolves every path of the run.
THEOREM NamesAreKept == ConversionsSpec => []ChdirResolves
  <1> DEFINE Parts == Names \cup {".."}
  <1>1. "/" \notin Parts /\ ".." \in Parts
    BY DEF Names
  <1>2. \A path \in Paths : path \in Seq(Parts \cup {"/"}) /\ Alternates(path)
    <2>1. ASSUME NEW path \in BoundedSeq(Names \cup {"/", ".."}, 5) PROVE path \in Seq(Parts \cup {"/"})
      <3>1. PICK n \in 0..5 : path \in [1..n -> Names \cup {"/", ".."}]
        BY DEF BoundedSeq, SeqOf
      <3>2. Names \cup {"/", ".."} = Parts \cup {"/"}
        OBVIOUS
      <3> HIDE DEF Parts
      <3> QED
        BY <3>1, <3>2
    <2> HIDE DEF Parts
    <2> QED
      BY <2>1 DEF Paths
  <1> HIDE DEF Parts
  <1>3. ASSUME input \in Inputs PROVE ChdirResolves
    <2> SUFFICES ASSUME input.kind = "names" PROVE ChdirIsResolved(input.dir, input.filename)
      BY DEF ChdirResolves
    <2>1. input.dir \in Paths /\ input.filename \in Paths \cup {NULL}
      BY <1>3, InputOfKind DEF NameInputs
    <2> QED
      BY <1>1, <1>2, <2>1, NamesAreResolved
  <1> QED
    BY <1>3, InputStays, PTL

\* tf_sort_dirents() puts every directory of the run in order, for every width
\* of int.
THEOREM OrdersAreKept == ConversionsSpec => []SortOrder
  <1>1. ASSUME input \in Inputs PROVE SortOrder
    <2> SUFFICES ASSUME input.kind = "order" PROVE Sorts(input.entries, input.sort_type)
      BY DEF SortOrder
    <2>1. input.entries \in [1..3 -> Entries] /\ input.sort_type \in SortTypes
      BY <1>1, InputOfKind DEF OrderInputs
    <2>2. Entries \subseteq EntrySet
      BY DEF Entries, EntrySet
    <2>3. input.entries \in [1..3 -> EntrySet]
      BY <2>1, <2>2
    <2> QED
      BY <2>1, <2>3, DirectoriesAreSorted
  <1> QED
    BY <1>1, InputStays, PTL

\* tfdt_to_time() makes the calendar of the days of 16 bits, and
\* time_to_tfdt() brings each day back.
THEOREM DaysAreKept == ConversionsSpec => []DatesAreDays
  <1>1. ASSUME input \in Inputs PROVE DatesAreDays
    <2> SUFFICES ASSUME input.kind = "date" PROVE DayByDay(input.mjd)
      BY DEF DatesAreDays
    <2>1. input \in DateInputs
      BY <1>1, InputOfKind
    <2>2. input.mjd \in FirstDay..65534
      BY <2>1 DEF DateInputs
    <2>3. \A mjd \in FirstDay..65534 : DayByDay(mjd)
      <3>1. \A mjd \in FirstDay..65534 : mjd \in Nat /\ mjd >= FirstDay
        <4> DEFINE last == 65534
        <4>1. FirstDay \in Nat /\ last \in Nat
          BY DEF FirstDay
        <4> HIDE DEF last
        <4>2. \A mjd \in FirstDay..last : mjd \in Nat /\ mjd >= FirstDay
          BY <4>1
        <4> QED
          BY <4>2 DEF last
      <3> QED
        BY <3>1, CalendarOfDays
    <2> QED
      BY <2>2, <2>3
  <1> QED
    BY <1>1, InputStays, PTL

\* tf_get_response() reads every message of the run as it was sent.
THEOREM MessagesAreKept == ConversionsSpec => []WhatIsSentIsRead
  <1>1. ASSUME input \in Inputs PROVE WhatIsSentIsRead
    <2> SUFFICES ASSUME input.kind = "packet" PROVE ReadsBack(input.message)
      BY DEF WhatIsSentIsRead
    <2>1. input \in PacketInputs
      BY <1>1, InputOfKind
    <2>2. input.message \in ShortMessages \cup LongMessages
      BY <2>1 DEF PacketInputs, Messages
    <2>3. input.message \in SoundMessages
      BY <2>2, ShortAreSent, LongAreSound DEF SoundMessages
    <2> QED
      BY <2>3, MessagesAreUnderstood
  <1> QED
    BY <1>1, InputStays, PTL

\* tf_get_response() notices the damage of every message of the run.
THEOREM DamageIsKeptOut == ConversionsSpec => []CorruptionNoticed
  <1>1. ASSUME input \in Inputs, input.kind = "noise"
        PROVE  Noticed(input.message, input.at, input.mask)
    <2>1. input \in NoiseInputs
      BY <1>1, InputOfKind
    <2>2. input.message \in ShortMessages /\ input.at \in 3..30 /\ input.mask \in Masks
      BY <2>1 DEF NoiseInputs
    <2>3. input.message \in SoundMessages
      BY <2>2, ShortAreSent DEF SoundMessages
    <2>4. input.at \in Nat /\ input.at >= 3
      BY <2>2
    <2>5. input.mask \in SUBSET (0..7)
      BY <2>2 DEF Masks
    <2> QED
      BY <2>3, <2>4, <2>5, DamageNeverPasses
  <1>2. ASSUME input \in Inputs, input.kind = "cut"
        PROVE  CutNoticed(input.message, input.short, input.beyond)
    <2>1. input \in CutInputs
      BY <1>2, InputOfKind
    <2>2. input.message \in ShortMessages /\ input.short \in 1..4 /\ input.beyond \in {0, 38, 255}
      BY <2>1 DEF CutInputs
    <2>3. input.message \in SoundMessages
      BY <2>2, ShortAreSent DEF SoundMessages
    <2>4. input.short \in 0..8 /\ input.beyond \in Byte
      BY <2>2 DEF Byte
    <2> QED
      BY <2>3, <2>4, DamageNeverPasses
  <1>3. input \in Inputs => CorruptionNoticed
    BY <1>1, <1>2 DEF CorruptionNoticed
  <1> QED
    BY <1>3, InputStays, PTL
=============================================================================
