------------------------------ MODULE Calendar ------------------------------
(***************************************************************************)
(* Dates, and the periods reports cover: Python's calendar as far as it is *)
(* used, app/reporting/periods.py, the fiscal year of                      *)
(* app/platform/tenancy/api.py and the month arithmetic of                 *)
(* app/billing/recurring.py.                                               *)
(***************************************************************************)
EXTENDS Integers

(* Python's dates.                                                         *)
Leap(year) == year % 4 = 0 /\ (year % 100 # 0 \/ year % 400 = 0)

MonthLength(year, month) ==
  CASE month \in {4, 6, 9, 11} -> 30
    [] month = 2               -> IF Leap(year) THEN 29 ELSE 28
    [] OTHER                   -> 31

Date(year, month, day) == [year |-> year, month |-> month, day |-> day]

IsDate(d) == d.month \in 1..12 /\ d.day \in 1..MonthLength(d.year, d.month)

CalendarDates == {d \in [year: Int, month: 1..12, day: 1..31] : IsDate(d)}

(* Days from the first of January of year 1, itself day 1, as toordinal.   *)
Ordinal(d) ==
  LET years == d.year - 1
      before == ((367 * d.month) - 362) \div 12
      short == IF d.month <= 2 THEN 0 ELSE IF Leap(d.year) THEN 1 ELSE 2
  IN (365 * years) + (years \div 4) - (years \div 100) + (years \div 400) + before - short + d.day

FromOrdinal(n) ==
  LET year == CHOOSE y \in (n \div 366)..((n \div 365) + 1) :
                Ordinal(Date(y, 1, 1)) <= n /\ n < Ordinal(Date(y + 1, 1, 1))
      month == CHOOSE m \in 1..12 :
                 n - Ordinal(Date(year, m, 1)) \in 0..(MonthLength(year, m) - 1)
  IN Date(year, month, n - Ordinal(Date(year, month, 1)) + 1)

(* date + timedelta(days=n), date - date, and the order of dates.          *)
Plus(d, n) == FromOrdinal(Ordinal(d) + n)
Between(c, d) == Ordinal(d) - Ordinal(c)
NotAfter(c, d) ==
  \/ c.year < d.year
  \/ (c.year = d.year /\ (c.month < d.month \/ (c.month = d.month /\ c.day <= d.day)))

-----------------------------------------------------------------------------
(* A year begins with its start month; January to that is the year before. *)
FiscalYear(on, startMonth) == IF on.month >= startMonth THEN on.year ELSE on.year - 1

DaysIn(year, month) ==
  Between(Date(year, month, 1),
          Date(year + (IF month = 12 THEN 1 ELSE 0), (month % 12) + 1, 1))

(* _add_months: the same day of another month, or that month's last.       *)
AddMonths(on, months) ==
  LET total == on.month - 1 + months
      year == on.year + (total \div 12)
      month == (total % 12) + 1
  IN Date(year, month, IF on.day < DaysIn(year, month) THEN on.day ELSE DaysIn(year, month))

(* Mutant of NextDate: a month is thirty days.                             *)
NextDateByDays(start, months) == Plus(start, 30 * months)

(* add_months of recurring invoices, with a table of lengths of its own.   *)
NextDate(start, months) ==
  LET index == start.month - 1 + months
      year == start.year + (index \div 12)
      month == (index % 12) + 1
      last == MonthLength(year, month)
  IN Date(year, month, IF start.day < last THEN start.day ELSE last)

-----------------------------------------------------------------------------
(* Periods: closed ranges of dates.                                        *)
Period(start, end) == [start |-> start, end |-> end]

IsPeriod(p) == NotAfter(p.start, p.end)

Days(p) == Between(p.start, p.end) + 1

Covers(p, d) == NotAfter(p.start, d) /\ NotAfter(d, p.end)

FiscalYearBounds(on, startMonth) ==
  LET start == Date(FiscalYear(on, startMonth), startMonth, 1)
  IN Period(start, Plus(AddMonths(start, 12), -1))

FiscalQuarter(quarter, on, startMonth) ==
  LET start == AddMonths(FiscalYearBounds(on, startMonth).start, (quarter - 1) * 3)
  IN Period(start, Plus(AddMonths(start, 3), -1))

(* Mutant of LastFiscalYear: the day before is looked for a year back.     *)
LastFiscalYearOfToday(today, startMonth) ==
  FiscalYearBounds(Plus(FiscalYearBounds(today, startMonth).start, -366), startMonth)

LastFiscalYear(today, startMonth) ==
  FiscalYearBounds(Plus(FiscalYearBounds(today, startMonth).start, -1), startMonth)

MonthOf(start) == Period(start, Plus(AddMonths(start, 1), -1))

ThisMonth(today) == MonthOf([today EXCEPT !.day = 1])
LastMonth(today) == MonthOf(AddMonths([today EXCEPT !.day = 1], -1))

PeriodNames ==
  {"this-fiscal-year", "last-fiscal-year", "this-month", "last-month", "q1", "q2", "q3", "q4"}

(* The period of a name, and the year to date when none is named.          *)
Named(name, today, startMonth) ==
  CASE name = "this-fiscal-year" -> FiscalYearBounds(today, startMonth)
    [] name = "last-fiscal-year" -> LastFiscalYear(today, startMonth)
    [] name = "this-month"       -> ThisMonth(today)
    [] name = "last-month"       -> LastMonth(today)
    [] name = "q1"               -> FiscalQuarter(1, today, startMonth)
    [] name = "q2"               -> FiscalQuarter(2, today, startMonth)
    [] name = "q3"               -> FiscalQuarter(3, today, startMonth)
    [] name = "q4"               -> FiscalQuarter(4, today, startMonth)

YearToDate(today, startMonth) == Period(FiscalYearBounds(today, startMonth).start, today)

(* _preceding: as many days, up to the day before.                         *)
Preceding(p) ==
  LET end == Plus(p.start, -1)
  IN Period(Plus(Plus(end, -Days(p)), 1), end)
=============================================================================
