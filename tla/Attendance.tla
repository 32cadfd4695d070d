------------------------------ MODULE Attendance ------------------------------
(***************************************************************************)
(* One employee's working days: a rostered shift placed on the branch's    *)
(* wall clock, a punch, what lateness and absence dock, and a payslip when *)
(* the pay period closes (madar-dawam over madar-time), with the rules of  *)
(* its money: the period, a salary's rates, the ladder, base pay pro rata. *)
(*                                                                         *)
(* The server's attendance and payroll handlers are external: a punch is   *)
(* refused outside the fence, lateness is counted from the shift's         *)
(* instant, and a period's pay is its base less what its days docked.      *)
(***************************************************************************)
EXTENDS BusinessTime, Rounding, FiniteSetsExt

CONSTANTS
    MonthStart,  \* MonthStart[m]: the date month m opens on
    Scenarios,   \* [zone, shift, startDay, hire, salary, raises, radius]
    Ladder,      \* the rungs of the late penalty
    WorkingDays, \* per month, in hundredths
    DayMinutes,  \* the rostered minutes of a day
    PerAbsence,  \* the days docked for an absent day, in hundredths
    NoRadius,    \* a branch that set none
    Distances,   \* how far from the branch a phone may be, in metres
    WeekdayOfZero,
    LastDate,
    MaxIrregular \* days that are late or missed

-----------------------------------------------------------------------------
(* The money: dates are counted from the first of the first month.  A      *)
(* decimal (working days, a rung's value) is held in hundredths, and a     *)
(* figure is rounded once, half away from zero.                            *)

(* A date's month: the last to have started.                               *)
MonthOf(d) == CHOOSE m \in DOMAIN MonthStart :
    MonthStart[m] <= d /\ \A n \in DOMAIN MonthStart : MonthStart[n] <= d => n <= m

(* Mutant: the start day is taken as it is.                                *)
Unclamped(startDay) == startDay

ClampDay(startDay) == AtMost(IF startDay < 1 THEN 1 ELSE startDay, 28)

(* The pay window holding a date.                                          *)
PeriodWindow(d, startDay) ==
    LET offset == ClampDay(startDay) - 1
        month == MonthOf(d)
        opened == IF d >= MonthStart[month] + offset THEN month ELSE month - 1
    IN  [start |-> MonthStart[opened] + offset, end |-> MonthStart[opened + 1] + offset - 1]

-----------------------------------------------------------------------------
(* A salary's rates: [base, days, minutes], days in hundredths.  Each      *)
(* multiplies before it divides; a divisor that is none or less gives      *)
(* nothing.                                                                *)
PayRates(base, days, minutes) == [base |-> NonNegative(base), days |-> days, minutes |-> minutes]

DaysPiastres(rates, hundredths) ==
    IF rates.days <= 0 THEN 0 ELSE RoundHalfAway(rates.base * hundredths, rates.days)

MinutesPiastres(rates, hundredths) ==
    IF rates.days <= 0 \/ rates.minutes <= 0 THEN 0
    ELSE RoundHalfAway(rates.base * hundredths, rates.days * rates.minutes)

(* The salary calculator, from whichever rate was typed.                   *)
Rates(typed, days, minutes) ==
    LET v == NonNegative(typed.value)
        p == PayRates(v, days, minutes)
    IN  CASE typed.rate = "monthly" ->
               [monthly |-> v, daily |-> DaysPiastres(p, 100), hourly |-> MinutesPiastres(p, 6000)]
          [] typed.rate = "daily" ->
               [monthly |-> RoundHalfAway(v * days, 100), daily |-> v,
                hourly |-> IF minutes <= 0 THEN 0 ELSE RoundHalfAway(v * 60, minutes)]
          [] typed.rate = "hourly" ->
               [monthly |-> RoundHalfAway(v * minutes * days, 6000),
                daily |-> RoundHalfAway(v * minutes, 60), hourly |-> v]

PercentOfSalary(salary, hundredths) ==
    RoundHalfAway(NonNegative(salary) * NonNegative(hundredths), 10000)

-----------------------------------------------------------------------------
(* The ladder: a sequence of rungs [from, to, kind, value], both ends      *)
(* inside, NoEnd the open top.                                             *)
NoEnd == -1

OnRung(rung, late) == NonNegative(rung.from) <= late /\ (rung.to # NoEnd => late <= rung.to)

(* The rung a lateness falls on, the first that holds it; none on time or  *)
(* past a ladder that stops.                                               *)
Rung(ladder, late) ==
    LET on == { i \in DOMAIN ladder : late > 0 /\ OnRung(ladder[i], late) }
    IN  IF on = {} THEN {} ELSE { ladder[CHOOSE i \in on : \A j \in on : i <= j] }

LateDeduction(rung, rates) == NonNegative(
    CASE rung.kind = "minutes"      -> MinutesPiastres(rates, rung.value)
      [] rung.kind = "piastres"     -> RoundHalfAway(rung.value, 100)
      [] rung.kind = "day_fraction" -> DaysPiastres(rates, rung.value))

(* Days absent and the days docked for each are both in hundredths.        *)
AbsenceDeduction(rates, absent, perAbsence) ==
    IF rates.days <= 0 THEN 0
    ELSE RoundHalfAway(rates.base * NonNegative(absent) * NonNegative(perAbsence), rates.days * 100)

-----------------------------------------------------------------------------
(* A dated history: a set of [from, salary], a date at most once.          *)
SalaryOn(history, d, fallback) ==
    LET past == { h \in history : h.from <= d }
    IN  IF past = {} THEN fallback
        ELSE (CHOOSE h \in past : \A g \in past : g.from <= h.from).salary

SumOfDays(dates, history, fallback) ==
    MapThenSumSet(LAMBDA d : SalaryOn(history, d, fallback), dates)

(* Base pay of a window for the days paid in it.                           *)
ProratedBase(history, fallback, window, from, to) ==
    LET days == window.end - window.start + 1
        first == IF from < window.start THEN window.start ELSE from
    IN  IF days <= 0 \/ to < from THEN 0
        ELSE NonNegative(RoundHalfAway(SumOfDays(first..AtMost(to, window.end), history, fallback), days))

(* A joiner's first pay.                                                   *)
FirstPay(monthly, hire, startDay) ==
    LET window == PeriodWindow(hire, startDay)
    IN  [from |-> hire, to |-> window.end,
         days |-> window.end - hire + 1,
         periodDays |-> window.end - window.start + 1,
         piastres |-> ProratedBase({}, monthly, window, hire, window.end)]

-----------------------------------------------------------------------------
VARIABLES
    case,      \* the scenario
    date,      \* the day being worked
    punch,     \* the last punch: [at, date, late] with late in minutes, or NoPunch
    docked,    \* what the period's lateness cost so far
    missed,    \* the days absent in the period
    irregular,
    slips      \* the payslips issued: [window, base, docked, absence]

vars == <<case, date, punch, docked, missed, irregular, slips>>

NoPunch == [at |-> 0, date |-> 0, late |-> 0]

(* The fence: unset is 200 m, below zero is 0 m; on the line is inside.    *)
EffectiveRadius(radius) == IF radius = NoRadius THEN 200 ELSE NonNegative(radius)

Inside(distance) == distance <= EffectiveRadius(case.radius)

Salary(d) == SalaryOn(case.raises, d, case.salary)

RatesOn(d) == PayRates(Salary(d), WorkingDays, DayMinutes)

Placed(d) == ShiftInstants(case.zone, d, case.shift)

DeductionFor(late, d) ==
    LET rung == Rung(Ladder, late)
    IN  IF rung = {} THEN 0 ELSE LateDeduction(CHOOSE r \in rung : TRUE, RatesOn(d))

(* The day is over; on the last of a period its payslip is issued, and the *)
(* next starts from nothing.                                               *)
CloseDay(dockedNow, missedNow) ==
    LET window == PeriodWindow(date, case.startDay)
        slip == [window  |-> window,
                 base    |-> ProratedBase(case.raises, case.salary, window, case.hire, window.end),
                 docked  |-> dockedNow,
                 absence |-> AbsenceDeduction(RatesOn(date), 100 * missedNow, PerAbsence)]
    IN  /\ date' = date + 1
        /\ IF date = window.end
           THEN slips' = slips \union {slip} /\ docked' = 0 /\ missed' = 0
           ELSE slips' = slips /\ docked' = dockedNow /\ missed' = missedNow

-----------------------------------------------------------------------------
Init ==
    /\ case \in Scenarios
    /\ date = case.hire
    /\ punch = NoPunch
    /\ docked = 0 /\ missed = 0 /\ irregular = 0
    /\ slips = {}

(* A punch inside the fence, some half hours around the shift's start.     *)
Arrive(after, distance) ==
    LET late == 30 * NonNegative(after)
    IN  /\ date <= LastDate
        /\ Inside(distance)
        /\ Placed(date) # None
        /\ after > 0 => irregular < MaxIrregular
        /\ irregular' = irregular + (IF after > 0 THEN 1 ELSE 0)
        /\ punch' = [at |-> Placed(date).start + after, date |-> date, late |-> late]
        /\ CloseDay(docked + DeductionFor(late, date), missed)
        /\ UNCHANGED case

(* Nobody punched in all day, or only from outside the fence.              *)
Miss ==
    /\ date <= LastDate
    /\ irregular < MaxIrregular
    /\ irregular' = irregular + 1
    /\ CloseDay(docked, missed + 1)
    /\ UNCHANGED <<case, punch>>

Next ==
    \/ \E after \in -2..3, distance \in Distances : Arrive(after, distance)
    \/ Miss

Spec == Init /\ [][Next]_vars

-----------------------------------------------------------------------------
(* Consecutive days tile time: every instant of a day's bounds is of that  *)
(* date and of no other, a day opens at the instant its midnight stands    *)
(* for (24:00 of the day before), and an instant read on the wall clock is *)
(* found again, save the second of two.  Weeks tile the days likewise.     *)
DaysTile ==
    LET z == case.zone
        day == DayBounds(z, date)
    IN  /\ day.start = LocalInstant(z, date, 0)
        /\ day.end = LocalInstant(z, date, DayLength)
        /\ \A i \in (day.start - 6)..(day.end + 6) :
             /\ BusinessDate(z, i) = date <=> i \in day.start..(day.end - 1)
             /\ LocalInstant(z, BusinessDate(z, i), TimeOfDay(z, i))
                  \in {i} \union { j \in Readings(z, Wall(z, i)) : j < i }
        /\ WeekStart(date, WeekdayOfZero) \in (date - 6)..date
        /\ ((WeekStart(date, WeekdayOfZero) + WeekdayOfZero) % 7) = 5

Change == LET z == case.zone IN
    IF z.jumps = {} THEN 0 ELSE Latest({ IF j.to > z.base THEN j.to - z.base ELSE z.base - j.to : j \in z.jumps })

(* A shift longer than a clock change ends after it starts and lasts what  *)
(* it says but for the change, on every date; and nobody is late while the *)
(* clock on the wall still reads a time before the shift, nor on a clock   *)
(* that was put back to one.                                               *)
ShiftsFollowTheWall ==
    LET p == Placed(date)
        lasts == ShiftLength(case.shift)
    IN  /\ p # None /\ lasts > Change =>
               /\ p.start < p.end
               /\ p.end - p.start \in (lasts - Change)..(lasts + Change)
        /\ punch.late > 0 => Wall(case.zone, punch.at) > punch.date * DayLength + case.shift.start

(* Every day since the hire is paid by one payslip, or is of the period    *)
(* still open: windows hold their days, touch, and never overlap.          *)
EachDayPaidOnce ==
    LET open == PeriodWindow(date, case.startDay)
    IN  /\ date \in open.start..open.end
        /\ \A d \in case.hire..(date - 1) :
             Cardinality({ s \in slips : d \in s.window.start..s.window.end }) = (IF d < open.start THEN 1 ELSE 0)
        /\ \A s \in slips : s.window.end - s.window.start \in 27..30

(* A full window at one salary pays exactly that salary; a first, short or *)
(* raised window pays the two parts it is made of, to a piastre; a joiner  *)
(* is shown what payroll then pays.  The salary calculator shows what      *)
(* payroll docks: its day is an absent day's, its hour sixty minutes of    *)
(* lateness.  And no lateness costs more than a later one.                 *)
PayFollowsTheSalary ==
    LET shown == Rates([rate |-> "monthly", value |-> Salary(date)], WorkingDays, DayMinutes)
        hour == [from |-> 0, to |-> NoEnd, kind |-> "minutes", value |-> 6000]
    IN  /\ shown.daily = AbsenceDeduction(RatesOn(date), 100, 100)
        /\ shown.hourly = LateDeduction(hour, RatesOn(date))
        /\ \A late \in 0..90 : DeductionFor(late, date) <= DeductionFor(late + 1, date)
        /\ \A s \in slips :
             LET w == s.window
                 worked == (IF case.hire > w.start THEN case.hire ELSE w.start)..w.end
                 full == w.end - w.start + 1
                 part(sal) == RoundHalfAway(sal * Cardinality({ d \in worked : Salary(d) = sal }), full)
                 paid == { Salary(d) : d \in worked }
             IN  /\ (case.hire <= w.start /\ Cardinality(paid) = 1) => paid = {s.base}
                 /\ s.base - MapThenSumSet(part, paid) \in -1..1
                 /\ (case.hire \in w.start..w.end /\ case.raises = {}) =>
                       s.base = FirstPay(case.salary, case.hire, case.startDay).piastres

(* Days and shifts follow the clock on the wall, on every date.            *)
ClockIsFollowed == DaysTile /\ ShiftsFollowTheWall

(* Each day is paid once, and at the salary of that day.                   *)
PaidOnceAtTheSalary == EachDayPaidOnce /\ PayFollowsTheSalary
===============================================================================
