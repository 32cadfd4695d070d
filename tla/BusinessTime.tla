----------------------------- MODULE BusinessTime -----------------------------
(***************************************************************************)
(* madar-time and a Dawam shift's placement (shift.rs): a branch's wall    *)
(* clock and the instants it stands for, across the clock changes of its   *)
(* zone.                                                                   *)
(*                                                                         *)
(* Instants and wall times are whole half hours, the step in which a day's *)
(* first instant is looked for.  A zone is an offset and the changes to    *)
(* it: [base, jumps], a jump being [at, to].  Wall time d * DayLength is   *)
(* midnight of date d.                                                     *)
(***************************************************************************)
EXTENDS Rounding, FiniteSets

DayLength == 48

HalfHours(minutes) == minutes \div 30

-----------------------------------------------------------------------------
(* The zone's own tables.                                                  *)
Offset(z, i) ==
    LET past == { j \in z.jumps : j.at <= i }
    IN  IF past = {} THEN z.base ELSE (CHOOSE j \in past : \A k \in past : k.at <= j.at).to

Wall(z, i) == i + Offset(z, i)

(* The instants a wall time stands for: none in a spring gap, two when the *)
(* clock is put back.                                                      *)
Readings(z, w) ==
    { i \in { w - o : o \in {z.base} \union { j.to : j \in z.jumps } } : Wall(z, i) = w }

Earliest(instants) == CHOOSE i \in instants : \A j \in instants : i <= j
Latest(instants)   == CHOOSE i \in instants : \A j \in instants : j <= i

-----------------------------------------------------------------------------
(* The date of an instant.                                                 *)
BusinessDate(z, i) == Wall(z, i) \div DayLength

TimeOfDay(z, i) == Wall(z, i) % DayLength

(* Weeks start on Saturday; date 0 is given its weekday, Monday being 0.   *)
WeekStart(date, weekdayOfZero) == date - ((7 + ((date + weekdayOfZero) % 7) - 5) % 7)

(* The first of a date's first four half hours that exists, else midnight  *)
(* read as UTC.                                                            *)
LocalMidnight(z, date) ==
    LET existing == { k \in 0..3 : Readings(z, date * DayLength + k) # {} }
    IN  IF existing = {} THEN date * DayLength
        ELSE Earliest(Readings(z, date * DayLength + Earliest(existing)))

DayBounds(z, date) == [start |-> LocalMidnight(z, date), end |-> LocalMidnight(z, date + 1)]

(* Mutant: a time in the gap is read after the jump.                       *)
TryWallInstantAfter(z, w, later) ==
    IF Readings(z, w) = {} THEN w - Offset(z, w)
    ELSE IF later THEN Latest(Readings(z, w)) ELSE Earliest(Readings(z, w))

(* A wall time as an instant: of two the later when `later` says so, of    *)
(* none the one at the offset in force before the jump, which is the first *)
(* wall time within three hours that exists; None when none does.          *)
TryWallInstant(z, w, later) ==
    LET there == Readings(z, w)
        after == { m \in 1..HalfHours(180) : Readings(z, w + m) # {} }
        jump == Earliest(Readings(z, w + Earliest(after)))
    IN  IF there # {} THEN IF later THEN Latest(there) ELSE Earliest(there)
        ELSE IF after = {} THEN None
        ELSE w - Offset(z, jump - 1)

(* The same, read as UTC where there is none.                              *)
WallInstant(z, w, later) ==
    LET there == TryWallInstant(z, w, later)
    IN  IF there = None THEN w ELSE there

(* A date and a time of day, of two the earliest; hours past midnight roll *)
(* over.                                                                   *)
LocalInstant(z, date, time) == WallInstant(z, date * DayLength + time, FALSE)

-----------------------------------------------------------------------------
(* A shift: [start, end], times of day.                                    *)
Overnight(shift) == shift.end <= shift.start

ShiftEndDate(date, shift) == IF Overnight(shift) THEN date + 1 ELSE date

(* The server's placement: the later reading; none when an end has none.   *)
ShiftInstants(z, date, shift) ==
    LET start == TryWallInstant(z, date * DayLength + shift.start, TRUE)
        end == TryWallInstant(z, ShiftEndDate(date, shift) * DayLength + shift.end, TRUE)
    IN  IF None \in {start, end} THEN None ELSE [start |-> start, end |-> end]

ShiftLength(shift) ==
    IF Overnight(shift) THEN shift.end + DayLength - shift.start ELSE shift.end - shift.start

===============================================================================
