----------------------------- MODULE MCAttendance -----------------------------
(* February to May.  Zones that jump over midnight (Cairo), put the clock  *)
(* back onto the evening before, jump at two in the morning by an hour or  *)
(* by half of one, or never; shifts that start in a gap, at midnight, that *)
(* cross it, last an hour or a whole day; periods that open on the 1st,    *)
(* the 15th and past the 28th; a joiner and a raise mid-period.            *)
EXTENDS Attendance

MCMonthStart == <<0, 31, 59, 90, 120, 151>>

Spring == 50
Autumn == 75

(* A change when the wall reads time t of a date at the offset before it.  *)
At(d, t, before, to) == [at |-> d * DayLength + t - before, to |-> to]

Cairo  == [base |-> 4, jumps |-> {At(Spring, 0, 4, 6), At(Autumn, 48, 6, 4)}]
Berlin == [base |-> 2, jumps |-> {At(Spring, 4, 2, 4), At(Autumn, 6, 4, 2)}]
Azores == [base |-> -2, jumps |-> {At(Spring, 0, -2, 0), At(Autumn, 2, 0, -2)}]
Howe   == [base |-> 21, jumps |-> {At(Spring, 4, 21, 22), At(Autumn, 4, 22, 21)}]
Riyadh == [base |-> 6, jumps |-> {}]

Shift(start, end) == [start |-> start, end |-> end]

Plain == [zone |-> Cairo, shift |-> Shift(18, 34), startDay |-> 1, hire |-> 40, salary |-> 1140,
          raises |-> {}, radius |-> NoRadius]

MCScenarios ==
    { [Plain EXCEPT !.zone = z, !.shift = s, !.hire = 45] :
        z \in {Cairo, Berlin, Azores, Howe, Riyadh},
        s \in {Shift(0, 16), Shift(1, 17), Shift(5, 20), Shift(46, 12), Shift(47, 1), Shift(46, 46), Shift(32, 0)} }
    \union
    { [Plain EXCEPT !.startDay = d, !.hire = h, !.raises = r, !.radius = m] :
        d \in {0, 15, 31}, h \in {31, 52},
        r \in { {}, {[from |-> 70, salary |-> 1501]} }, m \in {NoRadius, 0} }

R(from, to, kind, value) == [from |-> from, to |-> to, kind |-> kind, value |-> value]

MCLadder == << R(-5, 15, "minutes", 500), R(15, 60, "piastres", 1500), R(61, NoEnd, "day_fraction", 50) >>
===============================================================================
