------------------------------ MODULE Calendar ------------------------------
(***************************************************************************)
(* time.Time.AddDate(1, 0, 0), the only date arithmetic of the registry.   *)
(* External code (Go's time package).  Time is counted in ticks, DayTicks  *)
(* of them to a day; a common year has YearDays days and LeapDays is the   *)
(* set of days that are a 29 February.  The same month and day one year    *)
(* later is YearDays away, or one more when a leap day lies on the day     *)
(* itself or on any of the YearDays days after it; 29 February itself is   *)
(* normalised to 1 March.                                                  *)
(***************************************************************************)
EXTENDS Integers, FiniteSets

CONSTANTS DayTicks, YearDays, LeapDays

ASSUME CalendarAssumption ==
  /\ DayTicks \in Nat \ {0}
  /\ YearDays \in Nat \ {0}
  /\ LeapDays \subseteq Nat
  /\ \A l, m \in LeapDays : l < m => m - l > YearDays

DayOf(t) == t \div DayTicks

LeapDayWithinYear(d) == \E l \in LeapDays : d <= l /\ l <= d + YearDays

AddYear(t) ==
  t + DayTicks * (YearDays + IF LeapDayWithinYear(DayOf(t)) THEN 1 ELSE 0)
=============================================================================
