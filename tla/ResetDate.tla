----------------------------- MODULE ResetDate ------------------------------
(***************************************************************************)
(* The day on which the traffic of this month began: utils/utils.go.       *)
(*                                                                         *)
(* A date is <<year, month, day>>, and a reset happens at its first hour.  *)
(* NetworkSpeed asks netstatic for the traffic since that day, which       *)
(* netstatic can tell only as long as it keeps its records.                *)
(***************************************************************************)
EXTENDS Naturals, FiniteSets

CONSTANT DataPreserveDay  \* DefaultDataPreserveDay of netstatic

ASSUME PreserveConstant == DataPreserveDay \in Nat

Leap(year) == year % 4 = 0 /\ (year % 100 # 0 \/ year % 400 = 0)

\* The last day of a month, as time.Date counts it.
DaysIn(year, month) ==
  IF month = 2 THEN (IF Leap(year) THEN 29 ELSE 28) ELSE IF month \in {4, 6, 9, 11} THEN 30 ELSE 31

Before(a, b) ==
  \/ a[1] < b[1]
  \/ a[1] = b[1] /\ a[2] < b[2]
  \/ a[1] = b[1] /\ a[2] = b[2] /\ a[3] < b[3]

\* Mutant: the last day of the month stands for a day that it does not have.
getActualResetDateClipped(year, month, resetDay) ==
  <<year, month, IF resetDay <= DaysIn(year, month) THEN resetDay ELSE DaysIn(year, month)>>

\* getActualResetDate: a day that the month does not have is the first of the next.
getActualResetDate(year, month, resetDay) ==
  IF resetDay <= DaysIn(year, month) THEN <<year, month, resetDay>>
  ELSE IF month = 12 THEN <<year + 1, 1, 1>> ELSE <<year, month + 1, 1>>

\* GetLastResetDate
GetLastResetDate(resetDay, date) ==
  LET this == getActualResetDate(date[1], date[2], resetDay)
  IN IF ~Before(date, this) THEN this
     ELSE IF date[2] = 1 THEN getActualResetDate(date[1] - 1, 12, resetDay)
     ELSE getActualResetDate(date[1], date[2] - 1, resetDay)

\* The days on which traffic begins anew, by what the flag says of them.
Begins(resetDay, date) ==
  \/ date[3] = resetDay
  \/ /\ date[3] = 1
     /\ resetDay > (IF date[2] = 1 THEN DaysIn(date[1] - 1, 12) ELSE DaysIn(date[1], date[2] - 1))

\* The days from one date to another, at most two months later.
DaysFrom(a, b) ==
  IF <<a[1], a[2]>> = <<b[1], b[2]>> THEN b[3] - a[3]
  ELSE DaysIn(a[1], a[2]) - a[3] + b[3]
       + (IF b[2] = (a[2] % 12) + 1 THEN 0 ELSE DaysIn(b[1], b[2] - 1))

\* The month of a report has begun on the last day on which one begins, and so
\* lately that netstatic still has every record of it (utils.go, static.go).
ResetDateAgrees(q) ==
  LET last == GetLastResetDate(q.resetDay, q.date)
  IN /\ ~Before(q.date, last) /\ Begins(q.resetDay, last)
     /\ \A month \in 1 .. 12 : \A day \in 1 .. DaysIn(q.date[1], month) :
          LET other == <<q.date[1], month, day>>
          IN Before(last, other) /\ ~Before(q.date, other) => ~Begins(q.resetDay, other)
     /\ DaysFrom(last, q.date) < DataPreserveDay
=============================================================================
