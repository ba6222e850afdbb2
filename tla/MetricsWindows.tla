--------------------------- MODULE MetricsWindows ---------------------------
(***************************************************************************)
(* The windows of the admin dashboards: the range that is asked for and    *)
(* the one before it, to which it is compared.                             *)
(***************************************************************************)
EXTENDS Integers

MetricsRange == {"this_week", "last_thirty_days", "all_time"}

\* Dates are days since 1 January 1970, a Thursday; getUTCDay is 0 on Sundays.
getUTCDay(date) == (date + 4) % 7

startOfWeekUTC(date) ==
  IF getUTCDay(date) = 0 THEN date - 6 ELSE date + 1 - getUTCDay(date)

Between(start, before, end) ==
  [start |-> start, end |-> end, prevStart |-> before, prevEnd |-> start]

\* All but `now` are midnights; `now` becomes its date where it meets periodDate.
resolveMetricsRange(range, today) ==
  CASE range = "this_week" -> Between(startOfWeekUTC(today), startOfWeekUTC(today) - 7, today)
    [] range = "last_thirty_days" -> Between(today - 29, today - 29 - 30, today)
    [] range = "all_time" -> Between(0, 0, today)

\* "periodDate" >= $2 AND "periodDate" < $3.
Current(window, date)  == window.start <= date /\ date < window.end
Previous(window, date) == window.prevStart <= date /\ date < window.prevEnd
=============================================================================
