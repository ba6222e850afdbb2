-------------------------- MODULE MCMetricsRollup --------------------------
(***************************************************************************)
(* The metrics jobs: what they count, what the dashboards show of it, and  *)
(* what the health summary says.  Each is its own abstraction of the jobs, *)
(* so a behaviour is about one of the three and the others rest.           *)
(***************************************************************************)
EXTENDS MetricsRollup, MetricsHealth, Dashboard, MetricsWindows, TLC

VARIABLE part

MCInit ==
  /\ part \in {"rollup", "health", "dashboard"}
  /\ Init /\ MHInit /\ DBInit
  /\ part # "dashboard" => endpoint = "summary"

MCNext ==
  /\ UNCHANGED part
  /\ \/ part = "rollup" /\ Next /\ UNCHANGED <<healthVars, dashboardVars>>
     \/ part = "health" /\ MHNext /\ UNCHANGED <<vars, dashboardVars>>
     \/ part = "dashboard" /\ DBNext /\ UNCHANGED <<vars, healthVars>>

MCSpec == MCInit /\ [][MCNext]_<<part, vars, healthVars, dashboardVars>>

\* The rollup alone.
DaysInit == part = "rollup" /\ Init /\ MHInit /\ DBInit /\ endpoint = "summary"
DaysSpec == DaysInit /\ [][MCNext]_<<part, vars, healthVars, dashboardVars>>

TypesOK == TypeOK /\ MHTypeOK /\ DBTypeOK

(***************************************************************************)
(* The weeks of two years against the Mondays of a calendar, of which the  *)
(* first before 1 January 1970 is three days back.                         *)
(***************************************************************************)
MCMondays == {7 * week - 3 : week \in 0..104}

ASSUME WeeksAsInCalendar ==
  \A date \in 0..728 :
    /\ startOfWeekUTC(date) \in MCMondays
    /\ \A monday \in MCMondays : monday <= date => monday <= startOfWeekUTC(date)

Symmetry == Permutations(Worker)
=============================================================================
