------------------------- MODULE MCReportScheduler -------------------------
(***************************************************************************)
(* Instances of ReportScheduler for TLC: an hour is a tick, a day two.     *)
(***************************************************************************)
EXTENDS ReportScheduler, TLC

PeriodOf == [f \in Frequency |-> IF f = "hourly" THEN 1 ELSE 2]

Symmetry == Permutations(Worker)
=============================================================================
