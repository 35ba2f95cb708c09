------------------------------- MODULE MCQuarterly -------------------------------
(* Quarterly grants over the calendar of a common year.                    *)
EXTENDS QuarterlyCycle

MCMonthDays == <<31, 28, 31, 30, 31, 30, 31, 31, 30, 31, 30, 31>>
================================================================================
