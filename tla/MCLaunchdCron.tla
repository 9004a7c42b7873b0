---------------------------- MODULE MCLaunchdCron ----------------------------
(* A year of two months of 3 and 2 days, days of 2 hours of 2 minutes: a  *)
(* Day of 3 is valid in the first month only, and every field has a last  *)
(* value that carries into the next.                                       *)
EXTENDS LaunchdCron

MCMonthLen == <<3, 2>>
MCCalMins == {-1, 0, 1}
MCCalHours == {-1, 0, 1}
MCCalMdays == {-1, 1, 3}
MCCalWdays == {-1, 0, 3, 7}
MCCalMons == {-1, 0}
================================================================================
