----------------------------- MODULE LaunchdCron -----------------------------
(***************************************************************************)
(* StartCalendarInterval (src/launchd/src/launchd.c): job_set_alarm and   *)
(* the cronemu family, which compute the next local time matching a       *)
(* wildcard spec, and the EVFILT_TIMER callback that re-arms the alarm.   *)
(*                                                                         *)
(* A time is a count of minutes; a broken-down time is a struct tm record *)
(* whose fields may be out of range, as the code leaves them between       *)
(* calls to mktime.  The calendar is scaled down: MinutesPerHour,         *)
(* HoursPerDay and the month lengths are constants, a week has 7 days.    *)
(* Every loop of the code is a RECURSIVE operator; the two loops without  *)
(* a carry test (cronemu's over years, cronemu_wday's over days) take a   *)
(* bound, MaxYears and MaxDays, past which they report NoTime.            *)
(***************************************************************************)
EXTENDS Integers, SequencesExt

CONSTANTS
  MinutesPerHour, \* tm_min is 0 .. MinutesPerHour - 1
  HoursPerDay,    \* tm_hour is 0 .. HoursPerDay - 1
  MonthLen,       \* days of each month, tm_mon = i - 1 for MonthLen[i]
  WdayOfDay0,     \* tm_wday of the first day of year 0
  Years,          \* launchd runs within years 0 .. Years - 1
  MaxYears,       \* iterations of cronemu's loop
  MaxDays,        \* iterations of cronemu_wday's loop
  MaxDelay,       \* minutes a fired alarm can wait in asynckq
  CalMins, CalHours, CalMdays, CalWdays, CalMons \* StartCalendarInterval values

ASSUME MinutesPerHour > 1 /\ HoursPerDay > 1 /\ Len(MonthLen) > 1

Months == Len(MonthLen)
MinutesPerDay == MinutesPerHour * HoursPerDay
DaysBefore == [m \in 0 .. Months |->
                 FoldLeft(LAMBDA a, b : a + b, 0, SubSeq(MonthLen, 1, m))]
DaysBeforeMon(m) == DaysBefore[m]
YearDays == DaysBeforeMon(Months)
Horizon == Years * YearDays * MinutesPerDay
NoTime == -1

\* The start_cal_interval struct tm: -1 is the wildcard.
CalSpecs == [min : CalMins, hour : CalHours, mday : CalMdays, wday : CalWdays,
             mon : CalMons]

\* mktime: the minute a struct tm with fields past their range denotes
\* (each field carries into the next), and localtime: its broken-down
\* form with tm_wday.
Mktime(t) ==
  LET y == t.year + t.mon \div Months
      m == t.mon % Months
  IN  ((y * YearDays + DaysBeforeMon(m) + t.mday - 1) * HoursPerDay + t.hour)
        * MinutesPerHour + t.min

LocaltimeOf(T) ==
  LET day == T \div MinutesPerDay
      doy == day % YearDays
      m   == CHOOSE m \in 0 .. Months - 1 :
               DaysBeforeMon(m) <= doy /\ doy < DaysBeforeMon(m + 1)
  IN  [year |-> day \div YearDays, mon |-> m, mday |-> doy - DaysBeforeMon(m) + 1,
       hour |-> (T % MinutesPerDay) \div MinutesPerHour,
       min |-> T % MinutesPerHour, wday |-> (WdayOfDay0 + day) % 7]

\* localtime over every minute the scans reach, computed once.
LastMinute == (Years + MaxYears + 2) * YearDays * MinutesPerDay
LocaltimeTable == [T \in 0 .. LastMinute |-> LocaltimeOf(T)]
Localtime(T) == LocaltimeTable[T]

\* mktime(&workingtm) normalizes the struct in place.
Normalize(t) == Localtime(Mktime(t))

Res(ok, tm) == [ok |-> ok, tm |-> tm]

\* localtime(time(NULL)) with tm_sec = 0 and tm_min++ (not normalized).
StartTm(now) == [Localtime(now) EXCEPT !.min = @ + 1]

----------------------------------------------------------------------------
(* cronemu_min .. cronemu_mon: each returns whether the spec can still    *)
(* match within the current value of its field, and the updated struct.   *)
(* On failure the struct is returned unchanged: a wildcard branch leaves  *)
(* *wtm alone, and every caller resets the fields the other branches set. *)

\* The wildcard branches: the loop's result if it matched, else wtm as it was.
IfOk(r, wt) == IF r.ok THEN r ELSE Res(FALSE, wt)

\* One turn of a wildcard loop: stop at a match; otherwise the field is
\* incremented and mktime'd, and a carry (the field is not the value set)
\* fails, else the loop goes on with the normalized struct.
LoopTurn(r, carried, wt, again) == IF r.ok THEN r
                                   ELSE IF carried THEN Res(FALSE, wt) ELSE again

cronemu_min(wt, min) ==
  CASE min = -1     -> Res(TRUE, wt)
    [] min < wt.min -> Res(FALSE, wt)
    [] OTHER        -> Res(TRUE, [wt EXCEPT !.min = min])

\* The loop of cronemu_hour for hour == -1.
RECURSIVE HourScan(_, _)
HourScan(wt, min) ==
  LET w == Normalize([wt EXCEPT !.hour = @ + 1, !.min = 0])
  IN  LoopTurn(cronemu_min(wt, min), w.hour # wt.hour + 1, wt, HourScan(w, min))

\* A requested hour past tm_hour resets the minute.
cronemu_hour(wt, hour, min) ==
  CASE hour = -1      -> IfOk(HourScan(wt, min), wt)
    [] hour < wt.hour -> Res(FALSE, wt)
    [] OTHER -> cronemu_min(IF hour > wt.hour THEN [wt EXCEPT !.hour = hour, !.min = 0]
                                              ELSE wt, min)

RECURSIVE DayScan(_, _, _)
DayScan(wt, hour, min) ==
  LET w == Normalize([wt EXCEPT !.mday = @ + 1, !.hour = 0, !.min = 0])
  IN  LoopTurn(cronemu_hour(wt, hour, min), w.mday # wt.mday + 1, wt,
               DayScan(w, hour, min))

\* A requested day is set without comparing it with the month's length.
cronemu_mday(wt, mday, hour, min) ==
  CASE mday = -1      -> IfOk(DayScan(wt, hour, min), wt)
    [] mday < wt.mday -> Res(FALSE, wt)
    [] OTHER -> cronemu_hour(IF mday > wt.mday
                             THEN [wt EXCEPT !.mday = mday, !.hour = 0, !.min = 0]
                             ELSE wt, hour, min)

RECURSIVE MonScan(_, _, _, _)
MonScan(wt, mday, hour, min) ==
  LET w == Normalize([wt EXCEPT !.mon = @ + 1, !.mday = 1, !.hour = 0, !.min = 0])
  IN  LoopTurn(cronemu_mday(wt, mday, hour, min), w.mon # wt.mon + 1, wt,
               MonScan(w, mday, hour, min))

cronemu_mon(wt, mon, mday, hour, min) ==
  CASE mon = -1     -> IfOk(MonScan(wt, mday, hour, min), wt)
    [] mon < wt.mon -> Res(FALSE, wt)
    [] OTHER -> cronemu_mday(IF mon > wt.mon
                             THEN [wt EXCEPT !.mon = mon, !.mday = 1, !.hour = 0,
                                             !.min = 0]
                             ELSE wt, mday, hour, min)

\* The end of cronemu's and cronemu_wday's loops: mktime of the matched
\* struct, or the next turn.
Found(r, again) == IF r.ok THEN Mktime(r.tm) ELSE again

\* cronemu: from the next minute, year after year until cronemu_mon
\* matches; the result is mktime of the struct it leaves.
RECURSIVE YearScan(_, _, _)
YearScan(wt, c, fuel) ==
  Found(cronemu_mon(wt, c.mon, c.mday, c.hour, c.min),
        IF fuel = 0 THEN NoTime
        ELSE YearScan(Normalize([wt EXCEPT !.year = @ + 1, !.mon = 0, !.mday = 1,
                                            !.hour = 0, !.min = 0]), c, fuel - 1))

cronemu(now, c) == YearScan(StartTm(now), c, MaxYears)

\* cronemu_wday: day after day until tm_wday is the weekday (7 is 0) and
\* cronemu_hour matches; the loop body calls cronemu_hour on the new day
\* before mktime.  What a failed cronemu_hour in the loop test changed
\* (tm_hour, tm_min) is reset by the loop body.
RECURSIVE WdayScan(_, _, _, _, _)
WdayScan(wt, wday, hour, min, fuel) ==
  Found(IF wt.wday = wday THEN cronemu_hour(wt, hour, min) ELSE Res(FALSE, wt),
        IF fuel = 0 THEN NoTime
        ELSE WdayScan(Normalize(cronemu_hour([wt EXCEPT !.mday = @ + 1, !.hour = 0,
                                                        !.min = 0], hour, min).tm),
                      wday, hour, min, fuel - 1))

cronemu_wday(now, c) ==
  WdayScan(StartTm(now), IF c.wday = 7 THEN 0 ELSE c.wday, c.hour, c.min, MaxDays)

\* job_set_alarm's choice: the day-of-month candidate, or the weekday
\* candidate, or the earlier of both when Day and Weekday are both given.
Later(c, later, otherlater) ==
  IF c.wday = -1 THEN later
  ELSE IF c.mday # -1 THEN Min({later, otherlater})
  ELSE otherlater

job_set_alarm(now, c) == Later(c, cronemu(now, c), cronemu_wday(now, c))

----------------------------------------------------------------------------
VARIABLES
  now,   \* time(NULL) when job_set_alarm last ran
  cal,   \* the job's start_cal_interval
  alarm  \* the NOTE_ABSOLUTE EVFILT_TIMER deadline

vars == <<now, cal, alarm>>

\* load_job arms the alarm of a job loaded at any time.
Init ==
  /\ now \in 0 .. Horizon - 1
  /\ cal \in CalSpecs
  /\ alarm = job_set_alarm(now, cal)

\* job_callback, EVFILT_TIMER on start_cal_interval: job_start, then
\* job_set_alarm from the time the event is handled (asynckq may hold
\* it back while disabled).
CalendarFire ==
  /\ alarm # NoTime
  /\ alarm + MaxDelay < Horizon
  /\ \E d \in 0 .. MaxDelay :
       /\ now' = alarm + d
       /\ alarm' = job_set_alarm(alarm + d, cal)
  /\ UNCHANGED cal

Next == CalendarFire

Spec == Init /\ [][Next]_vars

----------------------------------------------------------------------------
(* Properties.                                                             *)

\* Spec 4.D "Calendar alarm": the local time of the minute T satisfies
\* the wildcard spec: month, day of month, hour and minute, or weekday,
\* hour and minute (the weekday alone when Day is -1).
Matches(T, c) ==
  LET t  == Localtime(T)
      ok(v, f) == v = -1 \/ v = f
      wd == IF c.wday = 7 THEN 0 ELSE c.wday
  IN  /\ ok(c.hour, t.hour) /\ ok(c.min, t.min)
      /\ \/ (c.wday = -1 \/ c.mday # -1) /\ ok(c.mon, t.mon) /\ ok(c.mday, t.mday)
         \/ c.wday # -1 /\ wd = t.wday

\* The reference: the least minute strictly after now that matches.
NextMatch(t0, c) ==
  LET cands == {T \in t0 + 1 .. t0 + (MaxYears + 1) * YearDays * MinutesPerDay :
                  Matches(T, c)}
  IN  IF cands = {} THEN NoTime ELSE Min(cands)

\* Spec 4.D: job_set_alarm arms the timer at the next time strictly after
\* now whose local time matches the StartCalendarInterval spec (for a spec
\* that some time matches; the spec says nothing of one like Day 30 of
\* February).
CalendarNextMatch == NextMatch(now, cal) # NoTime => alarm = NextMatch(now, cal)

================================================================================
