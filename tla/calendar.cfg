CONSTANTS
  MinutesPerHour = 2
  HoursPerDay = 2
  MonthLen <- MCMonthLen
  WdayOfDay0 = 0
  Years = 1
  MaxYears = 3
  MaxDays = 8
  MaxDelay = 1
  CalMins <- MCCalMins
  CalHours <- MCCalHours
  CalMdays <- MCCalMdays
  CalWdays <- MCCalWdays
  CalMons <- MCCalMons
SPECIFICATION Spec
CHECK_DEADLOCK FALSE
INVARIANT CalendarNextMatch
