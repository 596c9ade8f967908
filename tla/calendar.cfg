CONSTANTS
  LastDay = 3
  Wordings = {x1}
  Times = {"morning", "day"}
  MaxCreated = 2
  Clients = {k1}
  MaxSeries = 2
  MaxEdition = 1
SPECIFICATION SeriesSpec
INVARIANT CalendarShowsPeriod
CHECK_DEADLOCK FALSE
