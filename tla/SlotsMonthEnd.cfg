SPECIFICATION Spec
CONSTANTS
  Months <- Calendar
  Units <- HalfHours
  Zones <- India
  Schedules <- Evening
  Dates <- MonthEnd
  MaxBookings = 0
  MaxTicks = 0
PROPERTIES OffersAreRight
CHECK_DEADLOCK FALSE
