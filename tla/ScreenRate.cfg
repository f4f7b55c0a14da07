SPECIFICATION ScreenSpec
CONSTANTS
  Screens = {"s1", "s2"}
  Windows = {"w1"}
  FirstScreen = "s1"
  Rates = {1, 2}
  MaxAsks = 3
  MaxWork = 2
INVARIANT RateIsKept
CHECK_DEADLOCK FALSE
