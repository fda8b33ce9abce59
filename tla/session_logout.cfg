SPECIFICATION SessionSpec
CONSTANTS
  Tabs = {t1, t2}
  MaxCalls = 3
PROPERTY LogoutHolds
CHECK_DEADLOCK FALSE
