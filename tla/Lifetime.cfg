\* Eight calls of the user, each of which may fail at any step
CHECK_DEADLOCK FALSE
CONSTANT MaxCalls = 8
SPECIFICATION LifetimeSpec
INVARIANTS
  ReleasedOnce
  AllReleased
