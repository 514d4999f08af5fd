SPECIFICATION RedisSpec
CONSTANTS
  Unit = 2
  Capacity = 5
  Refill = 1
  Lag = 1
  MaxTime = 10
  MaxBack = 2
INVARIANTS
  GrantsBounded
PROPERTIES
  ImplementsBucket
CHECK_DEADLOCK FALSE
