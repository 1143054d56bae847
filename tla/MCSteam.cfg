\* Two attempts, one token of burst, a meter for any stretch of four ticks.
CONSTANTS
  Burst = 1
  Period = 2
  Low = 3
  High = 4
  Window = 4
  Appid = {1, 2, 3, 4}
  RealGame = {1, 2}
  Reviews <- SomeReviews
  ReviewFloor = 2
  PageSize = 2
  Limit = 4
  Attempts = 2
SPECIFICATION Spec
INVARIANTS
  TypeOK
  RequestsArePaced
  NoGameTwice
PROPERTIES
  OnlyAnswersSettle
  RunEnds
