SPECIFICATION FairSpec
CONSTANTS
  ServoCount = 2
  CommandTimeout = 1
  FeedbackTimeout = 1
  MaxFuture = 0
  Commanded <- FirstServo
  MaxSequence = 2
  MaxLag = 0
  MaxLine = 1
PROPERTIES GoalsAscend GoalsAreFresh SilenceIsNoticed LatchReachesSafety
