SPECIFICATION FairSpec
CONSTANTS
    Capacity = 3
    MaxEvents = 8
INVARIANTS RetainsNewest NoSilentLoss
PROPERTIES RingIsDrained FeedbackAdvances
