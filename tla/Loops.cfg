SPECIFICATION Spec
CONSTANTS
    NoValue = NoValue
PROPERTIES TrialCloses FollowerCatchesUp WatchReturns Supervised
CHECK_DEADLOCK FALSE
