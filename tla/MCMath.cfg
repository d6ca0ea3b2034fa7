SPECIFICATION Spec
CONSTANTS
    Step = 2000
    MaxActive = 6
    MaxIndex = 20
INVARIANTS LimitIsWhatTheLockCovers EveryRoundHasItsSeat ShuffleIsPermutation
CHECK_DEADLOCK FALSE
