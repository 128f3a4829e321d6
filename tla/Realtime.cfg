SPECIFICATION FairSpec
CONSTANTS
    MaxFrames = 2
    Observed = {"ready"}
CHECK_DEADLOCK FALSE
INVARIANT HeardOnce
PROPERTY ReadyMeansHeard
