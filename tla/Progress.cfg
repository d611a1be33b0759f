SPECIFICATION FairSpec
PROPERTY WorkEnds
CHECK_DEADLOCK FALSE
