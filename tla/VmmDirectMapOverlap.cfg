SPECIFICATION OverlapSpec
PROPERTY PinnedRangeUnclaimed
CHECK_DEADLOCK FALSE
