\* The tooltip of --filter-sof against the filter
CHECK_DEADLOCK FALSE
CONSTANT MaxArrived = 2
SPECIFICATION Spec
INVARIANT InterruptingSofsKept
