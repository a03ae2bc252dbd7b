SPECIFICATION Spec
CONSTANTS
    MAX_POLLS = 12
    MaxChanges = 2
PROPERTY PollingStops
CHECK_DEADLOCK FALSE
