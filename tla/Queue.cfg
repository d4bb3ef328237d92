\* Two workers and every operation, under each of the settings.
CONSTANTS
    Jobs = {j1, j2}
    Workers = {a, b}
    Types = {known, other}
    Handled = {known}
    MaxRetries = 1
    Threshold = 2
    Settings <- MCSettings
SPECIFICATION FairSpec
INVARIANTS EachJobOnce
PROPERTIES CancelledNeverStarts DrainTakesAll
CHECK_DEADLOCK FALSE
