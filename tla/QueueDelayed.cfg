\* A job with a delay.
CONSTANTS
    Jobs = {j1, j2}
    Workers = {a}
    Types = {known}
    Handled = {known}
    MaxRetries = 1
    Threshold = 2
    Settings <- MCDefaults
SPECIFICATION FairSpec
PROPERTIES DelayedIsQueued
CHECK_DEADLOCK FALSE
