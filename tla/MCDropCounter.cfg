SPECIFICATION CounterSpec
CONSTANTS
    MaxCount = 3
    MaxDrops = 4
    MaxMinute = 3
    MaxReports = 2
    NoSample = NoSample
INVARIANT
    CountedOnce
