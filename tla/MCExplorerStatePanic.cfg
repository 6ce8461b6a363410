\* Three refreshes and two crashes: enough for a save, a crash while running,
\* a crash mid-save and a restart after each.
CONSTANTS
    MaxVersion = 3
    MaxCrashes = 2

SPECIFICATION Spec

INVARIANT StartNeverPanics
