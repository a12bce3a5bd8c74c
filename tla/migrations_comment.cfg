SPECIFICATION MigrationsSpec
CONSTANTS
    MaxRuns = 3
    MaxKills = 2
INVARIANT EverythingApplied
CHECK_DEADLOCK FALSE
