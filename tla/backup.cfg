SPECIFICATION BackupSpec
CONSTANTS
  Procs = {"timer", "operator"}
  Keep = 2
  MaxAttempts = 4
  MaxDamaged = 1
INVARIANTS
  RetentionHolds
  SuccessIsPublished
CHECK_DEADLOCK FALSE
