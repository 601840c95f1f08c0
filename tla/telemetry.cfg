SPECIFICATION Spec
CONSTANTS
  s1 = s1
  s2 = s2
  Session = {s1, s2}
  SessionCap = 1
  Retention = 1
  MaxRecords <- MCMaxRecords
  MaxFailures = 1
  MaxTime = 3
INVARIANTS TypeOK LoadIsSound
PROPERTIES  FreshSurvivesPrune RecordsReachDisk
CHECK_DEADLOCK FALSE
