CONSTANTS
  Tasks = {t1, t2}
  Workloads = {{"server", "schedule"}, {"allocation"}, {"subuser"}, {"database"}}
  MaxCalls = 3
  MaxFaults = 1
  LastPort = 2
  Owners = {1, 2, 3}
  Short <- MCShort
  Emails = {e1}
  Slots = {1, 2}
  Names = {n1}
  Runs = {g1}
SPECIFICATION Spec
INVARIANTS TypeOK RowAgreesWithAgent CronMatchesRows RecordUsable
PROPERTIES FirstComeKeepsKey DeletedStaysDeleted
CHECK_DEADLOCK FALSE
