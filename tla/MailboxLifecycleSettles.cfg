CONSTANTS
  Requests = {r1, r2, r3}
  Worker = worker
  Ops = {o1, o2}
  Passwords = {p1}
  Blocked = blocked
  Absent = absent
  Nobody = nobody
  Kinds = {"suspend", "restore", "password", "delete", "create"}
  PoolSize = 2
  Faults = {"control", "db", "read"}
  MaxFaults = 1
  MaxCrashes = 1
SPECIFICATION FairSpec
PROPERTIES CompletedStaysCompleted OperationsComplete RequestsAnswered
