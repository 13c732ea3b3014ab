CONSTANTS
  Requests = {r1, r2, r3}
  Worker = worker
  Ops = {o1, o2, o3}
  Passwords = {p1, p2}
  Blocked = blocked
  Absent = absent
  Nobody = nobody
  Kinds = {"suspend", "restore"}
  PoolSize = 4
  Faults = {"control", "db"}
  MaxFaults = 2
  MaxCrashes = 1
SPECIFICATION Spec
SYMMETRY Symmetry
INVARIANTS SuspendedMeansBlocked ActiveMeansUsable
