SPECIFICATION Spec
CONSTANTS
  Ips = {ip}
  Users = {cid}
  UserKinds = {"msg"}
  Period <- Periods
  Burst <- Bursts
  MaxConns = 2
  Lockout = 3
  Interval = 1
  IdleMax = 2
  MaxTime = 4
  MaxBack = 1
  None = None
INVARIANTS WithinRate FailuresLock
PROPERTY LockHolds
CHECK_DEADLOCK FALSE
