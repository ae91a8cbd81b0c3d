SPECIFICATION Spec
CONSTANTS
  None = None
  Text <- MCText
  Params <- MCParams
  MaxSlot = 2
  TEMPLATED_EXEC_MAX_SLOT_BATCH = 2
  MaxPart = 3
  MaxFault = 2
  Row = {r1, r2}
  Key = {k1, k2}
  BadKey = {k2}
  KeySlot = 0
  MIGRATE_KEYS_BATCH = 1
  ThisNode = "h2"
  MaxVolume = 3
  Policy <- MCPolicy
  Ctr = {k1, k2}
  DockerState = {"running", "restarting", "exited", "stopping"}
INVARIANT FollowIsStandby
CHECK_DEADLOCK FALSE
