CONSTANTS
  s1 = s1
  s2 = s2
  s3 = s3
  Servers <- MCServers
  Users = {u1, u2}
  Workers = {w1, w2}
  Configs <- MCConfigs
  None = None
  Main = Main
  MaxRequests = 3
  MaxReloads = 2
SPECIFICATION FairSpec
INVARIANTS Consistent ListFollowsFile
PROPERTIES UsersStay OnlyCrossedWait
CHECK_DEADLOCK FALSE
