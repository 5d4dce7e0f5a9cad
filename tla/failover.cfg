SPECIFICATION FairSpec
CONSTANTS
  Nodes = {"n1", "n2"}
  Sources = {"systemd", "docker"}
  Specs <- MCOneSpec
  Readings <- MCUp
  Uids = {1, 2, 3, 4}
  Revs = {1, 2, 3, 4, 5, 6, 7, 8, 9, 10}
  Faults = {"delete", "create", "foreign", "orphan", "crash", "touch", "relist"}
  Lag = "poll"
  MaxEnv = 3
  MaxLag = 2
PROPERTIES Cleanup ForeignUntouched
CHECK_DEADLOCK FALSE
