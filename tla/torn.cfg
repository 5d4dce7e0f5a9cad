SPECIFICATION HSpec
CONSTANTS
  Nodes = {"n1", "n2"}
  Sources = {"systemd", "docker"}
  Specs <- MCOneSpec
  Readings <- MCMixed
  Uids = {1, 2, 3}
  Revs = {1, 2, 3, 4, 5, 6, 7, 8}
  Faults = {"backend", "touch"}
  Lag = "poll"
  MaxEnv = 3
  MaxLag = 2
INVARIANTS CoherentSnapshot
CHECK_DEADLOCK FALSE
