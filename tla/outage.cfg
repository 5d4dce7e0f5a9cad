SPECIFICATION Spec
CONSTANTS
  Nodes = {"n1", "n2"}
  Sources = {"systemd", "docker"}
  Specs <- MCTwoSpecs
  Readings <- MCOutage
  Uids = {1, 2, 3}
  Revs = {1, 2, 3, 4, 5, 6, 7, 8}
  Faults = {"backend", "edit"}
  Lag = "none"
  MaxEnv = 2
  MaxLag = 2
PROPERTIES OutageKeepsSize
CHECK_DEADLOCK FALSE
