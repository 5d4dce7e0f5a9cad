SPECIFICATION FairSpec
CONSTANTS
  Nodes = {"n1", "n2"}
  Sources = {"systemd", "docker"}
  Specs <- MCTwoSpecs
  Readings <- MCUp
  Uids = {1, 2, 3}
  Revs = {1, 2, 3, 4, 5, 6, 7, 8}
  Faults = {"edit", "backend", "podDelete", "strip", "lost", "orphan", "node", "apierror", "reject", "crash", "priority"}
  Lag = "none"
  MaxEnv = 3
  MaxLag = 2
PROPERTIES Convergence
CHECK_DEADLOCK FALSE
