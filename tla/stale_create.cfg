SPECIFICATION Spec
CONSTANTS
  Nodes = {"n1", "n2"}
  Sources = {"systemd", "docker"}
  Specs <- MCOneSpec
  Readings <- MCUp
  Uids = {1, 2, 3}
  Revs = {1, 2, 3, 4, 5, 6, 7, 8}
  Faults = {"apierror"}
  Lag = "poll"
  MaxEnv = 1
  MaxLag = 2
PROPERTIES HealthyPhantomKept
CHECK_DEADLOCK FALSE
