SPECIFICATION Spec
CONSTANTS
  Nodes = {"n1", "n2"}
  Sources = {"systemd", "docker"}
  Specs <- MCEdits
  Readings <- MCUp
  Uids = {1, 2, 3, 4}
  Revs = {1, 2, 3, 4, 5, 6, 7, 8, 9, 10}
  Faults = {"create", "delete", "edit", "backend", "orphan", "foreign", "podDelete", "strip", "touch", "fail", "lost", "crash", "relist"}
  Lag = "any"
  MaxEnv = 2
  MaxLag = 1
INVARIANTS LoopAlive NoStaleSeries
PROPERTIES ForeignUntouched ReservationKept ResizedOnDrift
CHECK_DEADLOCK FALSE
