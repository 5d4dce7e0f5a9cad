SPECIFICATION HSpec
CONSTANTS
  Nodes = {"n1", "n2"}
  Sources = {"systemd", "docker"}
  Specs <- MCThreeSpecs
  Readings <- MCReadings
  Uids = {1, 2, 3}
  Revs = {1, 2, 3, 4, 5, 6, 7, 8}
  Faults = {"podDelete", "lost", "edit", "crash", "apierror", "reject", "node", "backend", "fail", "priority"}
  Lag = "none"
  MaxEnv = 3
  MaxLag = 2
INVARIANTS TypeOK SettledTruth BoundedReservation ReadyMeasured CoherentSnapshot ReportedWasHeld
PROPERTIES ResizedByMeasurement
CHECK_DEADLOCK FALSE
