SPECIFICATION SpecMeasurement
CONSTANTS
  Typed = {TRUE, FALSE}
  HostNames = {"prom", "addr", "svc"}
  Searched = {"svc"}
  Ports = {0, 80, 443, 65535, 65536}
  NoPort <- MCNoPort
  Jobs = {"", "cadvisor"}
  Instances = {"", "host"}
  Units = {"u"}
  Flags <- MCFlags
  Sources <- MCSources
  Backends <- MCBackends
INVARIANTS DownTargetFailsClosed OffNeedsGap ExactlyDeclared DescribedIsMeasured
