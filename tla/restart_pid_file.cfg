SPECIFICATION Spec
CONSTANTS
  p1 = p1
  p2 = p2
  p3 = p3
  Processes <- ThreeProcesses
  PidOf <- ThePids
  Mode <- TheModes
  BindsCustom = {p1, p2}
  WantsPidFile = {p1, p2}
  Clients = {c1}
  Custom = Custom
  Nobody = Nobody
  MaxImages = 2
CHECK_DEADLOCK FALSE
PROPERTY RestartComesBack
