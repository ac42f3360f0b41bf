CONSTANTS
  Client = {c1, c2}
  Capacity = 2
  MaxTrips = 5
  Runner = {r1, r2}
  ContainerName = {"n"}
  MaxContainers = 3
SPECIFICATION ProgressSpec
INVARIANTS ProgressTypeOK AllHandled StartedWhenDone
PROPERTIES LoadEnds BlockEnds
CHECK_DEADLOCK FALSE
