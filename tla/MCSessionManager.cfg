CONSTANTS
  MAX_USERS = 1
  MAX_DEVICES_PER_USER = 2
  MAX_SESSIONS_PER_DEVICE = 2
  MAX_INITIATING_SESSIONS = 2
  MAX_LATENCY_SECS = 0
  User = {u1, u2}
  DeviceName = {d1, d2, d3}
  Identity = {i1, i2}
  MaxIds = 3
  MaxClock = 1
SPECIFICATION Spec
SYMMETRY Symmetry
INVARIANTS WellFormed AcknowledgedUntilSwept
PROPERTIES SessionKept FailedStaysFailed
