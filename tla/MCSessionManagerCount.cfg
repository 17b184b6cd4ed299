CONSTANTS
  MAX_USERS = 1
  MAX_DEVICES_PER_USER = 2
  MAX_SESSIONS_PER_DEVICE = 2
  MAX_INITIATING_SESSIONS = 2
  MAX_LATENCY_SECS = 0
  User = {u1}
  DeviceName = {d1, d2}
  Identity = {i1}
  MaxIds = 2
  MaxClock = 1
SPECIFICATION Spec
SYMMETRY Symmetry
INVARIANT CountExact
