CONSTANTS
  MaxSkip = 2
  U32Max = 20
  Device = {A, B}
  Conversation = {c1}
  DeviceId = {d1, e0}
  EmptyDeviceId = e0
  ReplayCapacity = 1
  Instances <- MessagesAndVerification
SPECIFICATION Spec
SYMMETRY Symmetry
INVARIANTS KeyUsedOnce AcceptedOnce CrashLosesNothing TrustIsExplicit
