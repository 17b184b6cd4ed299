CONSTANTS
  MaxSkip = 2
  U32Max = 20
  Device = {A, B}
  Conversation = {c1, c2}
  DeviceId = {d1, e0}
  EmptyDeviceId = e0
  ReplayCapacity = 1
  Instances <- MCReplay
SPECIFICATION Spec
SYMMETRY Symmetry
INVARIANTS ReplayRejection
