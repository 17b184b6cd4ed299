CONSTANTS
  Alice = Alice
  Bob = Bob
  Sk = Sk
  Ad = Ad
  MaxSkip = 2
  U32Max = 4
  MaxSent = 4
  MaxOverruns = 1
SPECIFICATION Spec
INVARIANTS HeaderKeyPerChain UndeliveredStaysReadable ReloadLosesNothing
PROPERTY ImplementsClassical
