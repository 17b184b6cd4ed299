CONSTANTS
  Alice = Alice
  Bob = Bob
  Shared = Shared
  MaxEpoch = 3
  HeaderChunks = 1
  EkChunks = 2
  Ct1Chunks = 2
  Ct2Chunks = 2
  IndexSpace = 2
  Lost <- MCLost
  Late <- MCLate
SPECIFICATION Spec
INVARIANTS ChunksAgree NoReceiveFails RestoredMidEpoch OneDecapsulator
PROPERTIES ImplementsAgreement EpochsComplete
