CONSTANTS
  Alice = Alice
  Bob = Bob
  Sk = Sk
  Ad = Ad
  MaxSkip = 2
  U32Max = 9
  MaxSent = 5
  HeaderChunks = 1
  EkChunks = 1
  Ct1Chunks = 1
  Ct2Chunks = 1
  IndexSpace = 4
  MaxSkipEpochs = 1
  SkipPerEpoch = 64
  MaxSkippedKeys = 2
SPECIFICATION Spec
INVARIANT InOrderReadable
