CONSTANTS
  Alice = Alice
  Bob = Bob
  Sk = Sk
  Ad = Ad
  MaxSkip = 2
  U32Max = 4
  MaxSent = 5
  MaxOverruns = 1
SPECIFICATION Spec
INVARIANTS IInv KeyUsedOnce ConsumedKeysGone UndeliveredStaysReadable
PROPERTY ImplementsChannel
