SPECIFICATION Spec
CONSTANTS
  Bytes <- TwoBytes
  Zero = 0
  CheapPrepend = 2
  InitialSize = 2
  ExtraSize = 2
  Inputs <- UpToThree
  MaxReadable = 5
INVARIANT IndicesInOrder
PROPERTIES GrowsOnlyWhenFull ImplementsByteQueue
