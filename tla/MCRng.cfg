CONSTANTS
  Threads = {t1, t2}
  Builds <- WideVariants
  BlockSize = 2
  WordMod = 6
  StreamBlock = 1
  NonceLen = 2
  Requests = {2, 6}
  MaxGiven = 8
  MaxDraw = 4
SPECIFICATION FairSpec
INVARIANTS TypeOK NoRepeat InStreamOrder DescriptorsClosed
PROPERTIES CallReturns
