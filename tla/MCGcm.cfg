\* 3-byte blocks and 2-block bulk calls; the pmull backend buffers as the
\* scalar one does.
CONSTANTS
  BlockSize = 3
  BulkBlocks = 2
  CtrMod = 5
  MaxAad = 4
  MaxMsg = 9
  Alterable = {1, 9}
  Backends = {"scalar", "pclmul"}
  AnyAadSplit = FALSE
SPECIFICATION FairSpec
INVARIANTS TypeOK Lockstep AadStaysInside KeystreamFresh
PROPERTIES ImplementsMsg CallReturns
