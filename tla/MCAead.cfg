\* 2-byte MAC blocks, 4-byte keystream blocks and 3-bit counter words: a long
\* XChaCha20 message carries into the high word.
CONSTANTS
  BlockSize = 2
  StreamBlock = 4
  WordMod = 8
  Variants <- Variant
  MaxAad = 3
  MaxMsg = 33
  Alterable = {5}
SPECIFICATION Spec
INVARIANTS TypeOK Positions KeystreamFresh DecryptedIsSent
PROPERTIES ImplementsMsg
