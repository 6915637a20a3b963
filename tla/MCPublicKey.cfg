\* Behaviours of Arithmetic are one call long, so stopping is no error here.
CONSTANTS
  WordBits = 3
  NewtonRounds = 1
  SmallPrimes = {3}
  BasesSmall <- MCBases
  BasesLarge <- MCBasesLarge
  Prime = 32749
  StringBits = 16
  A24 = 3545
  BasePoint = 9
  ScLimbs = 4
  ScBits = 3
  ScFold <- MCScFold
  D = 193
  SqrtM1 = 15645
  BaseX = 8512
  BaseY = 9
  Numbers <- MCNumbers
  OddModuli <- MCOddModuli
  Exponents <- MCExponents
  WordOctets = 3
  ByteBase = 2
  SWidths <- MCSWidths
  SFold = 3
  SByteBits = 3
  SSlack = 60
  UWidths <- MCUWidths
  UFold = 3
  SignedLimbs <- MCSignedLimbs
  UnsignedLimbs <- MCUnsignedLimbs
  FieldStrings <- MCFieldStrings
  Secrets <- MCSecrets
  Points <- MCPoints
  HashValues <- MCHashValues
  Len1 = 2
  Exps <- MCExps
  BlindWords = 2
  Blinds <- MCBlinds
  Inputs <- MCInputs
  Base = 256
  Bits = 8
  SizeBytes = 8
  WordBytes = 4
  Tag <- MCTag
  Zed = 90
  Moduli <- MCModuli
  Plain <- MCPlain
  Draws = {0, 9}
  Hashes <- MCHashes
  Digests <- MCDigests
  Spare <- MCSpare
  Damage = {0, 255}
  MaxDamaged = 2
SPECIFICATION PublicSpec
INVARIANTS IntegersExact PrimesExact FieldsExact CurvesExact NothingLeft KeysWork PaddingExact
CHECK_DEADLOCK FALSE
