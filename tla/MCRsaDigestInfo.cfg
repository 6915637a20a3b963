CONSTANTS
  WordBits = 3
  NewtonRounds = 1
  SmallPrimes = {3}
  BasesSmall <- MCBases
  BasesLarge <- MCBases
  Len1 = 2
  Exps <- MCExps
  BlindWords = 2
  Blinds <- MCBlinds
  Inputs <- MCInputs
  Base = 256
  Bits = 8
  SizeBytes = 8
  WordBytes = 4
  Tag <- MCTag
  Zed = 90
  Moduli <- MCModuli
  Plain <- MCPlain
  Draws = {0, 9}
  Hashes <- MCHashes
  Digests <- MCDigests
  Spare <- MCSpare
  Damage = {0, 255}
  MaxDamaged = 2
SPECIFICATION MCSpec
INVARIANT DigestInfoOrder
