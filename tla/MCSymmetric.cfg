\* Seven bytes of data and a block of HMAC fit a bit count below 96; a SHA-512
\* message of 12 bytes carries.  A behaviour ends when its calls are used up, so
\* stopping is no error here.
CONSTANTS
    WordMod = 96
    Algs <- MCAlgs
    MaxMsg = 13
    MaxOut = 8
    Sha <- MCSha
    KeyLens = {0, 3, 4, 5, 9}
    MaxData = 7
    SaltLens = {0, 1, 3}
    Iterations = {0, 1, 2, 3}
    OutLens = {0, 1, 2, 3, 4, 5}
    Buffers = {"a", "b"}
    BlockLen = 2
    Batch = 2
    BufLen = 9
    MaxCalls = 2
    Thread = {t1, t2}
    Features = {"aes", "pclmul"}
    Impls <- AllImpls
    UserKeys <- SampleKeys
    Plains <- Samples
SPECIFICATION MCSpec
CHECK_DEADLOCK FALSE
INVARIANTS TypeOK Positions HmacExact DerivedExact ModesExact OneBackend CiphersExact
PROPERTIES ImplementsHash
