CONSTANTS
    Passphrases = {p1}
    Masters = {m1}
    PublicMaster = PublicMaster
    HDIndices = {0}
    Streams = {1}
    Versions = {3, 4}
    MaxZeros = 1
    MaxN = 2
    MaxNonce = 2
    MaxDraws = 2
    IndexBits = 2
    NoKey = NoKey
    NoAddress = NoAddress
    BadAddress = BadAddress
    BadWIF = BadWIF
    NoIdentity = NoIdentity
SPECIFICATION Spec
INVARIANTS SigningKeyNotDecryptionKey
