SPECIFICATION EncodingsSpec
CONSTANTS
    ca = ca
    cb = cb
    cc = cc
    zeroWord = zeroWord
    libc = libc
    nullPtr = nullPtr
    ItemCount = 5
    BlockIds = 2
    Client = {ca, cb, cc}
    Lengths = {1, 9}
    Insured = {ca}
    WordSize = 2
    WASTE = 4
    PageWords = 13
    Item <- MCItem
    BlockId <- MCBlockId
    Zero = zeroWord
    Fallback = libc
    NoPtr = nullPtr
VIEW View
SYMMETRY Symmetry
INVARIANTS
    HeapSound
    SecretsKept
    
    CodecsInvert
    KeysRead
    CertificatesShown
CHECK_DEADLOCK FALSE
