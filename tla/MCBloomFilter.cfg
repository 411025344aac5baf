SPECIFICATION BloomSpec
CONSTANTS
    Key <- MCKey
    NoKey = NoKey
    h1 <- MCh1
    h2 <- MCh2
    Word = 32
    WordBits = 4
    Want = 5
    Hashes = 2
    MaxAdds = 5
INVARIANTS
    BloomTypeOK
    NoFalseNegatives
PROPERTIES
    IsApproxSet
