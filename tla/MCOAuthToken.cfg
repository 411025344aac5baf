SPECIFICATION TokenSpec
CONSTANTS
    c1 = c1
    c2 = c2
    NoCaller = NoCaller
    Callers <- MCCallers
    Margin = 2
    DefaultTTL = 5
    TTLs <- MCTTLs
    UnstatedTTLs <- MCUnstatedTTLs
    MaxLatency = 1
    MaxClock = 7
    MaxTokens = 3
INVARIANTS
    TokenTypeOK
    SentTokenIsLive
PROPERTIES
    NewestWins
    CallsReturn
CHECK_DEADLOCK FALSE
