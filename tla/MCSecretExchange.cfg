SPECIFICATION MCSpec
CONSTANTS
    prompterEnd = prompterEnd
    clientEnd = clientEnd
    pw1 = pw1
    pw2 = pw2
    null = null
    junk = junk
    Side = {prompterEnd, clientEnd}
    Peer <- MCPeer
    Secret = {pw1, pw2}
    NoSecret = null
    Garbage = junk
    MaxKeys = 4
    MaxSent = 3
    Restart = FALSE
    Helper = {1, 2}
    Passwords = {"p", "q"}
CHECK_DEADLOCK FALSE
INVARIANTS
    KeysAgree
    PassphraseRight
PROPERTIES
    SecretArrives
    HelpersEnd
