SPECIFICATION Spec
CHECK_DEADLOCK FALSE
INVARIANTS
    KeysCurrent
    TrustAnswers
    ChainSound
    RequestsVerify
